SPECIFICATION Spec
CONSTANTS
    None = None
    a1 = a1  a2 = a2  t1 = t1  t2 = t2  s1 = s1  s2 = s2
    c1 = c1  c2 = c2  c3 = c3  c4 = c4  p1 = p1  p2 = p2  d1 = d1
    AttachmentBudgets <- Attachings
    KeyBudgets <- Keyings
    ImportBudgets <- Importings
    ArchiveBudgets <- Readings
    DiskBudgets <- Writes
    ExportBudgets <- Exports
    ExportPages <- Pages
INVARIANTS
    
    KeysStrandNothing
    
    
    DiskNeverStuck
    ExportsWhole
SYMMETRY Symmetry
CHECK_DEADLOCK FALSE
