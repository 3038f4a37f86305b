SPECIFICATION Spec
INVARIANTS SectionsShowFile   LinesFound
    NamesSameFile
 
