SPECIFICATION Spec
CONSTANT MaxIndex = 2
PROPERTY NameIsOfLastSavedFile
