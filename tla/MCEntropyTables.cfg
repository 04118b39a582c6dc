SPECIFICATION Spec
CONSTANTS
    t1 = t1
    t2 = t2
    w1 = w1
    w2 = w2
    None = None
    Axis = {ll}
    Huffman = {w1, w2}
    Fse = {t1, t2}
    Symbol = {s1}
    Handle = {h1, h2, h3}
    Dictionaries <- MCDictionaries
SYMMETRY HandleSymmetry
INVARIANT SameTables
INVARIANT DictionaryTablesIntact
