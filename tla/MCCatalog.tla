------------------------------ MODULE MCCatalog ------------------------------
\* Catalog on two connections and two requests at once, each interchangeable.
EXTENDS Catalog, TLC
Symmetry == Permutations(Conns) \cup Permutations(Slots)
=============================================================================
