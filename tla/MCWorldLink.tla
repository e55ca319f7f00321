----------------------------- MODULE MCWorldLink ----------------------------
\* A login, the selection of a company, requests of the game and a logout; in Leaving, the
\* company is switched, and the world is left for the directory or another world.
EXTENDS WorldLink, TLC

OneWorld      == {"login", "select", "game", "logout"}
Leaving       == {"login", "select", "switch", "switchCompany", "game", "directory"}

Alike == Permutations(Sock) \cup Permutations(Body)
=============================================================================
