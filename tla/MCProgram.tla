----------------------------- MODULE MCProgram -----------------------------
EXTENDS Program, TLC

OneNote == {<<"Note">>}
OneOrTwo == OneNote \cup {<<"Note", "Critical">>}

Symmetry == Permutations(Server) \cup Permutations(Client) \cup Permutations(Job)
=============================================================================
