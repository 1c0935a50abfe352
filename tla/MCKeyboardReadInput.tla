------------------------ MODULE MCKeyboardReadInput ------------------------
(* An instance of KeyboardReadInput for TLC.  An int is less than 4: 6 is   *)
(* too far from 0 and 1 to be compared.                                     *)
EXTENDS KeyboardReadInput

FewLatencies == {0, 1, 6}

=============================================================================
