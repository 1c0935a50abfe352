------------------------ MODULE MCProgramLifecycle ------------------------
(* The program has no parameters: its states are finite as they are.       *)
EXTENDS ProgramLifecycle

=============================================================================
