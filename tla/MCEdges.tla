------------------------------ MODULE MCEdges ------------------------------
(***************************************************************************)
(* What the library does at its edges: a command, a call of                *)
(* connect_from_registry, a document or a line transport, each on its own. *)
(* The transport has a limit of one byte on a line, reads and pipes of     *)
(* two, and blank, largest and overlong lines.                             *)
(***************************************************************************)
EXTENDS MCValidateCommand, MCWireDocuments, LineTransport

VARIABLE edge   \* which of the four is looked at
MCVars == <<commandVars, documentVars, lineVars, edge>>

\* What is not looked at has one initial state.
MCInit ==
  /\ edge \in {"command", "registry", "document", "line"}
  /\ IF edge = "command" THEN MCCommandInit
     ELSE /\ build = TRUE /\ disk = Usual /\ walk = NoWalk /\ cmd = Fresh(<<>>) /\ mirror = NotAsked
          /\ lookup = NoLookup /\ net \in IF edge = "registry" THEN Worlds ELSE {Ordinary}
  /\ IF edge = "document" THEN DocumentInit ELSE doc = <<"none">> /\ answer = Pending
  /\ LineInit /\ (edge # "line" => kind = CHOOSE k \in Kinds : TRUE)

OnCommand(A) == edge = "command" /\ A /\ UNCHANGED <<documentVars, lineVars, edge>>
OnRegistry(A) ==
  edge = "registry" /\ A /\ UNCHANGED <<build, cmd, mirror, closureVars, documentVars, lineVars, edge>>
OnDocument(A) == edge = "document" /\ A /\ UNCHANGED <<commandVars, lineVars, edge>>
OnLine(A) == edge = "line" /\ A /\ UNCHANGED <<commandVars, documentVars, edge>>

MCNext == OnCommand(CommandNext) \/ OnRegistry(LookupNext) \/ OnDocument(DocumentNext) \/ OnLine(LineNext)
\* The fairness of ValidateCommand and of LineTransport.
MCSpec ==
  /\ MCInit /\ [][MCNext]_MCVars
  /\ WF_MCVars(OnCommand(CommandNext))
  /\ WF_MCVars(OnLine(InCall)) /\ WF_MCVars(OnLine(MirrorGoesOn))
=============================================================================
