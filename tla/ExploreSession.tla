-------------------------- MODULE ExploreSession --------------------------
(***************************************************************************)
(* ExploreSession (src/client.cpp): a client-driven exploration over one   *)
(* connection.  The owner calls commands; each sends one message and reads *)
(* one reply, and any disorder poisons the session; only an exception of   *)
(* the codec leaves it as it was.                                          *)
(*                                                                         *)
(* Messages are numbered by the command they belong to; the code never     *)
(* sees the numbers.  The mirror answers commands in order but may answer  *)
(* wrongly, late or never, and a read may fail while an answer is on its   *)
(* way.                                                                    *)
(***************************************************************************)
EXTENDS Naturals, Sequences, PhaseGuard

CONSTANT MaxCommands  \* bound on messages the owner makes the session send

ASSUME SessionAssumption == MaxCommands \in Nat \ {0}

Open == "register_explore_session"

VARIABLES
  session,   \* transport_, done_, guard_, where the owner's call is, and whether it
             \* was ever poisoned or assigned over
  commands,  \* messages of the client: the n-th is command n
  replies,   \* replies on their way to the client
  mirror,    \* how many messages the mirror read, and whether it still runs
  outcomes   \* how the commands ended: command, the command the reply was for, and
             \* whether the reply was returned or decoding it threw

sessionVars == <<session, commands, replies, mirror, outcomes>>

SessionReply == [tag : MirrorMessages, re : Nat]
SessionTypeOK ==
  /\ session \in [transport : {"open", "closed", "null"}, done : BOOLEAN, lost : BOOLEAN,
                  guard : {"idle", "exploring", "done"}, dying : BOOLEAN,
                  pc : {"open", "ready", "reading", "gone", "aborted"}]
  /\ commands \in Seq({Open} \cup ExploreCommands) /\ Len(commands) <= MaxCommands
  /\ replies \in Seq(SessionReply)
  /\ mirror \in [read : 0 .. Len(commands), up : BOOLEAN]
  /\ outcomes \in Seq([no : Nat, re : Nat, threw : BOOLEAN])

SessionInit ==
  /\ session = [transport |-> "open", done |-> FALSE, guard |-> "idle", pc |-> "open",
                dying |-> FALSE, lost |-> FALSE]
  /\ commands = <<>> /\ replies = <<>> /\ outcomes = <<>>
  /\ mirror = [read |-> 0, up |-> TRUE]

SessionAt(point) == session.pc = point
Latest == Len(commands)

\* The reply a command or the registration expects.
Expected(tag) ==
  CASE tag = Open -> "explorer_ready"
    [] tag = "explore_assume_transition" -> "explore_transition_status"
    [] tag = "explore_next_step" -> "explore_step_done"
    [] tag = "explore_query_state" -> "explore_state"
    [] tag = "explore_check_invariant" -> "explore_invariant_status"
    [] tag = "explore_assume_state" -> "explore_assume_status"
    [] tag = "explore_rollback" -> "explore_rollback_done"
    [] tag = "explore_done" -> "explore_session_done"

\* The object after a call: usable, or destroyed if its destructor made the call.
Rest(s) == [s EXCEPT !.pc = IF s.dying THEN "gone" ELSE "ready",
                     !.transport = IF s.dying THEN "null" ELSE @]

\* poison(); a failed open() closes the transport and makes no object at all.
JustReturn(s) ==   \* mutant: the error is returned and the session stays usable
  IF outcomes = <<>> THEN [s EXCEPT !.pc = "gone"] ELSE Rest(s)
NeverClosed(s) ==   \* mutant: the session is marked but its connection stays
  IF outcomes = <<>> THEN [s EXCEPT !.pc = "gone", !.lost = TRUE]
  ELSE Rest([s EXCEPT !.done = TRUE, !.lost = TRUE])
Poison(s) ==
  LET t == [s EXCEPT !.done = TRUE, !.transport = "closed", !.lost = TRUE]
  IN IF outcomes = <<>> THEN [t EXCEPT !.pc = "gone"] ELSE Rest(t)

\* An exception passes the call: it ends open() and its transport, terminates the
\* process in the destructor, which is noexcept, and changes nothing in command().
Dropped(s) == [s EXCEPT !.pc = "gone", !.transport = "null", !.lost = TRUE]
Unwound(s) ==
  IF outcomes = <<>> THEN Dropped(s)
  ELSE IF s.dying THEN [s EXCEPT !.pc = "aborted", !.transport = "null"]
  ELSE [s EXCEPT !.pc = "ready"]

---------------------------------------------------------------------------

\* open() sends the registration; a failed send closes the transport.
OpenSend(ok) ==
  /\ SessionAt("open") /\ commands = <<>>
  /\ IF ok THEN /\ commands' = <<Open>>
                /\ session' = [session EXCEPT !.guard = AfterSend(@, Open), !.pc = "reading"]
     ELSE session' = Poison(session) /\ UNCHANGED commands
  /\ UNCHANGED <<replies, mirror, outcomes>>

\* command(): refused on a closed session, otherwise guard and send.
Refused == session.transport = "null" \/ session.done
Closed(tag) ==
  /\ SessionAt("ready") /\ Refused
  /\ UNCHANGED <<session, commands, replies, mirror, outcomes>>
Send(tag, ok, s) ==
  /\ MaySend(s.guard, tag)
  /\ IF ok THEN /\ s.transport = "open" /\ Len(commands) < MaxCommands
                /\ commands' = Append(commands, tag) /\ session' = [s EXCEPT !.pc = "reading"]
     ELSE session' = Poison(s) /\ UNCHANGED commands
Command(tag, ok) ==
  /\ SessionAt("ready") /\ ~Refused
  /\ Send(tag, ok, session)
  /\ UNCHANGED <<replies, mirror, outcomes>>

\* encode_client_message throws on text that is not UTF-8: the registration, or the
\* state of assume_state.
SendThrows ==
  /\ SessionAt("open") \/ (SessionAt("ready") /\ ~Refused)
  /\ session' = Unwound(session)
  /\ UNCHANGED <<commands, replies, mirror, outcomes>>

\* The destructor calls done() unless the session is over; the transport goes with it.
DropIt(ok) ==   \* mutant: the destructor forgets done()
  /\ SessionAt("ready") /\ ok /\ session' = [session EXCEPT !.pc = "gone", !.transport = "null"]
  /\ UNCHANGED <<commands, replies, mirror, outcomes>>
Destroy(ok) ==
  /\ SessionAt("ready")
  /\ IF Refused
     THEN session' = [session EXCEPT !.pc = "gone", !.transport = "null"] /\ UNCHANGED commands
     ELSE Send("explore_done", ok, [session EXCEPT !.dying = TRUE])
  /\ UNCHANGED <<replies, mirror, outcomes>>

\* The defaulted move assignment drops a live session's transport without done().
MovedOver ==
  /\ SessionAt("ready")
  /\ session' = Dropped(session)
  /\ UNCHANGED <<commands, replies, mirror, outcomes>>

\* recv_line or decoding returns an error: the mirror is gone, or the read failed.
ReadFails ==
  /\ SessionAt("reading")
  /\ session' = Poison(session)
  /\ UNCHANGED <<commands, replies, mirror, outcomes>>

\* decode_mirror_message throws (DecodeNeverThrows is violated): the reply is
\* consumed, and no call of poison() is reached.
ReadThrows ==
  /\ SessionAt("reading") /\ replies # <<>>
  /\ replies' = Tail(replies) /\ session' = Unwound(session)
  /\ outcomes' = Append(outcomes, [no |-> Latest, re |-> Head(replies).re, threw |-> TRUE])
  /\ UNCHANGED <<commands, mirror>>

\* One reply: protocol_error, a reply the guard refuses and a reply of another
\* kind poison the session; explore_session_done ends it.
IsAnswer(tag) ==
  /\ MayReceive(session.guard, tag) /\ tag = Expected(commands[Latest])
Read ==
  LET m == Head(replies)
      s == [session EXCEPT !.guard = IF MayReceive(@, m.tag) THEN AfterReceive(@, m.tag) ELSE @]
  IN /\ SessionAt("reading") /\ replies # <<>>
     /\ replies' = Tail(replies)
     /\ IF ~IsAnswer(m.tag) THEN session' = Poison(s) /\ UNCHANGED outcomes
        ELSE /\ outcomes' = Append(outcomes, [no |-> Latest, re |-> m.re, threw |-> FALSE])
             /\ session' = IF commands[Latest] # "explore_done" THEN Rest(s)
                           ELSE Rest([s EXCEPT !.done = TRUE, !.transport = "null"])
     /\ UNCHANGED <<commands, mirror>>

---------------------------------------------------------------------------
(* The mirror (external) *)

MirrorAnswers(tag) ==
  /\ mirror.up /\ mirror.read < Len(commands) /\ session.transport = "open"
  /\ mirror' = [mirror EXCEPT !.read = @ + 1]
  /\ replies' = Append(replies, [tag |-> tag, re |-> mirror.read + 1])
  /\ UNCHANGED <<session, commands, outcomes>>
MirrorStops ==
  /\ mirror.up /\ mirror' = [mirror EXCEPT !.up = FALSE]
  /\ UNCHANGED <<session, commands, replies, outcomes>>

Over == (SessionAt("gone") \/ SessionAt("aborted")) /\ UNCHANGED sessionVars

SessionNext ==
  \/ \E ok \in BOOLEAN : OpenSend(ok) \/ Destroy(ok) \/ \E c \in ExploreCommands : Command(c, ok)
  \/ \E c \in ExploreCommands : Closed(c)
  \/ MovedOver \/ SendThrows \/ ReadFails \/ ReadThrows \/ Read \/ MirrorStops \/ Over
  \/ \E tag \in MirrorMessages : MirrorAnswers(tag)

SessionSpec == SessionInit /\ [][SessionNext]_sessionVars

---------------------------------------------------------------------------

\* What a call returns, or loses in an exception, is the mirror's answer to that
\* very call, never a late answer to an earlier one.
AnswersThisCommand == \A i \in 1 .. Len(outcomes) : outcomes[i].re = outcomes[i].no

\* Commands and replies alternate: a new command leaves only when every earlier
\* one was answered and its answer consumed.  A reply whose decoding throws neither
\* poisons nor closes (client.hpp:171 says it does), but it is consumed, so that the
\* session that stays usable is still in step.
StrictAlternation ==
  SessionAt("ready") /\ ~session.done =>
    replies = <<>> /\ mirror.read = Len(commands) /\ Len(outcomes) = Len(commands)

\* A poisoned or finished session never speaks again, and its connection is closed.
PoisonedForGood ==
  [][session.done => /\ session'.done /\ commands' = commands /\ outcomes' = outcomes
                     /\ session'.transport # "open"]_sessionVars

\* When the object is gone the connection is closed, and unless it was poisoned,
\* assigned over or never made its last word was an explore_done that the mirror
\* confirmed.  The process dies in the destructor only if the reply to that
\* explore_done came and could not be decoded.
Confirmed(threw) ==
  /\ commands[Latest] = "explore_done"
  /\ outcomes[Len(outcomes)].re = Latest /\ outcomes[Len(outcomes)].threw = threw
OrderlyEnd ==
  /\ SessionAt("gone") => session.transport # "open" /\ (session.lost \/ Confirmed(FALSE))
  /\ SessionAt("aborted") => session.dying /\ session.transport # "open" /\ Confirmed(TRUE)

\* A session keeps in step with the mirror, exceptions of the codec included, returns
\* its answers to the commands they belong to, and its end leaves the mirror informed
\* or the connection closed (ExploreSession::command, ~ExploreSession).
SessionInv == SessionTypeOK /\ AnswersThisCommand /\ StrictAlternation /\ OrderlyEnd
=============================================================================
