----------------------------- MODULE StepFlow -----------------------------
(***************************************************************************)
(* The client's synchronous flows (src/client.cpp): the stepping loop,     *)
(* with and without a negotiated adapter, and the flows with one reply.    *)
(*                                                                         *)
(* The client is one thread; an action is what it does between two calls   *)
(* that can fail.  The mirror may send any message at any time, whatever   *)
(* the protocol says, and every call on the transport may fail.            *)
(***************************************************************************)
EXTENDS Integers, Sequences, FiniteSets, PhaseGuard

CONSTANTS
  States,       \* states a StateComputer can return
  MaxMessages,  \* bound on messages exchanged in one flow
  MaxFlows      \* bound on flows called with one transport

Plain == {"register", "register_traces", "register_explore"}
OneShots == {"register_trace_gen", "register_validate"}
Flows == Plain \cup OneShots \cup {"negotiated"}
NoState == 0

ASSUME FlowAssumption ==
  /\ NoState \notin States /\ States # {}
  /\ MaxMessages \in Nat /\ MaxFlows \in Nat

\* The negotiation extension of a reply: none, the digest of the request or
\* another one, the statuses without a digest, or one decode_reply refuses.
InterfaceReplies == {"absent", "same", "other", "mismatch", "unsupported", "unavailable", "bad"}
Kinds == {"none", "ok", "io", "json", "protocol", "spec_invalid", "registration", "step_mismatch",
          "model_interface", "threw", "escaped"}
Message == [from : {"client", "mirror"}, tag : ClientMessages \cup MirrorMessages,
            val : States \cup {NoState}, reply : InterfaceReplies]

VARIABLES
  call,     \* the running call: flow, where it is, its result, the selection's policy
  guard,    \* phase_ of its PhaseGuard
  app,      \* locals of the loop: prev, the step being computed
  binding,  \* the LocalBinding of a negotiated flow
  first,    \* PrefixedTransport::first_
  open,     \* the transport is open
  wire      \* every message of this flow that went over the connection

flowVars == <<call, guard, app, binding, first, open, wire>>

FlowTypeOK ==
  /\ call \in [flow : Flows, result : Kinds, prefer : BOOLEAN, fallback : BOOLEAN,
               calls : 0 .. MaxFlows,
               pc : {"idle", "register", "negotiate", "factory", "admit", "validation", "step",
                     "compute", "report", "reply", "dispose"}]
  /\ guard \in Phases
  /\ app \in [prev : States \cup {NoState}, asked : {"none", "initial_state", "next_step"}]
  /\ binding \in [state : {"none", "live", "disposed"}, disposals : Nat,
                  origin : {"none", "compiled", "fallback"}]
  /\ first \in {"none", "spec_valid"}
  /\ open \in BOOLEAN
  /\ wire \in Seq(Message) /\ Len(wire) <= MaxMessages

NoBinding == [state |-> "none", disposals |-> 0, origin |-> "none"]
FlowInit ==
  /\ call = [flow |-> "register", result |-> "none", prefer |-> FALSE, fallback |-> FALSE,
             calls |-> 0, pc |-> "idle"]
  /\ guard = "idle" /\ first = "none" /\ open = TRUE /\ wire = <<>>
  /\ app = [prev |-> NoState, asked |-> "none"]
  /\ binding = NoBinding

At(point) == call.pc = point
Goto(point) == call' = [call EXCEPT !.pc = point]
Negotiated == call.flow = "negotiated"
Room == Len(wire) < MaxMessages
FromClient(tag, val) == [from |-> "client", tag |-> tag, val |-> val, reply |-> "absent"]
FromMirror(tag, reply) == [from |-> "mirror", tag |-> tag, val |-> NoState, reply |-> reply]

\* Close the transport and return.
Return(result) == call' = [call EXCEPT !.pc = "idle", !.result = result] /\ open' = FALSE

\* The loop ends: it closes the transport; a negotiated flow still has to dispose.
LeaveLeaking(result) ==   \* mutant: the loop's result is returned at once
  call' = [call EXCEPT !.pc = "idle", !.result = result] /\ open' = FALSE
Leave(result) ==
  /\ call' = [call EXCEPT !.pc = IF Negotiated THEN "dispose" ELSE "idle", !.result = result]
  /\ open' = FALSE

\* An exception that no code of the flow catches: the transport stays as it is.  Once
\* a negotiated flow has its binding it catches everything and disposes.
EscapeBound ==   \* mutant: a negotiated flow catches nothing either
  /\ call' = [call EXCEPT !.pc = "idle", !.result = "escaped"]
  /\ UNCHANGED <<guard, app, binding, first, open, wire>>
Escape ==
  /\ call' = IF binding.state = "live"
             THEN [call EXCEPT !.pc = "dispose", !.result = "model_interface"]
             ELSE [call EXCEPT !.pc = "idle", !.result = "escaped"]
  /\ UNCHANGED <<guard, app, binding, first, open, wire>>

---------------------------------------------------------------------------
(* Starting a flow *)

Call(flow, prefer, fallback) ==
  /\ At("idle") /\ call.calls < MaxFlows
  /\ call' = [flow |-> flow, result |-> "none", prefer |-> prefer, fallback |-> fallback,
              calls |-> call.calls + 1, pc |-> "register"]
  /\ guard' = "idle" /\ first' = "none"
  /\ app' = [prev |-> NoState, asked |-> "none"]
  /\ binding' = NoBinding /\ wire' = <<>>
  /\ UNCHANGED open

\* A null StateComputer, or a selection that cannot be prepared or encoded: the
\* flow returns before it touches the transport.
CallRefused ==
  /\ At("register") /\ call.flow \notin OneShots
  /\ call' = [call EXCEPT !.pc = "idle",
                          !.result = IF Negotiated THEN "model_interface" ELSE "protocol"]
  /\ UNCHANGED <<guard, app, binding, first, open, wire>>

\* A negotiated flow registers traces or has them generated.
Register(tag, ok) ==
  /\ At("register") /\ MaySend(guard, tag)
  /\ tag \in IF Negotiated THEN {"register", "register_traces"} ELSE {call.flow}
  /\ guard' = AfterSend(guard, tag)
  /\ IF ok
     THEN /\ open /\ Room /\ UNCHANGED open
          /\ wire' = Append(wire, FromClient(tag, NoState))
          /\ Goto(IF Negotiated THEN "negotiate"
                  ELSE IF call.flow \in OneShots THEN "reply" ELSE "validation")
     ELSE Return("io") /\ UNCHANGED wire
  /\ UNCHANGED <<app, binding, first>>

---------------------------------------------------------------------------
(* Negotiation: prepare_compiled_adapter to run_compiled_negotiated *)

\* authorize_compiled_reply: the factory it selects, or the error.
AnyMatch(tag, reply) ==   \* mutant: the digest of a match is not compared
  IF tag = "spec_valid" /\ reply \in {"same", "other"} THEN "compiled" ELSE "model_interface"
Authorize(tag, reply) ==
  CASE tag = "protocol_error" -> "protocol"
    [] tag = "register_error" -> IF reply = "other" THEN "model_interface" ELSE "registration"
    [] tag = "spec_invalid" -> "spec_invalid"
    [] tag = "spec_valid" /\ reply = "same" -> "compiled"
    [] tag = "spec_valid" /\ reply \in {"absent", "unsupported", "unavailable"}
         /\ call.prefer /\ call.fallback -> "fallback"
    [] OTHER -> "model_interface"

\* decode_model_interface_registration_reply: where an extension may stand.
Decodable(tag, reply) ==
  \/ reply = "absent"
  \/ reply # "bad" /\ tag = "spec_valid"
  \/ reply \in {"other", "mismatch", "unsupported", "unavailable"} /\ tag = "register_error"

Negotiate(tag, reply) ==
  LET choice == Authorize(tag, reply)
  IN /\ At("negotiate") /\ Room
     /\ wire' = Append(wire, FromMirror(tag, reply))
     /\ IF ~Decodable(tag, reply) THEN Return("model_interface") /\ UNCHANGED <<binding, first>>
        ELSE IF choice \notin {"compiled", "fallback"} THEN Return(choice) /\ UNCHANGED <<binding, first>>
        ELSE /\ Goto("factory") /\ first' = tag /\ UNCHANGED open
             /\ binding' = [binding EXCEPT !.origin = choice]
     /\ UNCHANGED <<guard, app>>
NegotiateFails ==
  /\ At("negotiate") /\ \E k \in {"io", "json", "model_interface"} : Return(k)
  /\ UNCHANGED <<guard, app, binding, first, wire>>

Factory(ok) ==
  /\ At("factory")
  /\ IF ok THEN Goto("admit") /\ binding' = [binding EXCEPT !.state = "live"] /\ UNCHANGED open
     ELSE Return("model_interface") /\ UNCHANGED binding
  /\ UNCHANGED <<guard, app, first, wire>>

\* The binding's digest, computer and configuration check.
Admit(ok) ==
  /\ At("admit")
  /\ IF ok THEN Goto("validation")
     ELSE call' = [call EXCEPT !.pc = "dispose", !.result = "model_interface"]
  /\ UNCHANGED <<guard, app, binding, first, open, wire>>

Dispose(ok) ==
  /\ At("dispose")
  /\ binding' = [binding EXCEPT !.state = "disposed", !.disposals = @ + 1]
  /\ Return(IF call.result = "ok" /\ ~ok THEN "model_interface" ELSE call.result)
  /\ UNCHANGED <<guard, app, first, wire>>

---------------------------------------------------------------------------
(* run_stepping_loop *)

\* recv_line of the loop: the prefix once, then the connection.
Receives(tag) ==
  \/ first # "none" /\ tag = first /\ first' = "none" /\ UNCHANGED wire
  \/ first = "none" /\ Room /\ wire' = Append(wire, FromMirror(tag, "absent")) /\ UNCHANGED first

ErrorOf(tag) == CASE tag = "register_error" -> "registration"
                  [] tag = "spec_invalid" -> "spec_invalid"
                  [] tag = "step_mismatch" -> "step_mismatch"
                  [] OTHER -> "protocol"

AwaitValidation(tag) ==
  /\ At("validation") /\ Receives(tag)
  /\ guard' = IF MayReceive(guard, tag) THEN AfterReceive(guard, tag) ELSE guard
  /\ IF MayReceive(guard, tag) /\ tag = "spec_valid" THEN Goto("step") /\ UNCHANGED open
     ELSE Leave(IF MayReceive(guard, tag) THEN ErrorOf(tag) ELSE "protocol")
  /\ UNCHANGED <<app, binding>>

AwaitStep(tag) ==
  /\ At("step") /\ Receives(tag)
  /\ guard' = IF MayReceive(guard, tag) THEN AfterReceive(guard, tag) ELSE guard
  /\ IF ~MayReceive(guard, tag) THEN Leave("protocol") /\ UNCHANGED app
     ELSE IF tag \in {"initial_state", "next_step"}
     THEN Goto("compute") /\ app' = [app EXCEPT !.asked = tag] /\ UNCHANGED open
     ELSE IF tag = "step_ok" THEN UNCHANGED <<call, open, app>>
     ELSE Leave(IF tag = "all_steps_done" THEN "ok" ELSE ErrorOf(tag)) /\ UNCHANGED app
  /\ UNCHANGED binding

\* recv_line fails, or the line decodes to an error.
ReceiveFails ==
  /\ At("validation") \/ At("step")
  /\ first = "none" /\ \E k \in {"io", "json"} : Leave(k)
  /\ UNCHANGED <<guard, app, binding, first, wire>>

\* The previous state the computer is called with.
Previous == IF app.asked = "initial_state" THEN NoState ELSE app.prev

Compute(state) ==
  /\ At("compute") /\ Goto("report")
  /\ app' = [app EXCEPT !.prev = state]
  /\ UNCHANGED <<guard, binding, first, open, wire>>

\* The transport is closed and the exception goes on; a negotiated flow catches it.
ComputeThrows ==
  /\ At("compute") /\ Leave(IF Negotiated THEN "model_interface" ELSE "threw")
  /\ UNCHANGED <<guard, app, binding, first, wire>>

Unchecked(ok) ==   \* mutant: a failed send is not noticed
  /\ At("report") /\ Goto("step") /\ (ok => Room)
  /\ wire' = IF ok THEN Append(wire, FromClient("report_state", app.prev)) ELSE wire
  /\ UNCHANGED <<guard, app, binding, first, open>>
Report(ok) ==
  /\ At("report") /\ MaySend(guard, "report_state")
  /\ IF ok THEN /\ Room /\ Goto("step") /\ UNCHANGED open
                /\ wire' = Append(wire, FromClient("report_state", app.prev))
     ELSE Leave("io") /\ UNCHANGED wire
  /\ UNCHANGED <<guard, app, binding, first>>

---------------------------------------------------------------------------
(* run_client_gen_traces and run_client_validate *)

Answers == IF call.flow = "register_validate" THEN {"spec_valid", "spec_invalid"}
           ELSE {"gen_traces_done"}
Reply(tag) ==
  /\ At("reply") /\ Receives(tag)
  /\ guard' = IF MayReceive(guard, tag) THEN AfterReceive(guard, tag) ELSE guard
  /\ Return(IF ~MayReceive(guard, tag) THEN "protocol" ELSE IF tag \in Answers THEN "ok"
            ELSE IF tag = "register_error" THEN "registration" ELSE "protocol")
  /\ UNCHANGED <<app, binding>>
ReplyFails ==
  /\ At("reply") /\ \E k \in {"io", "json"} : Return(k)
  /\ UNCHANGED <<guard, app, binding, first, wire>>

---------------------------------------------------------------------------
(* The codec throws *)

\* encode_client_message, on text that is not UTF-8: in the registration (a negotiated
\* flow catches that and returns) or in the state the computer returned.
EncodeThrows == ((At("register") /\ ~Negotiated) \/ At("report")) /\ Escape

\* decode_mirror_message (DecodeNeverThrows is violated), on a line of the connection;
\* the prefix was decoded before.
DecodeThrows ==
  /\ \/ At("negotiate") \/ At("reply")
     \/ (At("validation") \/ At("step")) /\ first = "none"
  /\ Escape

---------------------------------------------------------------------------

\* The caller calls no more.
Terminated == At("idle") /\ call.calls = MaxFlows /\ UNCHANGED flowVars

FlowNext ==
  \/ Terminated
  \/ \E flow \in Flows \ {"negotiated"} : Call(flow, FALSE, FALSE)
  \/ \E prefer, fallback \in BOOLEAN : Call("negotiated", prefer, fallback)
  \/ CallRefused
  \/ \E tag \in Registrations, ok \in BOOLEAN : Register(tag, ok)
  \/ \E ok \in BOOLEAN : Factory(ok) \/ Admit(ok) \/ Dispose(ok) \/ Report(ok)
  \/ \E tag \in MirrorMessages :
       \/ AwaitValidation(tag) \/ AwaitStep(tag) \/ Reply(tag)
       \/ \E r \in InterfaceReplies : Negotiate(tag, r)
  \/ \E s \in States : Compute(s)
  \/ NegotiateFails \/ ReceiveFails \/ ComputeThrows \/ ReplyFails
  \/ EncodeThrows \/ DecodeThrows

FlowSpec == FlowInit /\ [][FlowNext]_flowVars

---------------------------------------------------------------------------
(* Properties *)

\* Where in the traffic someone sent one of these messages.
Said(who, tags) == {i \in 1 .. Len(wire) : wire[i].from = who /\ wire[i].tag \in tags}
Asked == Said("mirror", {"initial_state", "next_step"})
Reports == Said("client", {"report_state"})

\* A flow that used the connection leaves it closed, except in one case: an exception
\* of the codec passed it, which leaves the connection open (against client.cpp:32 and
\* design.md:666), and can only do so while the flow holds no binding.
ClosedOnReturn ==
  At("idle") /\ wire # <<>> =>
    (open <=> call.result = "escaped") /\ (open => binding.state = "none")

\* The computer continues from the state the mirror saw last: next_step is never
\* computed from a state that was not reported, nor before an initial state.
ContinuesFromReported ==
  At("compute") =>
    IF app.asked = "initial_state" THEN Previous = NoState
    ELSE \E i \in Reports : Previous = wire[i].val /\ \A j \in Reports : j <= i

\* Success means that the mirror accepted the specification, asked at least once,
\* got an answer to everything it asked and then said that all was done.
SuccessIsEarned ==
  At("idle") /\ call.result = "ok" /\ call.flow \notin OneShots =>
    /\ wire[2].tag = "spec_valid" /\ wire[3].tag = "initial_state"
    /\ wire[Len(wire)].tag = "all_steps_done"
    /\ Cardinality(Asked) = Cardinality(Reports)
    /\ Said("mirror", Errors \cup {"step_mismatch"}) = {}

\* A binding computes only what the mirror authorised: the compiled adapter on
\* its own digest, the fallback when the caller allowed it and the mirror had
\* nothing to compare.
AdapterAuthorized ==
  Negotiated /\ call.pc \in {"compute", "report"} =>
    /\ wire[2].tag = "spec_valid" /\ binding.state = "live"
    /\ binding.origin = "compiled" => wire[2].reply = "same"
    /\ binding.origin = "fallback" =>
         call.prefer /\ call.fallback /\ wire[2].reply \in {"absent", "unsupported", "unavailable"}

\* A binding that was created is disposed exactly once on every path, and is not
\* used after that.
DisposedOnce ==
  /\ At("idle") => binding.disposals = IF binding.state = "none" THEN 0 ELSE 1
  /\ call.pc \in {"validation", "step", "compute", "report"} =>
       binding.disposals = 0 /\ (Negotiated => binding.state = "live")

\* The flow implements the conversation that the connection's traffic shows.
Abandoned == At("idle") /\ call.result = "escaped"
Stage ==
  IF ~open THEN "over"
  ELSE IF wire = <<>> \/ Abandoned THEN "silent"
  ELSE IF Asked # {} THEN "stepping"
  ELSE IF Said("mirror", {"spec_valid"}) # {} THEN "agreed" ELSE "asked"
Owed == IF wire = <<>> \/ ~open \/ Abandoned THEN 0 ELSE Cardinality(Asked) - Cardinality(Reports)
C == INSTANCE Conversation WITH stage <- Stage, owed <- Owed
ConversationKept == C!Spec

\* Whatever path a flow takes, it computes with nothing it was not granted and gives
\* back what it had, once (run_client_negotiated, dispose_binding).
FlowInv == FlowTypeOK /\ ClosedOnReturn /\ AdapterAuthorized /\ DisposedOnce
=============================================================================
