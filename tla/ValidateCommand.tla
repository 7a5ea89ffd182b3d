-------------------------- MODULE ValidateCommand --------------------------
(***************************************************************************)
(* mirrorcpp-validate (cli/validate.cpp): the command line is parsed, the  *)
(* spec is resolved (SpecClosure), a mirror is reached directly or through *)
(* a registry (RegistryLookup), run_client_validate of src/client.cpp asks *)
(* it once, and the answer becomes the exit code.  Arguments are strings.  *)
(***************************************************************************)
EXTENDS Integers, SpecClosure, RegistryLookup

CONSTANTS
  CommandLines,   \* sequences of arguments
  TlsBuilds,      \* MIRRORCPP_WITH_TLS: the builds considered
  Urls,           \* the URLs parse_url accepts
  Credentials,    \* the credential files that load and have the right mode
  Numbers,        \* the arguments that are numbers, and their values
  Paths,          \* the paths: directory, module name, and parent_path
  NoDir           \* the parent_path of a bare file name

Verdicts ==
  {"valid", "invalid", "register_error", "protocol_error", "unexpected", "undecodable", "throws", "lost"}

ASSUME CommandAssumption ==
  \A p \in DOMAIN Paths : Paths[p] \in [dir : Dirs, name : Names, parent : Dirs \cup {NoDir}]

VARIABLES
  build,     \* whether this build has TLS
  cmd,       \* main: where it is, argv, its loops' index, Options, search directories,
             \* exit code, peer
  mirror     \* the questions put to the mirror, and what it said

commandVars == <<build, cmd, mirror, disk, walk, net, lookup>>

\* Options; an empty string is also the default.
NoOptions ==
  [host |-> "", has_host |-> FALSE, port |-> 0, registry |-> "", has_registry |-> FALSE,
   tls |-> FALSE, cert |-> "", key |-> "", ca |-> "", pin |-> NoPin, spec |-> "", deps |-> <<>>]
Running == 3      \* no exit code yet
Aborted == 134    \* std::terminate

Fresh(argv) ==
  [pc |-> "main", argv |-> argv, i |-> 1, o |-> NoOptions, search |-> <<>>, exit |-> Running,
   peer |-> Blank]
NotAsked == [asked |-> 0, said |-> "nothing"]
CommandInit ==
  /\ ClosureInit /\ LookupInit
  /\ build \in TlsBuilds
  /\ \E argv \in CommandLines : cmd = Fresh(argv)
  /\ mirror = NotAsked

Exit(code) == cmd' = [cmd EXCEPT !.pc = "done", !.exit = code, !.peer = Blank]
Goto(pc) == cmd' = [cmd EXCEPT !.pc = pc]

\* --help is looked for among all the arguments before any of them is parsed.
Help == \E i \in 1 .. Len(cmd.argv) : cmd.argv[i] \in {"--help", "-h"}
Main ==
  /\ cmd.pc = "main"
  /\ IF Help THEN Exit(0) ELSE Goto("parse")
  /\ UNCHANGED <<build, mirror, disk, walk, net, lookup>>

---------------------------------------------------------------------------
\* parse_args.
Unused == {"--bound", "--inv", "--init", "--next", "--cinit"}   \* only sent to the mirror
ValueFlags == Unused \cup {"--host", "--port", "--registry", "--spec", "--dep", "--cert", "--key", "--ca", "--pin"}

InRange(v, lo, hi) == v \in DOMAIN Numbers /\ Numbers[v] >= lo /\ Numbers[v] <= hi
ValueAccepted(flag, v) ==
  CASE flag = "--port" -> InRange(v, 1, 65535)
    [] flag = "--bound" -> v \in DOMAIN Numbers /\ Numbers[v] >= 0
    [] flag \notin {"--port", "--bound"} -> TRUE
PinOf(v) == IF v \in Pins \cup {EmptyPin} THEN v ELSE BadPin
WithValue(flag, v) ==
  LET o == cmd.o
  IN CASE flag = "--host" -> [o EXCEPT !.host = v, !.has_host = TRUE]
       [] flag = "--port" -> [o EXCEPT !.port = Numbers[v]]
       [] flag = "--registry" -> [o EXCEPT !.registry = v, !.has_registry = TRUE]
       [] flag = "--spec" -> [o EXCEPT !.spec = v]
       [] flag = "--dep" -> [o EXCEPT !.deps = Append(@, v)]
       [] flag = "--cert" -> [o EXCEPT !.cert = v]
       [] flag = "--key" -> [o EXCEPT !.key = v]
       [] flag = "--ca" -> [o EXCEPT !.ca = v]
       [] flag = "--pin" -> [o EXCEPT !.pin = PinOf(v)]
       [] flag \in Unused -> o

\* One turn of the loop.  A flag takes the next argument as its value, whatever
\* that argument looks like.
ParseArgument ==
  /\ cmd.pc = "parse" /\ cmd.i <= Len(cmd.argv)
  /\ LET a == cmd.argv[cmd.i]
     IN \/ a = "--tls" /\ cmd' = [cmd EXCEPT !.o.tls = TRUE, !.i = @ + 1]
        \/ /\ a \in ValueFlags /\ cmd.i < Len(cmd.argv)
           /\ LET v == cmd.argv[cmd.i + 1]
              IN IF ValueAccepted(a, v)
                   THEN cmd' = [cmd EXCEPT !.o = WithValue(a, v), !.i = @ + 2]
                   ELSE Exit(2)
        \/ a \in ValueFlags /\ cmd.i = Len(cmd.argv) /\ Exit(2)
        \/ a \notin ValueFlags \cup {"--tls"} /\ Exit(2)
  /\ UNCHANGED <<build, mirror, disk, walk, net, lookup>>

\* The checks after the loop.
ArgumentsAccepted ==
  /\ cmd.o.spec # "" /\ cmd.o.has_registry # cmd.o.has_host
  /\ cmd.o.pin # NoPin => cmd.o.tls
CheckArguments ==
  /\ cmd.pc = "parse" /\ cmd.i > Len(cmd.argv)
  /\ IF ArgumentsAccepted THEN cmd' = [cmd EXCEPT !.pc = "resolve", !.i = 1] ELSE Exit(2)
  /\ UNCHANGED <<build, mirror, disk, walk, net, lookup>>

---------------------------------------------------------------------------
\* The spec.  A --dep without a directory adds none to the search.
FileAt(path) == IF path \in DOMAIN Paths THEN disk.at[<<Paths[path].dir, Paths[path].name>>] ELSE NoFile
ParentOf(path) == IF path \in DOMAIN Paths THEN Paths[path].parent ELSE NoDir
AddSearchDir ==
  /\ cmd.pc = "resolve" /\ cmd.i <= Len(cmd.o.deps)
  /\ LET parent == ParentOf(cmd.o.deps[cmd.i])
     IN cmd' = [cmd EXCEPT !.i = @ + 1, !.search = IF parent = NoDir THEN @ ELSE Append(@, parent)]
  /\ UNCHANGED <<build, mirror, disk, walk, net, lookup>>
ResolveSpec ==
  /\ cmd.pc = "resolve" /\ cmd.i > Len(cmd.o.deps)
  /\ Start(FileAt(cmd.o.spec), cmd.search) /\ Goto("resolving")
  /\ UNCHANGED <<build, mirror, net, lookup>>
WalkOn == cmd.pc = "resolving" /\ WalkStep /\ UNCHANGED <<build, cmd, mirror, net, lookup>>
SpecResolved ==
  /\ cmd.pc = "resolving" /\ walk.pc \in {"ok", "error"}
  /\ IF walk.pc = "ok" THEN Goto("connect") ELSE Exit(2)
  /\ UNCHANGED <<build, mirror, disk, walk, net, lookup>>

---------------------------------------------------------------------------
\* connect.  make_tls_options puts the pin in the options; connect_from_registry is
\* called with no override.
MaterialGiven == cmd.o.cert # "" /\ cmd.o.key # "" /\ cmd.o.ca # ""
MaterialSound == {cmd.o.cert, cmd.o.key, cmd.o.ca} \subseteq Credentials
ConnectRefused ==
  /\ cmd.pc = "connect"
  /\ \/ cmd.o.has_registry /\ (~build \/ ~cmd.o.tls \/ ~MaterialGiven)
     \/ ~cmd.o.has_registry /\ cmd.o.tls /\ (~build \/ ~MaterialGiven)
  /\ Exit(2)
  /\ UNCHANGED <<build, mirror, disk, walk, net, lookup>>
ConnectSecurely ==
  /\ cmd.pc = "connect" /\ build /\ cmd.o.tls /\ MaterialGiven
  /\ \/ /\ cmd.o.has_registry
        /\ ConnectFromRegistry(cmd.o.registry \in Urls, build, MaterialSound, NoPin)
     \/ /\ ~cmd.o.has_registry
        /\ ConnectTls(cmd.o.host, cmd.o.port, MaterialSound, cmd.o.pin)
  /\ Goto("connecting")
  /\ UNCHANGED <<build, mirror, disk, walk>>
ConnectTcp ==
  /\ cmd.pc = "connect" /\ ~cmd.o.has_registry /\ ~cmd.o.tls
  /\ IF cmd.o.host \in net.up /\ cmd.o.port # 0
       THEN cmd' = [cmd EXCEPT !.pc = "send", !.peer = cmd.o.host] ELSE Exit(2)
  /\ UNCHANGED <<build, mirror, disk, walk, net, lookup>>
LookUpOn == cmd.pc = "connecting" /\ LookupStep /\ UNCHANGED <<build, cmd, mirror, disk, walk>>
Connected ==
  /\ cmd.pc = "connecting" /\ lookup.pc \in {"connected", "failed", "threw"}
  /\ CASE lookup.pc = "connected" -> cmd' = [cmd EXCEPT !.pc = "send", !.peer = Current.host]
       [] lookup.pc = "failed" -> Exit(2)
       [] lookup.pc = "threw" -> Exit(Aborted)
  /\ UNCHANGED <<build, mirror, disk, walk, net, lookup>>

---------------------------------------------------------------------------
\* run_client_validate: one message out, one line in.  The transport is closed on
\* every way out but an exception, which ends the process: encode_client_message
\* throws on a spec that is not UTF-8.
SendRegistration ==
  /\ cmd.pc = "send"
  /\ \/ Goto("await") /\ mirror' = [mirror EXCEPT !.asked = @ + 1]
     \/ (\E code \in {2, Aborted} : Exit(code)) /\ mirror' = [mirror EXCEPT !.said = "lost"]
  /\ UNCHANGED <<build, disk, walk, net, lookup>>
TwoWay(said) == IF said = "valid" THEN 0 ELSE 1   \* mutant: no third outcome
\* A line that makes decode_mirror_message throw (WireDocuments) ends the process.
ExitCode(said) ==
  CASE said = "valid" -> 0 [] said = "invalid" -> 1 [] said = "throws" -> Aborted
    [] said \notin {"valid", "invalid", "throws"} -> 2
Answer ==
  /\ cmd.pc = "await"
  /\ \E said \in Verdicts : mirror' = [mirror EXCEPT !.said = said] /\ Exit(ExitCode(said))
  /\ UNCHANGED <<build, disk, walk, net, lookup>>

CommandNext ==
  \/ Main \/ ParseArgument \/ CheckArguments \/ AddSearchDir \/ ResolveSpec \/ WalkOn \/ SpecResolved
  \/ ConnectRefused \/ ConnectSecurely \/ ConnectTcp \/ LookUpOn \/ Connected
  \/ SendRegistration \/ Answer
CommandSpec == CommandInit /\ [][CommandNext]_commandVars

\* Every step is the client's own; for Answer the mirror is assumed to answer or to
\* hang up, since the client waits for it without a limit.
FairCommandSpec == CommandSpec /\ WF_commandVars(CommandNext)

---------------------------------------------------------------------------
\* The exit code is what the mirror said of the whole closure of the spec: 0 and 1
\* are given only for its verdict on one registration, and its verdict is never
\* turned into 2.  No mirror is contacted before the spec is resolved, no connection
\* outlives the command, and with --tls only a mirror whose certificate verifies is
\* asked, never one over plain TCP (main, connect, run_client_validate; the table of
\* exit codes at validate.cpp:8-12).
CommandTruthful ==
  /\ cmd.pc = "done" /\ ~Help =>
       LET told == mirror.asked = 1 /\ mirror.said \in {"valid", "invalid"}
       IN /\ cmd.exit \in {0, 1} <=> told
          /\ told => cmd.exit = (IF mirror.said = "valid" THEN 0 ELSE 1) /\ walk.pc = "ok"
  /\ cmd.pc # "main" /\ (lookup.contacted # {} \/ cmd.peer # Blank \/ mirror.asked > 0) =>
       walk.pc = "ok" /\ ClosureExact
  /\ mirror.asked <= 1 /\ (cmd.pc = "done" => cmd.peer = Blank)
  /\ cmd.o.tls /\ mirror.asked > 0 => lookup.open # {} /\ lookup.open \subseteq net.trusted

\* A command that has begun ends, whatever the arguments, the files, the registry and the mirrors
\* are: a stalled registry, a refused connection and an unverified certificate end
\* their step, and an import cycle ends the walk (main).
CommandEnds == cmd.pc # "main" ~> cmd.pc = "done"

\* A pin given on the command line is enforced (README.md:252 "explicit pin wins over
\* registry-advertised pins"; usage at validate.cpp:53 offers --pin with --registry).
PinHonoured ==
  mirror.asked > 0 /\ cmd.peer # Blank /\ cmd.o.pin # NoPin => net.cert[cmd.peer] = cmd.o.pin
=============================================================================
