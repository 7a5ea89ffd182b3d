--------------------------- MODULE RegistryLookup ---------------------------
(***************************************************************************)
(* Finding and reaching a mirror: http_get of src/detail/http.cpp,         *)
(* discover_mirrors and connect_from_registry of src/registry.cpp, and the *)
(* phases of connect_tls of src/detail/tls.cpp.  A registry's answer is    *)
(* what it sends until it stalls or hangs up; a read that then waits fails *)
(* by its own timeout or by the end of the stream, with the same effect.   *)
(***************************************************************************)
EXTENDS Naturals, Sequences

CONSTANTS
  Hosts,      \* host names
  Blank,      \* an Address that is missing, no string, or blank
  Pins,       \* certificate fingerprints
  NoPin,      \* no cert-sha256, no pin option
  EmptyPin,   \* a pin that is the empty string
  BadPin,     \* a pin that is not a fingerprint
  Ports,      \* port numbers, in range and out of it
  NoPort,     \* a Port that is missing or no integer
  Documents,  \* the bodies of answers, as JSON
  NoArray,    \* a body that is not a JSON array, or not JSON
  Headers,    \* sequences of header lines
  Worlds      \* the mirrors and registries considered

\* Content-Length against the body: equal, smaller, larger, not a number, and
\* more than a string can hold.
Lengths == {"exact", "short", "long", "malformed", "huge"}
HeaderType ==
  [name : {"content-length"}, value : Lengths]
    \cup [name : {"transfer-encoding"}, value : {"chunked", "identity"}]
EntryType ==
  [service : BOOLEAN, host : Hosts \cup {Blank}, port : Ports \cup {NoPort},
   pin : Pins \cup {NoPin, EmptyPin, BadPin}]
WorldType ==
  [up : SUBSET Hosts, trusted : SUBSET Hosts, cert : [Hosts -> Pins],
   registry : BOOLEAN, status : {"200", "other", "malformed"}, headers : Headers,
   body : Documents, served : Nat]     \* lines and body sent before the stall

ASSUME LookupAssumption ==
  /\ Blank \notin Hosts /\ NoPort \notin Ports /\ Ports \subseteq Nat
  /\ Pins \cap {NoPin, EmptyPin, BadPin} = {} /\ NoPin # EmptyPin
  /\ NoPin # BadPin /\ EmptyPin # BadPin
  /\ \A h \in Headers : h \in Seq(HeaderType)
  /\ \A d \in Documents : d = NoArray \/ d \in Seq(EntryType)
  /\ Worlds \subseteq WorldType

VARIABLES
  net,      \* the world the client runs in
  lookup    \* the locals of connect_from_registry and of the calls it makes

lookupVars == <<net, lookup>>

\* A candidate: MirrorServiceInfo; its id stands for the entry's place in the answer.
Candidate == [id : Nat, host : Hosts, port : Ports, pin : Pins \cup {NoPin, EmptyPin, BadPin}]
LookupPcs ==
  {"idle", "dial_registry", "status", "headers", "body", "entries", "next", "options", "dial",
   "handshake", "pin", "connected", "failed", "threw"}
LookupType ==
  [pc : LookupPcs, direct : BOOLEAN, asked : BOOLEAN, sound : BOOLEAN,
   override : Pins \cup {NoPin, EmptyPin, BadPin},
   read : Nat, candidates : Seq(Candidate), at : Nat, pin : Pins \cup {NoPin, EmptyPin, BadPin},
   open : SUBSET Hosts, contacted : SUBSET Hosts, diagnostics : Seq(Hosts)]
LookupTypeOK == net \in Worlds /\ lookup \in LookupType

NoLookup ==
  [pc |-> "idle", direct |-> FALSE, asked |-> FALSE, sound |-> FALSE, override |-> NoPin, read |-> 0,
   candidates |-> <<>>, at |-> 0, pin |-> NoPin, open |-> {}, contacted |-> {},
   diagnostics |-> <<>>]
LookupInit == net \in Worlds /\ lookup = NoLookup

---------------------------------------------------------------------------
\* parse_service_entry: the entries that are kept, and what is kept of one.
EntryKept(e) ==
  /\ e.service /\ e.host # Blank
  /\ e.port # NoPort /\ 1 <= e.port /\ e.port <= 65535
  /\ e.pin \in Pins \cup {NoPin}
Info(k) ==
  [id |-> k, host |-> net.body[k].host, port |-> net.body[k].port, pin |-> net.body[k].pin]

\* header_value: the first header of that name, whatever follows it.
HeaderValue(name, absent) ==
  LET found == {i \in 1 .. Len(net.headers) : net.headers[i].name = name}
  IN IF found = {} THEN absent
     ELSE net.headers[CHOOSE i \in found : \A j \in found : i <= j].value

\* discover_mirrors answered with these candidates; no candidate is an error of
\* connect_from_registry.
Discovered(found) ==
  lookup' = [lookup EXCEPT !.candidates = found, !.at = 0, !.read = 0,
                           !.pc = IF found = <<>> THEN "failed" ELSE "next"]

\* connect_from_registry(url, tls, override).  sound: the key file has mode 0600
\* and the key, certificate and CA load; usable: parse_url accepts the URL;
\* built: the library has TLS.
ConnectFromRegistry(usable, built, sound, override) ==
  /\ lookup.pc = "idle"
  /\ lookup' = [lookup EXCEPT !.sound = sound, !.override = override, !.asked = usable /\ built,
                              !.pc = IF usable /\ built THEN "dial_registry" ELSE "failed"]
  /\ UNCHANGED net

DialRegistry ==
  /\ lookup.pc = "dial_registry"
  /\ IF net.registry THEN lookup' = [lookup EXCEPT !.pc = "status"] ELSE Discovered(<<>>)
  /\ UNCHANGED net

\* A line that the registry does not send is a failed read_line.
NextLineComes == lookup.read < net.served
ReadStatus ==
  /\ lookup.pc = "status"
  /\ IF NextLineComes /\ net.status = "200"
       THEN lookup' = [lookup EXCEPT !.pc = "headers", !.read = 1]
       ELSE Discovered(<<>>)
  /\ UNCHANGED net

WaitsOn ==   \* mutant: no timeout while the header lines are read
  /\ lookup.pc = "headers" /\ NextLineComes
  /\ lookup' = [lookup EXCEPT !.read = @ + 1,
                              !.pc = IF lookup.read > Len(net.headers) THEN "body" ELSE "headers"]
  /\ UNCHANGED net
\* One header line, or the blank line that ends them.
ReadHeader ==
  /\ lookup.pc = "headers"
  /\ IF NextLineComes
       THEN lookup' = [lookup EXCEPT !.read = @ + 1,
                                     !.pc = IF lookup.read > Len(net.headers) THEN "body" ELSE "headers"]
       ELSE Discovered(<<>>)
  /\ UNCHANGED net

\* The body: a chunked answer and a malformed length are refused; a body cut short
\* is not JSON; a length beyond what a string can hold makes reserve throw, which
\* nothing on the way to the caller catches.  Without the header read_until_eof
\* reads all of it.
ReadBody ==
  /\ lookup.pc = "body"
  /\ LET length == HeaderValue("content-length", "exact")
         chunked == HeaderValue("transfer-encoding", "identity") = "chunked"
     IN IF ~chunked /\ length = "huge" THEN lookup' = [lookup EXCEPT !.pc = "threw"]
        ELSE IF chunked \/ length # "exact" \/ ~NextLineComes \/ net.body = NoArray
             THEN Discovered(<<>>)
             ELSE lookup' = [lookup EXCEPT !.pc = "entries", !.read = 0]
  /\ UNCHANGED net

\* One turn of the loop of parse_registry_entries, and its end.
ParseEntry ==
  /\ lookup.pc = "entries" /\ lookup.read < Len(net.body)
  /\ LET k == lookup.read + 1
     IN lookup' = [lookup EXCEPT !.read = k,
                                 !.candidates = IF EntryKept(net.body[k]) THEN Append(@, Info(k)) ELSE @]
  /\ UNCHANGED net
EntriesParsed ==
  /\ lookup.pc = "entries" /\ lookup.read = Len(net.body)
  /\ Discovered(lookup.candidates)
  /\ UNCHANGED net

---------------------------------------------------------------------------
AdvertisedPin(c) == c.pin   \* mutant: the override is forgotten
\* The pin a candidate is tried with.  In connect_from_registry the override wins
\* over the advertised pin and an empty string is no pin; connect_tls called
\* directly uses its options as they are.
PinInEffect(c) ==
  IF lookup.direct THEN c.pin
  ELSE LET pin == IF lookup.override # NoPin THEN lookup.override ELSE c.pin
       IN IF pin = EmptyPin THEN NoPin ELSE pin
Current == lookup.candidates[lookup.at]

\* connect_tls(host, port, tls) with no registry.
ConnectTls(host, port, sound, pin) ==
  /\ lookup.pc = "idle"
  /\ lookup' = [lookup EXCEPT !.pc = "next", !.direct = TRUE, !.sound = sound,
                              !.candidates = <<[id |-> 0, host |-> host, port |-> port, pin |-> pin]>>]
  /\ UNCHANGED net

\* The loop over the candidates, and its end.
TryNext ==
  /\ lookup.pc = "next" /\ lookup.at < Len(lookup.candidates)
  /\ lookup' = [lookup EXCEPT !.pc = "options", !.at = @ + 1,
                              !.pin = PinInEffect(lookup.candidates[lookup.at + 1])]
  /\ UNCHANGED net
AllFailed ==
  /\ lookup.pc = "next" /\ lookup.at = Len(lookup.candidates)
  /\ lookup' = [lookup EXCEPT !.pc = "failed"]
  /\ UNCHANGED net

\* A failed attempt destroys its stream, which closes the socket, and is noted.
Fails == [lookup EXCEPT !.pc = "next", !.open = {}, !.diagnostics = Append(@, Current.host)]

\* SslStream::connect before the network: key mode, pin, context.
CheckTlsOptions ==
  /\ lookup.pc = "options"
  /\ lookup' = IF lookup.sound /\ lookup.pin \notin {BadPin, EmptyPin}
                 THEN [lookup EXCEPT !.pc = "dial"] ELSE Fails
  /\ UNCHANGED net
DialMirror ==
  /\ lookup.pc = "dial"
  /\ LET dialled == IF Current.host \in net.up /\ Current.port # 0
                      THEN [lookup EXCEPT !.pc = "handshake", !.open = {Current.host}] ELSE Fails
     IN lookup' = [dialled EXCEPT !.contacted = @ \cup {Current.host}]
  /\ UNCHANGED net
\* The deadline passes, the peer refuses, or its certificate does not verify.
TlsHandshake ==
  /\ lookup.pc = "handshake"
  /\ lookup' = IF Current.host \in net.trusted THEN [lookup EXCEPT !.pc = "pin"] ELSE Fails
  /\ UNCHANGED net
CheckPin ==
  /\ lookup.pc = "pin"
  /\ lookup' = IF lookup.pin # NoPin /\ net.cert[Current.host] # lookup.pin
                 THEN Fails ELSE [lookup EXCEPT !.pc = "connected"]
  /\ UNCHANGED net

LookupStep ==
  \/ DialRegistry \/ ReadStatus \/ ReadHeader \/ ReadBody \/ ParseEntry \/ EntriesParsed
  \/ TryNext \/ AllFailed \/ CheckTlsOptions \/ DialMirror \/ TlsHandshake \/ CheckPin

\* A program that calls connect_from_registry itself.
LookupNext ==
  \/ \E usable, built, sound \in BOOLEAN, override \in Pins \cup {NoPin, EmptyPin, BadPin} :
       ConnectFromRegistry(usable, built, sound, override)
  \/ LookupStep
LookupSpec == LookupInit /\ [][LookupNext]_lookupVars

---------------------------------------------------------------------------
\* The whole answer arrived and is an array this reader understands.
Understood ==
  /\ net.registry /\ net.status = "200" /\ net.body # NoArray
  /\ net.served >= Len(net.headers) + 3
  /\ HeaderValue("content-length", "exact") = "exact"
  /\ HeaderValue("transfer-encoding", "identity") # "chunked"

\* An entry that can be connected to: advertised properly, its mirror reachable
\* and trusted, and no pin, the caller's or else the advertised one, against it.
Workable(e) ==
  /\ e.service /\ e.host \in net.up \cap net.trusted
  /\ e.port # NoPort /\ 1 <= e.port /\ e.port <= 65535
  /\ e.pin \notin {EmptyPin, BadPin} /\ lookup.sound
  /\ CASE lookup.override = NoPin -> e.pin \in {NoPin, net.cert[e.host]}
       [] lookup.override = EmptyPin -> TRUE
       [] lookup.override \notin {NoPin, EmptyPin} -> lookup.override = net.cert[e.host]

\* connect_from_registry connects to the first entry of the answer that can be
\* connected to, having contacted no mirror listed after it and none of the entries
\* it must skip, and leaves one connection; it fails exactly when the answer has no
\* such entry or did not arrive whole, with a diagnostic for each candidate and
\* nothing left open (discover_mirrors "fail closed", parse_service_entry "no
\* unpinned fallback").
RegistryExact ==
  ~lookup.direct =>
    /\ lookup.pc = "connected" =>
         /\ Understood
         /\ \E k \in 1 .. Len(net.body) :
              /\ Workable(net.body[k]) /\ \A j \in 1 .. k - 1 : ~Workable(net.body[j])
              /\ lookup.open = {net.body[k].host}
              /\ lookup.contacted \subseteq {net.body[j].host : j \in 1 .. k}
    /\ lookup.pc = "failed" =>
         /\ lookup.open = {}
         /\ lookup.asked /\ Understood => \A k \in 1 .. Len(net.body) : ~Workable(net.body[k])
    /\ lookup.pc \in {"connected", "failed"} =>
         Len(lookup.diagnostics) = lookup.at - (IF lookup.pc = "connected" THEN 1 ELSE 0)
=============================================================================
