------------------------- MODULE MCValidateCommand -------------------------
(***************************************************************************)
(* Instance of ValidateCommand: a root that imports two modules which      *)
(* import each other, in two directories; two mirrors; the registry's      *)
(* answers that http_get and parse_service_entry tell apart; command lines *)
(* for each way of connecting and each refusal.                            *)
(***************************************************************************)
EXTENDS ValidateCommand, TLC

Dir == {"here", "lib"}
Name == {"Root", "A", "B", "Naturals"}
File == {"root", "a", "b", "other"}

\* Root imports A and B, A and B import each other, Root also a builtin.
Import == [f \in File |-> CASE f = "root" -> <<"Naturals", "A", "B">> [] f = "a" -> <<"B">>
                            [] f = "b" -> <<"A", "B">> [] f = "other" -> <<>>]
Home == [f \in File |-> IF f = "root" THEN "here" ELSE "lib"]
Placed(found) == [p \in Dir \X Name |-> IF p \in DOMAIN found THEN found[p] ELSE NoFile]
Tree == <<"here", "Root">> :> "root" @@ <<"lib", "A">> :> "a" @@ <<"lib", "B">> :> "b"
Usual == [at |-> Placed(Tree), home |-> Home, imports |-> Import, readable |-> File]
MCDisks ==
  LET plus(more) == [Usual EXCEPT !.at = Placed(more @@ Tree)]
  IN {Usual,
      plus(<<"here", "A">> :> "a"),                              \* a link to the same file
      plus(<<"here", "B">> :> "other"),                          \* ambiguous
      plus(<<"lib", "Naturals">> :> "other"),                    \* a builtin is not looked for
      [Usual EXCEPT !.at = Placed(<<"lib", "A">> :> NoFile @@ Tree)],
      [Usual EXCEPT !.readable = File \ {"b"}],
      [Usual EXCEPT !.imports["root"] = <<"Naturals">>]}

Entry(h, port, pin) == [service |-> TRUE, host |-> h, port |-> port, pin |-> pin]
Good == Entry("h2", 65535, NoPin)
MCDocuments ==
  {NoArray, <<>>,
   <<Entry("h1", 1, "p1"), Good>>,
   <<Entry("h1", 1, BadPin), Entry("h1", 0, NoPin), Entry(Blank, 1, NoPin), Good>>,
   <<Entry("h1", NoPort, NoPin), [Good EXCEPT !.service = FALSE], Entry("h1", 65536, "p1"),
     Entry("h2", 1, "p2"), Entry("h1", 1, NoPin)>>}
Length(v) == [name |-> "content-length", value |-> v]
Encoding(v) == [name |-> "transfer-encoding", value |-> v]
MCHeaders ==
  {<<>>, <<Length("exact"), Length("malformed")>>, <<Encoding("identity"), Length("short")>>,
   <<Encoding("chunked"), Length("exact")>>, <<Length("huge")>>}

\* The mirrors vary under one good answer; the answers vary under good mirrors.
World(up, trusted, cert, status, headers, body, served) ==
  [up |-> up, trusted |-> trusted, cert |-> cert, registry |-> TRUE, status |-> status,
   headers |-> headers, body |-> body, served |-> served]
Own == [h \in Hosts |-> IF h = "h1" THEN "p1" ELSE "p2"]
Ordinary == World(Hosts, Hosts, Own, "200", <<>>, <<Entry("h1", 1, "p1"), Good>>, 9)
MCWorlds ==
  {[Ordinary EXCEPT !.up = u, !.trusted = t, !.cert = c, !.body = d] :
     u \in SUBSET Hosts, t \in {Hosts, {"h2"}}, c \in {Own, [Own EXCEPT !["h1"] = "p2"]},
     d \in MCDocuments}
    \cup {[Ordinary EXCEPT !.headers = h, !.served = n] : h \in MCHeaders, n \in {2, 9}}
    \cup {[Ordinary EXCEPT !.status = st, !.registry = r, !.served = n] :
            st \in {"200", "other", "malformed"}, r \in BOOLEAN, n \in 0 .. 3}

Tcp == <<"--host", "h1", "--port", "7">>
Tls(cert) == <<"--tls", "--cert", cert, "--key", "key", "--ca", "ca">>
Registry == <<"--registry", "http://r">>
TheSpec == <<"--spec", "here/Root.tla", "--dep", "lib/A.tla">>
MCCommandLines ==
  {Tcp \o TheSpec, Tcp \o Tls("cert") \o TheSpec, Tcp \o Tls("cert") \o TheSpec \o <<"--pin", "p1">>,
   Registry \o Tls("cert") \o TheSpec, Registry \o Tls("cert") \o TheSpec \o <<"--pin", "p2">>,
   Registry \o Tls("open") \o TheSpec, Registry \o <<"--port", "7">> \o Tls("cert") \o TheSpec,
   Tcp \o TheSpec \o <<"--inv", "--tls", "--bound", "7">>,
   Tcp \o Tls("cert") \o TheSpec \o <<"--pin", "">>,
   Tcp \o <<"--tls">> \o TheSpec, Registry \o TheSpec, Tcp \o TheSpec \o <<"--pin", "p1">>,
   <<"--host", "h2">> \o TheSpec, <<"--registry", "r">> \o Tls("cert") \o TheSpec,
   Tcp \o <<"--spec", "Root.tla", "--dep", "A.tla">>, Tcp \o <<"--spec", "">>,
   Tcp \o Registry \o TheSpec, TheSpec, Tcp \o <<"--port", "0">>, Tcp \o <<"--bound", "-7">>,
   Tcp \o TheSpec \o <<"--what">>, Tcp \o TheSpec \o <<"--inv">>, Tcp \o <<"--inv", "--help">>}
MCNumbers == "7" :> 7 @@ "0" :> 0 @@ "-7" :> -7
Path(dir, name, parent) == [dir |-> dir, name |-> name, parent |-> parent]
MCPaths ==
  "here/Root.tla" :> Path("here", "Root", "here") @@ "Root.tla" :> Path("here", "Root", NoDir)
    @@ "lib/A.tla" :> Path("lib", "A", "lib") @@ "A.tla" :> Path("here", "A", NoDir)

\* The walk is over before the network is touched, so that the file systems and the
\* networks need not vary together; a build without TLS goes to no registry.
MCCommandInit == CommandInit /\ (net = Ordinary \/ (disk = Usual /\ build))
=============================================================================
