---------------------------- MODULE NginxConfig -----------------------------
(***************************************************************************)
(* The nginx configuration of a spec, line by line, as GenerateNginxConfig *)
(* (pkg/ctrl/jaeger_nginx_proxy.go, lines 33-78) writes it.                *)
(*                                                                         *)
(* ValidateNginxConfig (81-140) counts braces, so a text a user puts into  *)
(* the configuration is what it contributes to that count.  Texts have no  *)
(* line break.  Lines with neither a brace nor a text are left out; the    *)
(* other checks of the validator cannot fail on a generated configuration: *)
(* each line that may say "server", "location" or "upstream" has a brace   *)
(* or a semicolon of its own (105-115), and "server {" and "listen" are    *)
(* always there (124-130).                                                 *)
(***************************************************************************)
EXTENDS Integers, Sequences

CONSTANTS
  Texts,   \* names, hosts, paths, images and quantities users write
  Empty,   \* the text ""
  Opens,   \* how many opening braces a text has
  Closes   \* how many closing ones

ASSUME TextsAssumption ==
  /\ Empty \in Texts
  /\ Opens \in [Texts -> Nat] /\ Closes \in [Texts -> Nat]
  /\ Opens[Empty] = 0 /\ Closes[Empty] = 0

Port == [name : Texts, port : Int, path : Texts]

Line(directive, text) == [directive |-> directive, text |-> text]

BlockDirectives == {"upstream", "server block", "location"}

LineOpens(line) ==
  Opens[line.text] + IF line.directive \in BlockDirectives THEN 1 ELSE 0
LineCloses(line) ==
  Closes[line.text] + IF line.directive = "end" THEN 1 ELSE 0

UpstreamBlock(port, host) ==
  <<Line("upstream", port.name), Line("server", host), Line("end", Empty)>>

LocationBlock(port) ==
  <<Line("location", port.path), Line("proxy_pass", port.name), Line("end", Empty)>>

\* The server line and the location of /healthz.
ServerLines ==
  <<Line("server block", Empty), Line("location", Empty), Line("end", Empty)>>

\* The k-th line of a sequence of blocks of three.
BlockLine(blocks, k) == blocks[(k - 1) \div 3 + 1][((k - 1) % 3) + 1]

\* The upstream blocks, then the server block with a location per port.
GenerateNginxConfig(spec) ==
  LET n == 3 * Len(spec.ports)
      upstreams == [p \in DOMAIN spec.ports |->
                      UpstreamBlock(spec.ports[p], spec.collectorHost)]
      locations == [p \in DOMAIN spec.ports |-> LocationBlock(spec.ports[p])]
  IN [k \in 1 .. 2 * n + 4 |->
       IF k <= n THEN BlockLine(upstreams, k)
       ELSE IF k <= n + 3 THEN ServerLines[k - n]
       ELSE IF k <= 2 * n + 3 THEN BlockLine(locations, k - n - 3)
       ELSE Line("end", Empty)]

\* The texts of a spec that end up in its configuration.
ConfigTexts(spec) ==
  {spec.collectorHost}
    \cup UNION {{spec.ports[j].name, spec.ports[j].path} : j \in DOMAIN spec.ports}
=============================================================================
