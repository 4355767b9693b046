-------------------------- MODULE AdmissionProofs ---------------------------
(***************************************************************************)
(* Proofs about Admission, for every set of specs with any number of       *)
(* ports: the type invariant, and the three properties of the run.         *)
(***************************************************************************)
EXTENDS Admission, TLAPS

Config == GenerateNginxConfig(spec)
Last == 6 * Len(spec.ports) + 4
Change(k) == LineOpens(Config[k]) - LineCloses(Config[k])

-----------------------------------------------------------------------------
(* The configuration. *)

\* The lines of GenerateNginxConfig are numbered 1 to Last.
LEMMA ConfigDomain ==
  ASSUME spec \in ProxySpec
  PROVE  /\ Len(Config) = Last
         /\ DOMAIN Config = 1 .. Last
         /\ Len(spec.ports) \in Nat /\ Last \in Nat
<1>1. spec.ports \in Seq(Port)  BY DEF ProxySpec
<1>2. Len(spec.ports) \in Nat  BY <1>1
<1>3. DOMAIN Config = 1 .. Last
  BY <1>2 DEF Config, GenerateNginxConfig, Last
<1>4. Len(Config) = Last
  BY <1>2, <1>3 DEF Config, GenerateNginxConfig, Last
<1> QED  BY <1>2, <1>3, <1>4 DEF Last

\* The port and the part of a line of the upstream and location blocks.
LEMMA BlockIndex ==
  ASSUME NEW n \in Nat, NEW k \in 1 .. 3 * n
  PROVE  /\ (k - 1) \div 3 + 1 \in 1 .. n
         /\ (k - 1) % 3 \in {0, 1, 2}
OBVIOUS

\* What stands on each line.
LEMMA ConfigLines ==
  ASSUME spec \in ProxySpec, NEW k \in 1 .. Last
  PROVE  LET n == Len(spec.ports)
             j == k - 3 * n - 3
         IN /\ k <= 3 * n =>
                 Config[k] = UpstreamBlock(spec.ports[(k - 1) \div 3 + 1],
                                           spec.collectorHost)[((k - 1) % 3) + 1]
            /\ k = 3 * n + 1 => Config[k] = Line("server block", Empty)
            /\ k = 3 * n + 2 => Config[k] = Line("location", Empty)
            /\ k = 3 * n + 3 => Config[k] = Line("end", Empty)
            /\ 3 * n + 3 < k /\ k <= 6 * n + 3 =>
                 Config[k] = LocationBlock(spec.ports[(j - 1) \div 3 + 1])[((j - 1) % 3) + 1]
            /\ k = 6 * n + 4 => Config[k] = Line("end", Empty)
<1> DEFINE n == Len(spec.ports)
           j == k - 3 * n - 3
           upstreams == [p \in DOMAIN spec.ports |->
                           UpstreamBlock(spec.ports[p], spec.collectorHost)]
           locations == [p \in DOMAIN spec.ports |-> LocationBlock(spec.ports[p])]
<1>1. n \in Nat /\ DOMAIN spec.ports = 1 .. n  BY DEF ProxySpec
<1>2. Config[k] = IF k <= 3 * n THEN BlockLine(upstreams, k)
                  ELSE IF k <= 3 * n + 3 THEN ServerLines[k - 3 * n]
                  ELSE IF k <= 2 * (3 * n) + 3 THEN BlockLine(locations, k - 3 * n - 3)
                  ELSE Line("end", Empty)
  BY <1>1 DEF Config, GenerateNginxConfig, Last
<1>3. ASSUME k <= 3 * n
      PROVE  BlockLine(upstreams, k)
               = UpstreamBlock(spec.ports[(k - 1) \div 3 + 1], spec.collectorHost)[((k - 1) % 3) + 1]
  <2>1. (k - 1) \div 3 + 1 \in DOMAIN spec.ports  BY <1>1, <1>3, BlockIndex
  <2> QED  BY <2>1 DEF BlockLine
<1>4. ASSUME 3 * n + 3 < k, k <= 6 * n + 3
      PROVE  BlockLine(locations, j)
               = LocationBlock(spec.ports[(j - 1) \div 3 + 1])[((j - 1) % 3) + 1]
  <2>1. j \in 1 .. 3 * n  BY <1>1, <1>4
  <2> HIDE DEF j
  <2>2. (j - 1) \div 3 + 1 \in DOMAIN spec.ports  BY <1>1, <2>1, BlockIndex
  <2> QED  BY <2>2 DEF BlockLine
<1> HIDE DEF upstreams, locations
<1>5. ServerLines[1] = Line("server block", Empty) /\ ServerLines[2] = Line("location", Empty)
        /\ ServerLines[3] = Line("end", Empty)
  BY DEF ServerLines
<1>6. k <= 3 * n =>
        Config[k] = UpstreamBlock(spec.ports[(k - 1) \div 3 + 1],
                                  spec.collectorHost)[((k - 1) % 3) + 1]
  BY <1>2, <1>3
<1>7. ASSUME 3 * n + 3 < k, k <= 6 * n + 3
      PROVE  Config[k] = LocationBlock(spec.ports[(j - 1) \div 3 + 1])[((j - 1) % 3) + 1]
  <2>1. ~(k <= 3 * n) /\ ~(k <= 3 * n + 3) /\ k <= 2 * (3 * n) + 3  BY <1>1, <1>7
  <2> QED  BY <2>1, <1>2, <1>4, <1>7
<1>8. ASSUME k \in 3 * n + 1 .. 3 * n + 3
      PROVE  Config[k] = ServerLines[k - 3 * n]
  <2>1. ~(k <= 3 * n) /\ k <= 3 * n + 3  BY <1>1, <1>8
  <2> QED  BY <2>1, <1>2
<1>9. ASSUME k = 6 * n + 4
      PROVE  Config[k] = Line("end", Empty)
  <2>1. ~(k <= 3 * n) /\ ~(k <= 3 * n + 3) /\ ~(k <= 2 * (3 * n) + 3)  BY <1>1, <1>9
  <2> QED  BY <2>1, <1>2
<1>10. /\ k = 3 * n + 1 => Config[k] = ServerLines[1]
       /\ k = 3 * n + 2 => Config[k] = ServerLines[2]
       /\ k = 3 * n + 3 => Config[k] = ServerLines[3]
  BY <1>1, <1>8
<1> QED  BY <1>5, <1>6, <1>7, <1>9, <1>10

\* Each line contributes integers to the count of braces.
LEMMA ChangeInt ==
  ASSUME spec \in ProxySpec, NEW k \in 1 .. Last
  PROVE  /\ Change(k) \in Int
         /\ LineOpens(Config[k]) \in Nat /\ LineCloses(Config[k]) \in Nat
<1> DEFINE n == Len(spec.ports)
           j == k - 3 * n - 3
<1>1. spec.ports \in [1 .. n -> Port] /\ n \in Nat /\ spec.collectorHost \in Texts
  BY DEF ProxySpec
<1>2. Config[k].text \in Texts
  <2>1. CASE k <= 3 * n
    <3>1. (k - 1) \div 3 + 1 \in 1 .. n /\ (k - 1) % 3 \in {0, 1, 2}
      BY <1>1, <2>1, BlockIndex
    <3>2. spec.ports[(k - 1) \div 3 + 1] \in Port  BY <1>1, <3>1
    <3>3. Config[k] = UpstreamBlock(spec.ports[(k - 1) \div 3 + 1],
                                    spec.collectorHost)[((k - 1) % 3) + 1]
      BY <2>1, ConfigLines
    <3> QED  BY <3>1, <3>2, <3>3, <1>1, TextsAssumption DEF UpstreamBlock, Line, Port
  <2>2. CASE 3 * n + 3 < k /\ k <= 6 * n + 3
    <3>1. j \in 1 .. 3 * n  BY <1>1, <2>2
    <3>2. (j - 1) \div 3 + 1 \in 1 .. n /\ (j - 1) % 3 \in {0, 1, 2}
      BY <1>1, <3>1, BlockIndex
    <3>3. spec.ports[(j - 1) \div 3 + 1] \in Port  BY <1>1, <3>2
    <3>4. Config[k] = LocationBlock(spec.ports[(j - 1) \div 3 + 1])[((j - 1) % 3) + 1]
      BY <2>2, ConfigLines
    <3> HIDE DEF j
    <3> QED  BY <3>2, <3>3, <3>4, TextsAssumption DEF LocationBlock, Line, Port
  <2>3. CASE k \in {3 * n + 1, 3 * n + 2, 3 * n + 3, 6 * n + 4}
    <3>1. \E directive : Config[k] = Line(directive, Empty)  BY <2>3, ConfigLines
    <3> QED  BY <3>1, TextsAssumption DEF Line
  <2>4. k <= 3 * n \/ (3 * n + 3 < k /\ k <= 6 * n + 3)
          \/ k \in {3 * n + 1, 3 * n + 2, 3 * n + 3, 6 * n + 4}
    BY <1>1 DEF Last
  <2> QED  BY <2>1, <2>2, <2>3, <2>4
<1>3. Opens[Config[k].text] \in Nat /\ Closes[Config[k].text] \in Nat
  BY <1>2, TextsAssumption
<1>4. LineOpens(Config[k]) \in Nat  BY <1>3 DEF LineOpens
<1>5. LineCloses(Config[k]) \in Nat  BY <1>3 DEF LineCloses
<1> QED  BY <1>4, <1>5 DEF Change

-----------------------------------------------------------------------------
(* A balanced configuration. *)

\* The blocks that are open after line k, if there are n ports and every text is balanced.
DepthOf(n, k) ==
  IF k <= 3 * n THEN (IF k % 3 = 0 THEN 0 ELSE 1)
  ELSE IF k <= 3 * n + 2 THEN k - 3 * n
  ELSE IF k <= 6 * n + 3 THEN (IF (k - 3 * n - 3) % 3 = 0 THEN 1 ELSE 2)
  ELSE 0

Depth(k) == DepthOf(Len(spec.ports), k)

\* From one number to the next the remainder goes round.
LEMMA Remainders ==
  ASSUME NEW k \in Nat \ {0}
  PROVE  /\ (k - 1) % 3 = 0 => k % 3 = 1
         /\ (k - 1) % 3 = 1 => k % 3 = 2
         /\ (k - 1) % 3 = 2 => k % 3 = 0
         /\ (k - 1) % 3 \in {0, 1, 2}
OBVIOUS

\* What a line with a balanced text adds, by its directive.
LEMMA BalancedLine ==
  ASSUME NEW text \in Texts, Opens[text] = Closes[text], NEW directive
  PROVE  LET line == Line(directive, text)
             change == LineOpens(line) - LineCloses(line)
         IN /\ directive \in {"upstream", "server block", "location"} => change = 1
            /\ directive \in {"server", "proxy_pass"} => change = 0
            /\ directive = "end" => change = -1
<1> DEFINE line == Line(directive, text)
<1>1. line.directive = directive /\ line.text = text  BY DEF Line
<1>2. Opens[text] \in Nat /\ Closes[text] \in Nat  BY TextsAssumption
<1>3. LineOpens(line) = IF directive \in BlockDirectives THEN Opens[text] + 1 ELSE Opens[text]
  BY <1>1, <1>2 DEF LineOpens
<1>4. LineCloses(line) = IF directive = "end" THEN Closes[text] + 1 ELSE Closes[text]
  BY <1>1, <1>2 DEF LineCloses
<1> HIDE DEF line
<1>5. ASSUME directive \in {"upstream", "server block", "location"}
      PROVE  LineOpens(line) - LineCloses(line) = 1
  <2>1. directive \in BlockDirectives /\ directive # "end"  BY <1>5 DEF BlockDirectives
  <2> QED  BY <2>1, <1>2, <1>3, <1>4
<1>6. ASSUME directive \in {"server", "proxy_pass"}
      PROVE  LineOpens(line) - LineCloses(line) = 0
  <2>1. directive \notin BlockDirectives /\ directive # "end"  BY <1>6 DEF BlockDirectives
  <2> QED  BY <2>1, <1>2, <1>3, <1>4
<1>7. ASSUME directive = "end"
      PROVE  LineOpens(line) - LineCloses(line) = -1
  <2>1. directive \notin BlockDirectives  BY <1>7 DEF BlockDirectives
  <2> QED  BY <2>1, <1>2, <1>3, <1>4, <1>7
<1> QED  BY <1>5, <1>6, <1>7 DEF line

\* What each line of a balanced configuration adds, by its place.
LEMMA BalancedChanges ==
  ASSUME spec \in ProxySpec, Balanced, NEW k \in 1 .. Last
  PROVE  LET n == Len(spec.ports)
             j == k - 3 * n - 3
         IN /\ k <= 3 * n => Change(k) = IF (k - 1) % 3 = 0 THEN 1
                                         ELSE IF (k - 1) % 3 = 1 THEN 0 ELSE -1
            /\ k \in {3 * n + 1, 3 * n + 2} => Change(k) = 1
            /\ k \in {3 * n + 3, 6 * n + 4} => Change(k) = -1
            /\ 3 * n + 3 < k /\ k <= 6 * n + 3 =>
                 Change(k) = IF (j - 1) % 3 = 0 THEN 1
                             ELSE IF (j - 1) % 3 = 1 THEN 0 ELSE -1
<1> DEFINE n == Len(spec.ports)
           j == k - 3 * n - 3
<1>1. spec.ports \in [1 .. n -> Port] /\ n \in Nat /\ spec.collectorHost \in Texts
  BY DEF ProxySpec
<1>2. ASSUME NEW p \in 1 .. n
      PROVE  /\ spec.ports[p].name \in Texts /\ spec.ports[p].path \in Texts
             /\ Opens[spec.ports[p].name] = Closes[spec.ports[p].name]
             /\ Opens[spec.ports[p].path] = Closes[spec.ports[p].path]
  BY <1>1, <1>2 DEF Balanced, ConfigTexts, Port
<1>3. Opens[spec.collectorHost] = Closes[spec.collectorHost]
  BY DEF Balanced, ConfigTexts
<1>4. ASSUME NEW directive, NEW text \in Texts, Opens[text] = Closes[text],
             Config[k] = Line(directive, text)
      PROVE  /\ directive \in {"upstream", "server block", "location"} => Change(k) = 1
             /\ directive \in {"server", "proxy_pass"} => Change(k) = 0
             /\ directive = "end" => Change(k) = -1
  BY <1>4, BalancedLine DEF Change
<1>5. Empty \in Texts /\ Opens[Empty] = Closes[Empty]  BY TextsAssumption
<1>6. ASSUME k <= 3 * n
      PROVE  Change(k) = IF (k - 1) % 3 = 0 THEN 1 ELSE IF (k - 1) % 3 = 1 THEN 0 ELSE -1
  <2> DEFINE port == spec.ports[(k - 1) \div 3 + 1]
  <2>1. (k - 1) \div 3 + 1 \in 1 .. n /\ (k - 1) % 3 \in {0, 1, 2}
    BY <1>1, <1>6, BlockIndex
  <2>2. port.name \in Texts /\ Opens[port.name] = Closes[port.name]  BY <2>1, <1>2
  <2>3. Config[k] = UpstreamBlock(port, spec.collectorHost)[((k - 1) % 3) + 1]
    BY <1>6, ConfigLines
  <2> HIDE DEF port
  <2>4. CASE (k - 1) % 3 = 0
    <3>1. Config[k] = Line("upstream", port.name)  BY <2>3, <2>4 DEF UpstreamBlock
    <3> QED  BY <3>1, <2>2, <2>4, <1>4
  <2>5. CASE (k - 1) % 3 = 1
    <3>1. Config[k] = Line("server", spec.collectorHost)  BY <2>3, <2>5 DEF UpstreamBlock
    <3>2. Change(k) = 0  BY <3>1, <1>1, <1>3, <1>4
    <3> QED  BY <3>2, <2>5
  <2>6. CASE (k - 1) % 3 = 2
    <3>1. Config[k] = Line("end", Empty)  BY <2>3, <2>6 DEF UpstreamBlock
    <3>2. Change(k) = -1  BY <3>1, <1>4, <1>5
    <3> QED  BY <3>2, <2>6
  <2> QED  BY <2>1, <2>4, <2>5, <2>6
<1>7. ASSUME 3 * n + 3 < k, k <= 6 * n + 3
      PROVE  Change(k) = IF (j - 1) % 3 = 0 THEN 1 ELSE IF (j - 1) % 3 = 1 THEN 0 ELSE -1
  <2> DEFINE port == spec.ports[(j - 1) \div 3 + 1]
  <2>1. j \in 1 .. 3 * n  BY <1>1, <1>7
  <2>2. (j - 1) \div 3 + 1 \in 1 .. n /\ (j - 1) % 3 \in {0, 1, 2}
    <3> HIDE DEF j, n
    <3> QED  BY <2>1, <1>1, BlockIndex
  <2>3. /\ port.name \in Texts /\ Opens[port.name] = Closes[port.name]
        /\ port.path \in Texts /\ Opens[port.path] = Closes[port.path]
    <3> HIDE DEF j
    <3> QED  BY <2>2, <1>2
  <2>4. Config[k] = LocationBlock(port)[((j - 1) % 3) + 1]  BY <1>7, ConfigLines
  <2> HIDE DEF port, j
  <2>5. CASE (j - 1) % 3 = 0
    <3>1. Config[k] = Line("location", port.path)  BY <2>4, <2>5 DEF LocationBlock
    <3> QED  BY <3>1, <2>3, <2>5, <1>4
  <2>6. CASE (j - 1) % 3 = 1
    <3>1. Config[k] = Line("proxy_pass", port.name)  BY <2>4, <2>6 DEF LocationBlock
    <3>2. Change(k) = 0  BY <3>1, <2>3, <1>4
    <3> QED  BY <3>2, <2>6
  <2>7. CASE (j - 1) % 3 = 2
    <3>1. Config[k] = Line("end", Empty)  BY <2>4, <2>7 DEF LocationBlock
    <3>2. Change(k) = -1  BY <3>1, <1>4, <1>5
    <3> QED  BY <3>2, <2>7
  <2> QED  BY <2>2, <2>5, <2>6, <2>7
<1>8. k \in {3 * n + 1, 3 * n + 2} => Change(k) = 1
  BY <1>4, <1>5, ConfigLines
<1>9. k \in {3 * n + 3, 6 * n + 4} => Change(k) = -1
  BY <1>4, <1>5, ConfigLines
<1> QED  BY <1>6, <1>7, <1>8, <1>9

\* Depth before and after each line of a configuration, by its place.
LEMMA DepthAround ==
  ASSUME NEW n \in Nat, NEW k \in 1 .. 6 * n + 4
  PROVE  LET j == k - 3 * n - 3
             after == DepthOf(n, k) - DepthOf(n, k - 1)
         IN /\ k <= 3 * n => after = IF (k - 1) % 3 = 0 THEN 1
                                     ELSE IF (k - 1) % 3 = 1 THEN 0 ELSE -1
            /\ k \in {3 * n + 1, 3 * n + 2} => after = 1
            /\ k \in {3 * n + 3, 6 * n + 4} => after = -1
            /\ 3 * n + 3 < k /\ k <= 6 * n + 3 =>
                 after = IF (j - 1) % 3 = 0 THEN 1
                         ELSE IF (j - 1) % 3 = 1 THEN 0 ELSE -1
            /\ DepthOf(n, k) \in Nat /\ DepthOf(n, k - 1) \in Nat
<1> DEFINE j == k - 3 * n - 3
           after == DepthOf(n, k) - DepthOf(n, k - 1)
<1>1. (3 * n) % 3 = 0  OBVIOUS
<1>2. k \in Nat \ {0}  OBVIOUS
<1>3. DepthOf(n, k) \in Nat /\ DepthOf(n, k - 1) \in Nat  BY DEF DepthOf
<1>4. k <= 3 * n => after = IF (k - 1) % 3 = 0 THEN 1
                            ELSE IF (k - 1) % 3 = 1 THEN 0 ELSE -1
  BY <1>2, Remainders DEF DepthOf
<1>5. k \in {3 * n + 1, 3 * n + 2} => after = 1  BY <1>1 DEF DepthOf
<1>6. k = 3 * n + 3 => after = -1  BY DEF DepthOf
<1>7. k = 6 * n + 4 => after = -1  BY <1>1 DEF DepthOf
<1>8. ASSUME 3 * n + 3 < k, k <= 6 * n + 3
      PROVE  after = IF (j - 1) % 3 = 0 THEN 1 ELSE IF (j - 1) % 3 = 1 THEN 0 ELSE -1
  <2>1. DepthOf(n, k) = IF j % 3 = 0 THEN 1 ELSE 2  BY <1>8 DEF DepthOf
  <2>2. DepthOf(n, k - 1) = IF (j - 1) % 3 = 0 THEN 1 ELSE 2  BY <1>8 DEF DepthOf
  <2>3. j \in Nat \ {0}  BY <1>8
  <2> HIDE DEF j
  <2> QED  BY <2>1, <2>2, <2>3, Remainders
<1> QED  BY <1>3, <1>4, <1>5, <1>6, <1>7, <1>8

\* The line that follows depth Depth(k - 1) leads to depth Depth(k).
LEMMA DepthStep ==
  ASSUME spec \in ProxySpec, Balanced, NEW k \in 1 .. Last
  PROVE  Depth(k) = Depth(k - 1) + Change(k) /\ Depth(k) \in Nat
<1> DEFINE n == Len(spec.ports)
           d == Depth(k)
           e == Depth(k - 1)
<1>1. n \in Nat  BY DEF ProxySpec
<1>2. k \in 1 .. 6 * n + 4  BY <1>1 DEF Last
<1>3. d \in Nat /\ e \in Nat  BY <1>1, <1>2, DepthAround DEF Depth
<1>4. d - e = Change(k)
  <2>1. k <= 3 * n \/ (3 * n + 3 < k /\ k <= 6 * n + 3) \/ k \in {3 * n + 1, 3 * n + 2}
          \/ k \in {3 * n + 3, 6 * n + 4}
    BY <1>1, <1>2
  <2>2. k <= 3 * n => d - e = Change(k)
    BY <1>1, <1>2, DepthAround, BalancedChanges DEF Depth
  <2>3. k \in {3 * n + 1, 3 * n + 2} => d - e = Change(k)
    BY <1>1, <1>2, DepthAround, BalancedChanges DEF Depth
  <2>4. k \in {3 * n + 3, 6 * n + 4} => d - e = Change(k)
    BY <1>1, <1>2, DepthAround, BalancedChanges DEF Depth
  <2>5. 3 * n + 3 < k /\ k <= 6 * n + 3 => d - e = Change(k)
    BY <1>1, <1>2, DepthAround, BalancedChanges DEF Depth
  <2> QED  BY <2>1, <2>2, <2>3, <2>4, <2>5
<1>5. Change(k) \in Int  BY ChangeInt
<1> HIDE DEF d, e
<1>6. d = e + Change(k)  BY <1>3, <1>4, <1>5
<1> QED  BY <1>3, <1>6 DEF d, e

\* Nothing is open before the first line and after the last one.
LEMMA DepthEnds ==
  ASSUME spec \in ProxySpec
  PROVE  Depth(0) = 0 /\ Depth(Last) = 0
<1> DEFINE n == Len(spec.ports)
<1>1. n \in Nat  BY DEF ProxySpec
<1>2. \A m \in Nat : DepthOf(m, 0) = 0 /\ DepthOf(m, 6 * m + 4) = 0  BY DEF DepthOf
<1> QED  BY <1>1, <1>2 DEF Depth, Last

-----------------------------------------------------------------------------
(* The inductive invariant. *)

\* d[k] is what ValidateNginxConfig has counted after line k, never negative.
Counts(d, m) ==
  /\ d[0] = 0
  /\ \A k \in 1 .. m : d[k] = d[k - 1] + Change(k) /\ d[k] >= 0

\* The webhook has counted so far; the controller counts what the webhook did.
Counted(d) ==
  /\ by = "webhook" => Counts(d, i - 1)
  /\ by = "controller" => Counts(d, Last) /\ d[Last] = 0
  /\ d[i - 1] = braceCount

WalkInv ==
  pc = "lines" => i <= Last + 1 /\ \E d \in [Nat -> Int] : Counted(d)

\* Who is where, with what.
StageInv ==
  /\ pc = "fields" => by = "webhook" /\ i = 1 /\ braceCount = 0
  /\ pc = "ports" => by = "webhook" /\ braceCount = 0 /\ i <= Len(spec.ports) + 1
  /\ pc \notin {"fields", "ports", "refused"} => valid
  /\ pc \in {"build", "panicked", "rejected", "built"} => by = "controller"
  /\ pc \in {"fields", "ports", "refused"} => by = "webhook"
  /\ pc # "retried"

BalancedInv ==
  Balanced =>
    /\ pc = "lines" => braceCount = Depth(i - 1)
    /\ pc = "refused" => ~valid

BuiltInv ==
  /\ pc # "fields" /\ valid => spec.replicaCount > 0
  /\ pc \in {"panicked", "rejected", "built"} =>
       /\ replicas = ToInt32(spec.replicaCount)
       /\ pc = "panicked" <=> ~Parses(spec.resources)
       /\ pc = "rejected" => replicas < 0
       /\ pc = "built" => replicas >= 0

\* The ports the loop of the webhook has seen.
Seen == IF pc = "fields" THEN 0 ELSE IF pc = "ports" THEN i - 1 ELSE Len(spec.ports)

NamesInv ==
  pc # "fields" /\ valid =>
    /\ \A j \in 1 .. Seen : spec.ports[j].name \in portNames
    /\ \A j \in 1 .. Seen, k \in 1 .. Seen : j < k => spec.ports[j].name # spec.ports[k].name

Inv == AdmissionTypeOK /\ StageInv /\ WalkInv /\ BalancedInv /\ BuiltInv /\ NamesInv

\* What was submitted is a spec, with its fields of the right types.
LEMMA SpecTyped ==
  ASSUME AdmissionTypeOK
  PROVE  spec \in ProxySpec
BY SpecsAssumption DEF AdmissionTypeOK

\* What depends on the spec alone does not change with the state.
LEMMA Frozen ==
  ASSUME spec' = spec
  PROVE  /\ Last' = Last /\ Config' = Config
         /\ Balanced' <=> Balanced
         /\ \A k \in Int : Change(k)' = Change(k)
         /\ \A k \in Int : Depth(k)' = Depth(k)
BY DEF Last, Config, Balanced, Change, Depth

\* The invariant holds initially.
LEMMA InitInv == Init => Inv
<1> SUFFICES ASSUME Init PROVE Inv  OBVIOUS
<1>1. AdmissionTypeOK  BY DEF Init, AdmissionTypeOK
<1>2. StageInv /\ WalkInv /\ BuiltInv /\ NamesInv
  BY DEF Init, StageInv, WalkInv, BuiltInv, NamesInv
<1>3. BalancedInv  BY DEF Init, BalancedInv
<1> QED  BY <1>1, <1>2, <1>3 DEF Inv

\* Validating the fields outside the ports keeps the invariant.
LEMMA FieldsStep ==
  ASSUME Inv, ValidateFields
  PROVE  Inv'
<1> USE DEF ValidateFields
<1>1. spec \in ProxySpec  BY SpecTyped DEF Inv
<1>2. AdmissionTypeOK'  BY DEF Inv, AdmissionTypeOK
<1>3. StageInv'
  <2>1. Len(spec.ports) \in Nat  BY <1>1 DEF ProxySpec
  <2> QED  BY <2>1 DEF Inv, StageInv
<1>4. WalkInv' /\ BalancedInv' /\ BuiltInv'  BY DEF WalkInv, BalancedInv, BuiltInv
<1>5. NamesInv'
  <2>1. Seen' = 0  BY DEF Inv, StageInv, Seen
  <2>2. ~(\E j \in 1 .. Seen' : TRUE)  BY <2>1
  <2> HIDE DEF ValidateFields
  <2> QED  BY <2>2 DEF NamesInv
<1> QED  BY <1>2, <1>3, <1>4, <1>5 DEF Inv

\* So does a turn of the loop over the ports: the new name is not among the earlier ones.
LEMMA PortStep ==
  ASSUME Inv, ValidatePort
  PROVE  Inv'
<1> USE DEF ValidatePort
<1>1. spec \in ProxySpec  BY SpecTyped DEF Inv
<1>2. Len(spec.ports) \in Nat /\ spec.ports \in [1 .. Len(spec.ports) -> Port]
  BY <1>1 DEF ProxySpec
<1>3. i \in 1 .. Len(spec.ports) /\ spec.ports[i].name \in Texts
  BY <1>2 DEF Inv, AdmissionTypeOK, Port
<1>4. AdmissionTypeOK'  BY <1>3 DEF Inv, AdmissionTypeOK
<1>5. StageInv'  BY <1>2, <1>3 DEF Inv, StageInv
<1>6. WalkInv' /\ BalancedInv' /\ BuiltInv'
  BY DEF Inv, WalkInv, BalancedInv, BuiltInv
<1>7. NamesInv'
  <2>0. Seen' = i  BY <1>3 DEF Seen
  <2> SUFFICES ASSUME valid'
               PROVE  /\ \A j \in 1 .. i : spec.ports[j].name \in portNames'
                      /\ \A j \in 1 .. i, k \in 1 .. i :
                           j < k => spec.ports[j].name # spec.ports[k].name
    BY <2>0 DEF NamesInv
  <2>1. valid /\ spec.ports[i].name \notin {Empty} \cup portNames
          /\ portNames' = portNames \cup {spec.ports[i].name}
    OBVIOUS
  <2>2. /\ \A j \in 1 .. i - 1 : spec.ports[j].name \in portNames
        /\ \A j \in 1 .. i - 1, k \in 1 .. i - 1 :
             j < k => spec.ports[j].name # spec.ports[k].name
    BY <2>1 DEF Inv, NamesInv, Seen
  <2>3. ASSUME NEW j \in 1 .. i  PROVE j \in 1 .. i - 1 \/ j = i  BY <1>3
  <2>4. ASSUME NEW j \in 1 .. i, NEW k \in 1 .. i, j < k
        PROVE  spec.ports[j].name # spec.ports[k].name
    BY <2>1, <2>2, <2>3, <2>4, <1>3
  <2> QED  BY <2>1, <2>2, <2>3, <2>4
<1> QED  BY <1>4, <1>5, <1>6, <1>7 DEF Inv

\* So does the end of that loop, where the count of braces starts from nothing.
LEMMA EndOfPortsStep ==
  ASSUME Inv, EndOfPorts
  PROVE  Inv'
<1> USE DEF EndOfPorts
<1>1. spec \in ProxySpec  BY SpecTyped DEF Inv
<1>2. Len(spec.ports) \in Nat /\ Last \in Nat  BY <1>1, ConfigDomain
<1>3. i = Len(spec.ports) + 1 /\ by = "webhook" /\ braceCount = 0
  BY <1>2 DEF Inv, AdmissionTypeOK, StageInv
<1>4. AdmissionTypeOK'  BY DEF Inv, AdmissionTypeOK, Outcomes
<1>5. StageInv'  BY <1>3 DEF Inv, StageInv
<1>6. WalkInv'
  <2> DEFINE d == [k \in Nat |-> 0]
  <2>1. d \in [Nat -> Int] /\ d[0] = 0  OBVIOUS
  <2>2. Counted(d)'  BY <1>3, <2>1 DEF Counted, Counts
  <2>3. i' <= Last' + 1  BY <1>2, Frozen
  <2> QED  BY <2>1, <2>2, <2>3 DEF WalkInv
<1>7. BalancedInv'
  <2>1. Depth(0)' = 0  BY <1>1, DepthEnds, Frozen
  <2>2. braceCount' = 0 /\ i' - 1 = 0  BY <1>3
  <2>3. pc' = "refused" => ~valid'  OBVIOUS
  <2> QED  BY <2>1, <2>2, <2>3 DEF BalancedInv
<1>8. BuiltInv'  BY DEF Inv, BuiltInv
<1>9. NamesInv'
  <2>1. Seen = Len(spec.ports) /\ Seen' = Len(spec.ports)  BY <1>2, <1>3 DEF Seen
  <2> QED  BY <2>1 DEF Inv, NamesInv
<1> QED  BY <1>4, <1>5, <1>6, <1>7, <1>8, <1>9 DEF Inv

\* So does a turn of the loop over the lines: what the webhook let pass the controller does not refuse.
LEMMA LineStep ==
  ASSUME Inv, ValidateLine
  PROVE  Inv'
<1> DEFINE line == Config[i]
           count == braceCount + LineOpens(line) - LineCloses(line)
<1>1. spec \in ProxySpec /\ spec' = spec  BY SpecTyped DEF Inv, ValidateLine
<1>2. Len(Config) = Last /\ Last \in Nat /\ Len(spec.ports) \in Nat  BY <1>1, ConfigDomain
<1>3. /\ pc = "lines" /\ i \in 1 .. Last /\ valid /\ i \in Int
      /\ IF count < 0 THEN Reject
         ELSE braceCount' = count /\ i' = i + 1 /\ UNCHANGED <<by, pc>>
      /\ UNCHANGED <<spec, valid, portNames, replicas>>
  BY <1>2 DEF Inv, AdmissionTypeOK, StageInv, ValidateLine, Config
<1>4. Change(i) \in Int /\ count = braceCount + Change(i) /\ braceCount \in Nat
  <2>1. LineOpens(line) \in Nat /\ LineCloses(line) \in Nat  BY <1>1, <1>3, ChangeInt
  <2> QED  BY <2>1 DEF Change, Inv, AdmissionTypeOK
<1> HIDE DEF count
<1>5. PICK d \in [Nat -> Int] : Counted(d)  BY <1>3 DEF Inv, WalkInv
<1> PICK m \in Nat : m = i  BY <1>3
<1>6. CASE count < 0
  <2>1. by = "webhook"
    <3> SUFFICES ASSUME by = "controller"  PROVE FALSE  BY DEF Inv, AdmissionTypeOK
    <3>1. d[i] = d[i - 1] + Change(i) /\ d[i] >= 0 /\ d[i - 1] = braceCount
      BY <1>3, <1>5 DEF Counted, Counts
    <3>2. d[i] = count  BY <3>1, <1>4
    <3> QED  BY <3>1, <3>2, <1>6, <1>4
  <2>2. pc' = "refused" /\ UNCHANGED <<by, i, braceCount>>  BY <1>3, <1>6, <2>1 DEF Reject
  <2>3. ~Balanced
    <3> SUFFICES ASSUME Balanced  PROVE FALSE  OBVIOUS
    <3>1. Depth(i) = Depth(i - 1) + Change(i) /\ Depth(i) \in Nat  BY <1>1, <1>3, DepthStep
    <3>2. braceCount = Depth(i - 1)  BY <1>3 DEF Inv, BalancedInv
    <3> QED  BY <3>1, <3>2, <1>4, <1>6
  <2>4. AdmissionTypeOK'  BY <1>3, <2>2 DEF Inv, AdmissionTypeOK, Outcomes
  <2>5. StageInv' /\ WalkInv' /\ BuiltInv'
    BY <1>3, <2>1, <2>2 DEF Inv, StageInv, WalkInv, BuiltInv
  <2>6. BalancedInv'  BY <2>3, <1>1, Frozen DEF BalancedInv
  <2>7. NamesInv'
    <3>1. Seen' = Seen  BY <1>3, <2>2 DEF Seen
    <3> QED  BY <3>1, <1>3 DEF Inv, NamesInv
  <2> QED  BY <2>4, <2>5, <2>6, <2>7 DEF Inv
<1>7. CASE ~(count < 0)
  <2>1. count \in Nat  BY <1>4, <1>7
  <2>2. braceCount' = count /\ i' = i + 1 /\ UNCHANGED <<by, pc>>  BY <1>3, <1>7
  <2>3. AdmissionTypeOK'  BY <1>3, <2>1, <2>2 DEF Inv, AdmissionTypeOK
  <2>4. StageInv' /\ BuiltInv'  BY <1>3, <2>2 DEF Inv, StageInv, BuiltInv
  <2>5. WalkInv'
    <3> DEFINE f == [k \in Nat |-> IF k = i /\ by = "webhook" THEN count ELSE d[k]]
    <3>0. f \in [Nat -> Int]  BY <2>1
    <3> HIDE DEF f
    <3>1. PICK e \in [Nat -> Int] : e = f  BY <3>0
    <3>2. Last' = Last /\ \A k \in Int : Change(k)' = Change(k)  BY <1>1, Frozen
    <3>3. ASSUME by = "webhook"
          PROVE  Counts(e, m)' /\ e[m] = count
      <4>1. Counts(d, i - 1) /\ d[i - 1] = braceCount  BY <1>5, <3>3 DEF Counted
      <4>2. e[0] = 0 /\ e[i] = count /\ \A k \in 0 .. i - 1 : e[k] = d[k]
        BY <1>3, <3>1, <3>3, <4>1 DEF Counts, f
      <4>3. ASSUME NEW k \in 1 .. i
            PROVE  e[k] = e[k - 1] + Change(k) /\ e[k] >= 0
        <5>1. CASE k = i
          <6>1. e[k] = count /\ e[k - 1] = braceCount  BY <4>1, <4>2, <5>1, <1>3
          <6> QED  BY <6>1, <5>1, <1>4, <2>1
        <5>2. CASE k \in 1 .. i - 1
          BY <5>2, <4>1, <4>2, <1>3 DEF Counts
        <5> QED  BY <5>1, <5>2, <1>3
      <4>4. \A k \in 1 .. m : Change(k)' = Change(k)  BY <3>2
      <4>5. \A k \in 1 .. m : e[k] = e[k - 1] + Change(k)' /\ e[k] >= 0  BY <4>3, <4>4
      <4> QED  BY <4>2, <4>5 DEF Counts
    <3>4. ASSUME by = "controller"
          PROVE  e = d /\ Counts(d, Last)' /\ d[Last'] = 0 /\ d[i] = count
      <4>1. Counts(d, Last) /\ d[Last] = 0 /\ d[i - 1] = braceCount
        BY <1>5, <3>4 DEF Counted
      <4>2. e = d  BY <3>1, <3>4, <1>5 DEF f
      <4>3. d[i] = count  BY <4>1, <1>3, <1>4 DEF Counts
      <4>4. \A k \in 1 .. Last : Change(k)' = Change(k)  BY <3>2, <1>2
      <4> QED  BY <4>1, <4>2, <4>3, <4>4, <3>2 DEF Counts
    <3>5. i' - 1 = i /\ i' <= Last' + 1  BY <2>2, <3>2, <1>2, <1>3
    <3>6. Counted(e)'
      BY <2>2, <3>2, <3>3, <3>4, <3>5 DEF Counted, Inv, AdmissionTypeOK
    <3> QED  BY <3>1, <3>5, <3>6 DEF WalkInv
  <2>6. BalancedInv'
    <3> SUFFICES ASSUME Balanced
                 PROVE  braceCount' = DepthOf(Len(spec'.ports), i' - 1) /\ pc' # "refused"
      BY <1>1, Frozen DEF BalancedInv, Depth
    <3>1. Depth(i) = Depth(i - 1) + Change(i)  BY <1>1, <1>3, DepthStep
    <3>2. braceCount = Depth(i - 1)  BY <1>3 DEF Inv, BalancedInv
    <3>3. i' - 1 = i  BY <2>2, <1>3
    <3>4. braceCount' = Depth(i)  BY <3>1, <3>2, <2>2, <1>4
    <3> QED  BY <3>3, <3>4, <2>2, <1>1, <1>3 DEF Depth
  <2>7. NamesInv'
    <3>1. Seen' = Seen  BY <1>3, <2>2 DEF Seen
    <3> QED  BY <3>1, <1>3, <2>2 DEF Inv, NamesInv
  <2> QED  BY <2>3, <2>4, <2>5, <2>6, <2>7 DEF Inv
<1> QED  BY <1>6, <1>7

\* So does the end of the configuration, where the controller begins its own count.
LEMMA EndOfConfigStep ==
  ASSUME Inv, EndOfConfig
  PROVE  Inv'
<1> USE DEF EndOfConfig
<1>1. spec \in ProxySpec /\ spec' = spec  BY SpecTyped DEF Inv
<1>2. Len(Config) = Last /\ Last \in Nat /\ Len(spec.ports) \in Nat  BY <1>1, ConfigDomain
<1>3. pc = "lines" /\ i > Last /\ valid /\ i \in Nat /\ braceCount \in Nat
  BY <1>2 DEF Inv, AdmissionTypeOK, StageInv, Config
<1>4. i - 1 = Last  BY <1>2, <1>3 DEF Inv, WalkInv
<1>5. PICK d \in [Nat -> Int] : Counted(d)  BY <1>3 DEF Inv, WalkInv
<1>6. d[Last] = braceCount  BY <1>4, <1>5 DEF Counted
<1>7. Seen' = Seen /\ Seen = Len(spec.ports)
  BY <1>3 DEF Seen, Reject, Accept, Inv, AdmissionTypeOK
<1>8. NamesInv'  BY <1>3, <1>7 DEF Inv, NamesInv
<1>9. CASE braceCount # 0
  <2>1. by = "webhook"  BY <1>5, <1>6, <1>9 DEF Counted, Inv, AdmissionTypeOK
  <2>2. pc' = "refused" /\ UNCHANGED <<by, i, braceCount>>  BY <1>9, <2>1 DEF Reject
  <2>3. ~Balanced
    <3>1. Balanced => braceCount = Depth(i - 1)  BY <1>3 DEF Inv, BalancedInv
    <3>2. Depth(Last) = 0  BY <1>1, DepthEnds
    <3> QED  BY <3>1, <3>2, <1>4, <1>9
  <2>4. AdmissionTypeOK'  BY <1>3, <2>2 DEF Inv, AdmissionTypeOK, Outcomes
  <2>5. StageInv' /\ WalkInv' /\ BuiltInv'
    BY <1>3, <2>1, <2>2 DEF Inv, StageInv, WalkInv, BuiltInv
  <2>6. BalancedInv'  BY <2>3, <1>1, Frozen DEF BalancedInv
  <2> QED  BY <1>8, <2>4, <2>5, <2>6 DEF Inv
<1>10. CASE braceCount = 0
  <2>1. i' = 1 /\ braceCount' = 0 /\ by' = "controller"
          /\ pc' = IF by = "webhook" THEN "lines" ELSE "build"
    BY <1>10 DEF Accept
  <2>2. AdmissionTypeOK'  BY <1>3, <2>1 DEF Inv, AdmissionTypeOK
  <2>3. StageInv' /\ BuiltInv'  BY <1>3, <2>1 DEF Inv, StageInv, BuiltInv
  <2>4. WalkInv'
    <3>1. Counts(d, Last) /\ d[Last] = 0
      BY <1>4, <1>5, <1>6, <1>10 DEF Counted, Inv, AdmissionTypeOK
    <3>2. Last' = Last /\ \A k \in 1 .. Last : Change(k)' = Change(k)  BY <1>1, <1>2, Frozen
    <3>3. Counts(d, Last)'  BY <3>1, <3>2 DEF Counts
    <3>4. Counted(d)'  BY <2>1, <3>1, <3>2, <3>3 DEF Counted, Counts
    <3>5. i' <= Last' + 1  BY <2>1, <3>2, <1>2
    <3> QED  BY <3>4, <3>5 DEF WalkInv
  <2>5. BalancedInv'
    <3>1. Depth(0)' = 0  BY <1>1, DepthEnds, Frozen
    <3>2. i' - 1 = 0 /\ pc' # "refused"  BY <2>1
    <3> QED  BY <2>1, <3>1, <3>2 DEF BalancedInv
  <2> QED  BY <1>8, <2>2, <2>3, <2>4, <2>5 DEF Inv
<1> QED  BY <1>9, <1>10

\* The conversion to 32 bits always ends in a number.
LEMMA ConversionInt == ASSUME NEW x \in Int  PROVE ToInt32(x) \in Int
<1>1. HalfRange \in Nat \ {0}  BY NumbersAssumption
<1>2. 2 * HalfRange \in Nat \ {0} /\ x + HalfRange \in Int  BY <1>1
<1>3. \A a \in Int, b \in Nat \ {0} : a % b \in 0 .. b - 1  OBVIOUS
<1>4. (x + HalfRange) % (2 * HalfRange) \in 0 .. 2 * HalfRange - 1  BY <1>2, <1>3
<1> QED  BY <1>1, <1>4 DEF ToInt32

\* The conversion keeps a positive number if, and only if, it is below 2^31.
LEMMA Conversion ==
  ASSUME NEW x \in Nat
  PROVE  ToInt32(x) = x /\ ToInt32(x) >= 0 <=> x < HalfRange
<1> DEFINE h == HalfRange
<1>1. h \in Nat \ {0}  BY NumbersAssumption
<1>2. 2 * h \in Nat \ {0} /\ x + h \in Nat  BY <1>1
<1> HIDE DEF h
<1>3. ASSUME x < h  PROVE ToInt32(x) = x
  <2>1. x + h \in 0 .. 2 * h - 1  BY <1>1, <1>3
  <2>2. \A a \in Nat, b \in Nat \ {0} : a \in 0 .. b - 1 => a % b = a  OBVIOUS
  <2>3. (x + h) % (2 * h) = x + h  BY <1>2, <2>1, <2>2
  <2> QED  BY <1>1, <2>3 DEF ToInt32, h
<1>4. ToInt32(x) < h
  <2>1. \A a \in Int, b \in Nat \ {0} : a % b \in 0 .. b - 1  OBVIOUS
  <2>2. (x + h) % (2 * h) \in 0 .. 2 * h - 1
    <3> DEFINE m == 2 * h
    <3>1. m \in Nat \ {0} /\ x + h \in Int  BY <1>2
    <3> HIDE DEF m
    <3>2. (x + h) % m \in 0 .. m - 1  BY <3>1, <2>1
    <3> QED  BY <3>2 DEF m
  <2> DEFINE r == (x + h) % (2 * h)
  <2>3. ToInt32(x) = r - h  BY DEF ToInt32, h
  <2> HIDE DEF r
  <2> QED  BY <1>1, <2>2, <2>3 DEF r
<1>5. ToInt32(x) \in Int  BY ConversionInt
<1> QED  BY <1>1, <1>3, <1>4, <1>5 DEF h

\* So does building the Deployment.
LEMMA BuildStep ==
  ASSUME Inv, BuildDeployment
  PROVE  Inv'
<1> USE DEF BuildDeployment
<1>1. spec \in ProxySpec /\ spec' = spec  BY SpecTyped DEF Inv
<1>2. ToInt32(spec.replicaCount) \in Int  BY <1>1, ConversionInt DEF ProxySpec
<1>3. by = "controller" /\ valid /\ replicas' = ToInt32(spec.replicaCount)
        /\ pc' \in {"panicked", "rejected", "built"}
  BY DEF Inv, StageInv
<1>4. AdmissionTypeOK'  BY <1>2, <1>3 DEF Inv, AdmissionTypeOK, Outcomes
<1>5. StageInv' /\ WalkInv' /\ BalancedInv'
  BY <1>3 DEF Inv, StageInv, WalkInv, BalancedInv
<1>6. BuiltInv'
  <2>1. valid' => spec'.replicaCount > 0  BY <1>1, <1>3 DEF Inv, BuiltInv
  <2>2. pc' = "panicked" <=> ~Parses(spec.resources)  OBVIOUS
  <2>3. pc' = "rejected" => replicas' < 0  OBVIOUS
  <2>4. pc' = "built" => replicas' >= 0  BY <1>2, <1>3
  <2>5. Parses(spec'.resources) = Parses(spec.resources)  BY <1>1
  <2>6. replicas' = ToInt32(spec'.replicaCount)  BY <1>1, <1>3
  <2> HIDE DEF BuildDeployment
  <2> QED  BY <2>1, <2>2, <2>3, <2>4, <2>5, <2>6, <1>1 DEF BuiltInv
<1>7. NamesInv'
  <2>1. Seen' = Seen  BY <1>3, <1>1 DEF Seen
  <2> QED  BY <2>1, <1>1, <1>3 DEF Inv, NamesInv
<1> QED  BY <1>4, <1>5, <1>6, <1>7 DEF Inv

\* A stuttering step changes nothing the invariant speaks of.
LEMMA StutterStep ==
  ASSUME Inv, UNCHANGED vars
  PROVE  Inv'
<1> USE DEF vars
<1>1. spec' = spec  OBVIOUS
<1>2. AdmissionTypeOK' /\ StageInv'  BY DEF Inv, AdmissionTypeOK, StageInv
<1>3. WalkInv' = WalkInv
  BY DEF WalkInv, Counted, Counts, Change, Config, Last
<1>4. BalancedInv' = BalancedInv  BY DEF BalancedInv, Balanced, Depth
<1>5. BuiltInv' = BuiltInv  BY DEF BuiltInv
<1>6. NamesInv' = NamesInv  BY DEF NamesInv, Seen
<1> QED  BY <1>2, <1>3, <1>4, <1>5, <1>6 DEF Inv

\* The invariant that the theorems about admission rest on.
THEOREM Invariance == Spec => []Inv
<1>1. Init => Inv  BY InitInv
<1>2. Inv /\ [Next]_vars => Inv'
  BY FieldsStep, PortStep, EndOfPortsStep, LineStep, EndOfConfigStep, BuildStep,
     StutterStep DEF Next
<1> QED  BY <1>1, <1>2, PTL DEF Spec

-----------------------------------------------------------------------------
(* What admission promises. *)

\* The state of admission is always well typed; no line of a configuration
\* leaves the count of open braces negative.
THEOREM TypeCorrect == Spec => []AdmissionTypeOK
<1>1. Inv => AdmissionTypeOK  BY DEF Inv
<1> QED  BY <1>1, Invariance, PTL

\* What the webhook admits is built with the replicas it asks for, unless a
\* quantity does not parse or the count does not fit.
THEOREM Admitted == Spec => []AdmittedIsBuilt
<1>1. Inv => AdmittedIsBuilt
  <2> SUFFICES ASSUME Inv  PROVE AdmittedIsBuilt  OBVIOUS
  <2>1. pc # "retried"  BY DEF Inv, StageInv
  <2>2. ASSUME pc \in {"panicked", "rejected", "built"}
        PROVE  pc = "built" /\ replicas = spec.replicaCount
                 <=> Parses(spec.resources) /\ spec.replicaCount < HalfRange
    <3> DEFINE x == spec.replicaCount
    <3>1. x \in Nat
      <4>1. x \in Int  BY SpecTyped DEF Inv, ProxySpec
      <4>2. x > 0  BY <2>2 DEF Inv, StageInv, BuiltInv
      <4> QED  BY <4>1, <4>2
    <3>2. ToInt32(x) = x /\ ToInt32(x) >= 0 <=> x < HalfRange  BY <3>1, Conversion
    <3>3. /\ replicas = ToInt32(x)
          /\ pc = "panicked" <=> ~Parses(spec.resources)
          /\ pc = "rejected" => replicas < 0
          /\ pc = "built" => replicas >= 0
      BY <2>2 DEF Inv, BuiltInv
    <3> HIDE DEF x
    <3>4. replicas \in Int  BY DEF Inv, AdmissionTypeOK
    <3> QED  BY <2>2, <3>1, <3>2, <3>3, <3>4 DEF x
  <2> QED  BY <2>1, <2>2 DEF AdmittedIsBuilt
<1> QED  BY <1>1, Invariance, PTL

\* A configuration whose texts are balanced is refused for no brace.
THEOREM Passes == Spec => []BalancedPasses
<1>1. Inv => BalancedPasses
  BY DEF Inv, StageInv, BalancedInv, BalancedPasses
<1> QED  BY <1>1, Invariance, PTL

\* Two lines of blocks with the same port and the same part are the same line.
LEMMA BlockPlace ==
  ASSUME NEW k1 \in Nat \ {0}, NEW k2 \in Nat \ {0},
         (k1 - 1) % 3 = 0, (k2 - 1) % 3 = 0, (k1 - 1) \div 3 = (k2 - 1) \div 3
  PROVE  k1 = k2
OBVIOUS

\* The line of an upstream names the port it stands for.
LEMMA UpstreamLine ==
  ASSUME spec \in ProxySpec, NEW k \in 1 .. Last, Config[k].directive = "upstream"
  PROVE  /\ k \in 1 .. 3 * Len(spec.ports) /\ (k - 1) % 3 = 0
         /\ Config[k].text = spec.ports[(k - 1) \div 3 + 1].name
<1> DEFINE n == Len(spec.ports)
           j == k - 3 * n - 3
<1>1. n \in Nat  BY DEF ProxySpec
<1>2. CASE k <= 3 * n
  <2> DEFINE port == spec.ports[(k - 1) \div 3 + 1]
  <2>1. (k - 1) % 3 \in {0, 1, 2}  BY <1>1, <1>2, BlockIndex
  <2>2. Config[k] = UpstreamBlock(port, spec.collectorHost)[((k - 1) % 3) + 1]
    BY <1>2, ConfigLines
  <2> HIDE DEF port
  <2>3. ((k - 1) % 3) = 0 /\ Config[k].text = port.name
    BY <2>1, <2>2 DEF UpstreamBlock, Line
  <2> QED  BY <1>1, <1>2, <2>3 DEF port
<1>3. ASSUME 3 * n + 3 < k, k <= 6 * n + 3  PROVE FALSE
  <2> DEFINE port == spec.ports[(j - 1) \div 3 + 1]
  <2>1. Config[k] = LocationBlock(port)[((j - 1) % 3) + 1]  BY <1>3, ConfigLines
  <2>2. (j - 1) % 3 \in {0, 1, 2}
    <3>1. j \in 1 .. 3 * n  BY <1>1, <1>3
    <3> HIDE DEF j, n
    <3> QED  BY <3>1, <1>1, BlockIndex
  <2> HIDE DEF port, j
  <2> QED  BY <2>1, <2>2 DEF LocationBlock, Line
<1>4. ASSUME k \in {3 * n + 1, 3 * n + 2, 3 * n + 3, 6 * n + 4}  PROVE FALSE
  <2>1. \E directive \in {"server block", "location", "end"} : Config[k] = Line(directive, Empty)
    BY <1>4, ConfigLines
  <2>2. Config[k].directive \in {"server block", "location", "end"}  BY <2>1 DEF Line
  <2>3. "upstream" \notin {"server block", "location", "end"}  OBVIOUS
  <2> QED  BY <2>2, <2>3
<1>5. k <= 3 * n \/ (3 * n + 3 < k /\ k <= 6 * n + 3)
        \/ k \in {3 * n + 1, 3 * n + 2, 3 * n + 3, 6 * n + 4}
  BY <1>1 DEF Last
<1> QED  BY <1>2, <1>3, <1>4, <1>5

\* No configuration the controller writes declares an upstream twice.
THEOREM Distinct == Spec => []UpstreamsDistinct
<1>1. Inv => UpstreamsDistinct
  <2> SUFFICES ASSUME Inv, by = "controller",
                      NEW k1 \in DOMAIN Config, NEW k2 \in DOMAIN Config,
                      Config[k1].directive = "upstream", Config[k2].directive = "upstream",
                      Config[k1].text = Config[k2].text
               PROVE  k1 = k2
    BY DEF UpstreamsDistinct, Config
  <2>1. spec \in ProxySpec  BY SpecTyped DEF Inv
  <2> DEFINE n == Len(spec.ports)
             p1 == (k1 - 1) \div 3 + 1
             p2 == (k2 - 1) \div 3 + 1
  <2>2. n \in Nat /\ k1 \in 1 .. Last /\ k2 \in 1 .. Last  BY <2>1, ConfigDomain
  <2>3. k1 \in 1 .. 3 * n /\ (k1 - 1) % 3 = 0 /\ Config[k1].text = spec.ports[p1].name
    BY <2>1, <2>2, UpstreamLine
  <2>4. k2 \in 1 .. 3 * n /\ (k2 - 1) % 3 = 0 /\ Config[k2].text = spec.ports[p2].name
    BY <2>1, <2>2, UpstreamLine
  <2>5. p1 \in 1 .. n /\ p2 \in 1 .. n  BY <2>2, <2>3, <2>4, BlockIndex
  <2>6. \A j \in 1 .. n, k \in 1 .. n : j < k => spec.ports[j].name # spec.ports[k].name
    <3>1. pc \notin {"fields", "ports", "refused"} /\ valid  BY DEF Inv, StageInv
    <3>2. Seen = n  BY <3>1 DEF Seen
    <3> QED  BY <3>1, <3>2 DEF Inv, NamesInv
  <2>7. spec.ports[p1].name = spec.ports[p2].name  BY <2>3, <2>4
  <2>8. p1 = p2
    <3> HIDE DEF p1, p2, n
    <3> QED  BY <2>2, <2>5, <2>6, <2>7
  <2>9. (k1 - 1) \div 3 = (k2 - 1) \div 3  BY <2>2, <2>3, <2>4, <2>8
  <2>10. k1 \in Nat \ {0} /\ k2 \in Nat \ {0}  BY <2>2, <2>3, <2>4
  <2> HIDE DEF p1, p2, n
  <2> QED  BY <2>3, <2>4, <2>9, <2>10, BlockPlace
<1> QED  BY <1>1, Invariance, PTL
=============================================================================
