---------------------------- MODULE ProxyTable -----------------------------
(***************************************************************************)
(* What the REST API promises of its writes, without caches, versions and  *)
(* handlers: a table of specs on which every request acts at most once, at *)
(* one instant between the call and its answer, and on the spec the table  *)
(* holds at that instant.  A success is answered to exactly the requests   *)
(* that acted, except that an error may hide one that did.                 *)
(***************************************************************************)
EXTENDS ProxyRequests

CONSTANT Clients

VARIABLES
  table,   \* table[n]: the spec of n, or None
  call,    \* call[c]: what c has asked for last, or None
  answer   \* answer[c]: the status code c has got for it, 0 if none yet

tableVars == <<table, call, answer>>

TableInit ==
  /\ table = [n \in Names |-> None]
  /\ call = [c \in Clients |-> None]
  /\ answer = [c \in Clients |-> 0]

Waiting(c) == call[c] # None /\ answer[c] = 0

Submit(c) ==
  /\ ~Waiting(c)
  /\ \E request \in Calls : call' = [call EXCEPT ![c] = request]
  /\ answer' = [answer EXCEPT ![c] = 0]
  /\ UNCHANGED table

\* The request acts on what the table holds now.
Act(c) ==
  LET n == call[c].name
  IN /\ call[c].op # "GET" /\ call[c].body # Malformed
     /\ Creates(call[c]) <=> table[n] = None
     /\ table' = [table EXCEPT ![n] = Outcome(call[c], table[n])]

Perform(c) ==
  /\ Waiting(c)
  /\ Act(c)
  /\ \E code \in {Success(call[c]), Failure(call[c])} :
       answer' = [answer EXCEPT ![c] = code]
  /\ UNCHANGED call

Refuse(c) ==
  /\ Waiting(c)
  /\ \E code \in {400, 404, 500} : answer' = [answer EXCEPT ![c] = code]
  /\ UNCHANGED <<table, call>>

Read(c) ==
  /\ Waiting(c)
  /\ call[c].op = "GET"
  /\ answer' = [answer EXCEPT ![c] = 200]
  /\ UNCHANGED <<table, call>>

\* The process dies: every open connection breaks.
Break ==
  /\ answer' = [c \in Clients |-> IF Waiting(c) THEN 500 ELSE answer[c]]
  /\ UNCHANGED <<table, call>>

\* Somebody else writes one proxy.
Elsewhere ==
  /\ \E n \in Names : table' = [table EXCEPT ![n] = table'[n]]
  /\ UNCHANGED <<call, answer>>

TableNext ==
  \/ \E c \in Clients : Submit(c) \/ Perform(c) \/ Refuse(c) \/ Read(c)
  \/ Break
  \/ Elsewhere

TableSpec == TableInit /\ [][TableNext]_tableVars
=============================================================================
