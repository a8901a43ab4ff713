-------------------------- MODULE DispatcherProofs --------------------------
(***************************************************************************)
(* Proofs about the main loop: types, that no request is lost, and that at *)
(* most one request after a SIGHUP is served with older rules.             *)
(***************************************************************************)
EXTENDS Dispatcher, TLAPS

Pcs == {"top", "hup", "wait", "select", "read", "fork", "stopped"}
Kids == [state : {"none", "setup", "tftp", "exited"}, rules : Nat, asked : Nat]

\* A child whose rules are older than the last SIGHUP before it asked for.
StaleKid(x) == kids[x].rules < kids[x].asked

-----------------------------------------------------------------------------
(* The inductive invariant.                                                 *)

\* Types, with the bound on the edits left to VersionInv.
LoopTypes ==
    /\ standalone \in BOOLEAN
    /\ pc \in Pcs
    /\ exit_signal \in BOOLEAN /\ caught_sighup \in BOOLEAN
    /\ fd \in Sockets
    /\ queue \in [Sockets -> Seq(Requests)]
    /\ buf \in Requests \cup {None}
    /\ rules \in Nat /\ mapfile \in Nat /\ asked \in Nat
    /\ kids \in [Requests -> Kids]
    /\ dropped \subseteq Requests

\* A request is in the server's hands exactly between the read and the fork.
HandInv == buf # None <=> pc = "fork"

\* No version in use or asked for is newer than the file, and no child was asked
\* for more than the last SIGHUP asked for.
VersionInv ==
    /\ mapfile <= MaxEdits
    /\ rules <= mapfile /\ asked <= mapfile
    /\ \A x \in Requests : kids[x].asked <= asked /\ kids[x].rules <= mapfile

\* Old rules are in use only while the flag is up, or in a server that has ended.
FlagInv == rules < asked => caught_sighup \/ pc = "stopped"

\* Once a child has gone out with old rules, the loop does not come past the flag
\* before the rules are read again.
OnceInv ==
    \A x \in Requests :
        StaleKid(x) /\ kids[x].asked = asked /\ rules < asked =>
            pc \in {"top", "hup", "stopped"}

LoopInv ==
    LoopTypes /\ HandInv /\ VersionInv /\ FlagInv /\ OnceInv /\ StaleRulesOnce

-----------------------------------------------------------------------------
(* Queues.                                                                  *)

\* Taking the head off a queue leaves every other member in it.
LEMMA TailKeeps ==
    ASSUME NEW S, NEW q \in Seq(S), q # <<>>
    PROVE  /\ Head(q) \in S /\ Tail(q) \in Seq(S)
           /\ \A x \in ToSet(q) : x = Head(q) \/ x \in ToSet(Tail(q))
  <1>1. Head(q) \in S /\ Tail(q) \in Seq(S)
    OBVIOUS
  <1>2. ASSUME NEW x \in ToSet(q), x # Head(q)
        PROVE  x \in ToSet(Tail(q))
    <2>1. PICK i \in 1 .. Len(q) : x = q[i]
      BY <1>2 DEF ToSet
    <2>2. i # 1 /\ Len(q) \in Nat
      BY <1>2, <2>1
    <2>3. i - 1 \in 1 .. Len(Tail(q)) /\ Tail(q)[i - 1] = x
      BY <2>1, <2>2
    <2>4. i - 1 \in DOMAIN Tail(q)
      BY <2>3, <1>1
    <2> QED
      BY <2>3, <2>4 DEF ToSet
  <1> QED
    BY <1>1, <1>2

\* A queue that grows keeps its members.
LEMMA AppendKeeps ==
    ASSUME NEW S, NEW q \in Seq(S), NEW r \in S
    PROVE  Append(q, r) \in Seq(S) /\ ToSet(q) \subseteq ToSet(Append(q, r))
  <1>1. Append(q, r) \in Seq(S)
    OBVIOUS
  <1>2. ASSUME NEW x \in ToSet(q)
        PROVE  x \in ToSet(Append(q, r))
    <2>1. PICK i \in 1 .. Len(q) : x = q[i]
      BY DEF ToSet
    <2>2. i \in 1 .. Len(Append(q, r)) /\ Append(q, r)[i] = x
      BY <2>1
    <2> QED
      BY <2>2, <1>1 DEF ToSet
  <1> QED
    BY <1>1, <1>2

-----------------------------------------------------------------------------
(* Every step keeps the types.                                              *)

LEMMA LoopTypesInit == Init => LoopTypes
  <1> SUFFICES ASSUME Init
               PROVE  LoopTypes
    OBVIOUS
  <1>1. fd \in Sockets
    BY DEF Init, Sockets
  <1>2. queue \in [Sockets -> Seq(Requests)]
    BY DEF Init
  <1>3. kids \in [Requests -> Kids]
    BY DEF Init, Kids, NoKid
  <1> QED
    BY <1>1, <1>2, <1>3 DEF Init, LoopTypes, Pcs

LEMMA LoopTypesKept ==
    ASSUME LoopTypes, HandInv, [Next]_vars
    PROVE  LoopTypes'
  <1>0. standalone' = standalone /\ Sockets' = Sockets
    BY DEF Next, Loop, Respawn, Outside, vars, Sockets
  <1> USE <1>0 DEF LoopTypes, Pcs
  <1>1. CASE UNCHANGED vars
    BY <1>1 DEF vars, signals
  <1>2. CASE Top \/ EnterSelect \/ SelectTimeout \/ LoopFails
    BY <1>2 DEF Top, EnterSelect, SelectTimeout, LoopFails, signals
  <1>3. CASE CheckHup
    BY <1>3 DEF CheckHup
  <1>4. CASE ReloadFails \/ Respawn
    BY <1>4 DEF ReloadFails, Respawn
  <1>5. CASE SelectReady
    <2>1. Chosen({s \in Sockets : queue[s] # <<>>}) \in Sockets
      BY DEF Chosen, Sockets
    <2> QED
      BY <1>5, <2>1 DEF SelectReady, signals
  <1>6. CASE Read
    <2>1. CASE queue[fd] # <<>>
      <3>1. queue[fd] \in Seq(Requests)
        OBVIOUS
      <3>2. Head(queue[fd]) \in Requests /\ Tail(queue[fd]) \in Seq(Requests)
        BY <2>1, <3>1, TailKeeps
      <3>3. queue' \in [Sockets -> Seq(Requests)] /\ buf' \in Requests
        BY <1>6, <2>1, <3>2 DEF Read
      <3> QED
        BY <1>6, <2>1, <3>3 DEF Read, signals
    <2>2. CASE queue[fd] = <<>>
      BY <1>6, <2>2 DEF Read, signals
    <2> QED
      BY <2>1, <2>2
  <1>7. CASE ReadNothing \/ ReadForeign
    <2>1. queue[fd] # <<>> /\ queue[fd] \in Seq(Requests)
      BY <1>7 DEF ReadNothing, ReadForeign
    <2>2. Head(queue[fd]) \in Requests /\ Tail(queue[fd]) \in Seq(Requests)
      BY <2>1, TailKeeps
    <2> QED
      BY <1>7, <2>2 DEF ReadNothing, ReadForeign, signals
  <1>8. CASE Fork
    BY <1>8 DEF Fork, signals, Kids, AfterFork
  <1>9. CASE ForkFails
    <2>1. buf \in Requests
      BY <1>9 DEF ForkFails, HandInv
    <2> QED
      BY <1>9, <2>1 DEF ForkFails, signals
  <1>10. CASE SigTerm \/ SigHup
    BY <1>10 DEF SigTerm, SigHup, Interrupt
  <1>11. CASE EditMap
    BY <1>11 DEF EditMap, signals
  <1>12. ASSUME NEW r \in Requests, ChildSetup(r)
         PROVE  LoopTypes'
    <2>1. PICK to \in {"tftp", "exited"} : kids' = [kids EXCEPT ![r].state = to]
      BY <1>12 DEF ChildSetup
    <2>2. kids' \in [Requests -> Kids]
      BY <2>1 DEF Kids
    <2> QED
      BY <1>12, <2>2 DEF ChildSetup, signals
  <1>13. ASSUME NEW r \in Requests, NEW s \in Sockets, Arrive(r, s)
         PROVE  LoopTypes'
    <2>1. Append(queue[s], r) \in Seq(Requests)
      OBVIOUS
    <2>2. queue' \in [Sockets -> Seq(Requests)] /\ kids' \in [Requests -> Kids]
      BY <1>13, <2>1 DEF Arrive, NoKid, Kids
    <2> QED
      BY <1>13, <2>2 DEF Arrive, signals
  <1> QED
    BY <1>1, <1>2, <1>3, <1>4, <1>5, <1>6, <1>7, <1>8, <1>9, <1>10, <1>11, <1>12, <1>13
    DEF Next, Loop, Outside

-----------------------------------------------------------------------------
(* Requests.                                                                *)

LEMMA HandInit == Init => HandInv
  BY DEF Init, HandInv

LEMMA HandKept ==
    ASSUME LoopTypes, HandInv, [Next]_vars
    PROVE  HandInv'
  <1> USE DispatcherAssumption DEF HandInv, LoopTypes, Pcs
  <1>1. CASE UNCHANGED vars
    BY <1>1 DEF vars
  <1>2. CASE Top \/ EnterSelect \/ SelectTimeout \/ SelectReady \/ LoopFails
    BY <1>2 DEF Top, EnterSelect, SelectTimeout, SelectReady, LoopFails
  <1>3. CASE CheckHup
    BY <1>3 DEF CheckHup
  <1>4. CASE ReloadFails \/ Respawn
    BY <1>4 DEF ReloadFails, Respawn
  <1>5. CASE Read
    <2>1. CASE queue[fd] # <<>>
      <3>1. Head(queue[fd]) \in Requests
        BY <2>1, TailKeeps
      <3> QED
        BY <1>5, <2>1, <3>1 DEF Read
    <2>2. CASE queue[fd] = <<>>
      BY <1>5, <2>2 DEF Read
    <2> QED
      BY <2>1, <2>2
  <1>6. CASE ReadNothing \/ ReadForeign \/ Fork \/ ForkFails
    BY <1>6 DEF ReadNothing, ReadForeign, Fork, ForkFails, AfterFork
  <1>7. CASE SigTerm \/ SigHup
    BY <1>7 DEF SigTerm, SigHup, Interrupt
  <1>8. CASE EditMap
    BY <1>8 DEF EditMap
  <1>9. ASSUME NEW r \in Requests, ChildSetup(r) \/ \E s \in Sockets : Arrive(r, s)
        PROVE  HandInv'
    BY <1>9 DEF ChildSetup, Arrive
  <1> QED
    BY <1>1, <1>2, <1>3, <1>4, <1>5, <1>6, <1>7, <1>8, <1>9 DEF Next, Loop, Outside

\* A request leaves the queues only into the server's hands, or by the kernel.
LEMMA QueueLeft ==
    ASSUME LoopTypes, [Next]_vars, NEW r \in Requests, r \in Queued, r \notin Queued'
    PROVE  buf' = r \/ r \in dropped'
  <1>0. standalone' = standalone /\ Sockets' = Sockets
    BY DEF Next, Loop, Respawn, Outside, vars, Sockets
  <1>1. PICK s \in Sockets : r \in ToSet(queue[s])
    BY DEF Queued
  <1>2. r \notin ToSet(queue'[s])
    BY <1>0, <1>1 DEF Queued
  <1>3. queue' # queue
    BY <1>1, <1>2
  <1>4. CASE Read \/ ReadNothing \/ ReadForeign
    <2>1. queue[fd] # <<>> /\ queue' = [queue EXCEPT ![fd] = Tail(@)]
      BY <1>3, <1>4 DEF Read, ReadNothing, ReadForeign
    <2>2. s = fd
      BY <1>1, <1>2, <2>1 DEF LoopTypes
    <2>3. queue[fd] \in Seq(Requests) /\ queue'[fd] = Tail(queue[fd])
      BY <2>1 DEF LoopTypes
    <2>4. r = Head(queue[fd])
      BY <1>1, <1>2, <2>1, <2>2, <2>3, TailKeeps
    <2> QED
      BY <1>4, <2>1, <2>4 DEF Read, ReadNothing, ReadForeign
  <1>5. ASSUME NEW q \in Requests, NEW t \in Sockets, Arrive(q, t)
        PROVE  FALSE
    <2>1. queue[s] \in Seq(Requests)
      BY DEF LoopTypes
    <2>2. queue'[s] = queue[s] \/ queue'[s] = Append(queue[s], q)
      BY <1>5 DEF Arrive, LoopTypes
    <2> QED
      BY <1>1, <1>2, <2>1, <2>2, AppendKeeps
  <1>6. Read \/ ReadNothing \/ ReadForeign \/ \E q \in Requests, t \in Sockets : Arrive(q, t)
    BY <1>3 DEF Next, Loop, Outside, vars, Top, CheckHup, ReloadFails, EnterSelect,
                SelectReady, LoopFails, Fork, ForkFails, Respawn, SelectTimeout, SigTerm,
                SigHup, EditMap, ChildSetup
  <1> QED
    BY <1>4, <1>5, <1>6

\* A request leaves the server's hands only to its child, or because fork failed.
LEMMA HandLeft ==
    ASSUME LoopTypes, HandInv, [Next]_vars, NEW r \in Requests, buf = r, buf' # r
    PROVE  r \in Forked' \cup dropped'
  <1>1. pc = "fork"
    BY DispatcherAssumption DEF HandInv
  <1>2. CASE Fork
    <2>1. kids'[r].state = "setup"
      BY <1>2 DEF Fork, LoopTypes
    <2> QED
      BY <2>1 DEF Forked
  <1>3. CASE ForkFails
    BY <1>3 DEF ForkFails
  <1>4. Fork \/ ForkFails
    BY <1>1 DEF Next, Loop, Outside, vars, Top, CheckHup, ReloadFails, EnterSelect,
                SelectReady, Read, ReadNothing, ReadForeign, LoopFails, Respawn,
                SelectTimeout, SigTerm, SigHup, EditMap, ChildSetup, Arrive
  <1> QED
    BY <1>2, <1>3, <1>4

-----------------------------------------------------------------------------
(* The map file.                                                            *)

LEMMA RulesInit == Init => VersionInv /\ FlagInv /\ OnceInv /\ StaleRulesOnce
  <1> SUFFICES ASSUME Init
               PROVE  VersionInv /\ FlagInv /\ OnceInv /\ StaleRulesOnce
    OBVIOUS
  <1>1. \A x \in Requests : kids[x].rules = 0 /\ kids[x].asked = 0
    BY DEF Init, NoKid
  <1> QED
    BY <1>1, DispatcherAssumption
    DEF Init, VersionInv, FlagInv, OnceInv, StaleRulesOnce, StaleKid

\* Steps of the loop and of the environment that leave the children's rules alone, or
\* forget a child.
LEMMA KidsLeftAlone ==
    ASSUME LoopTypes, VersionInv, FlagInv, OnceInv, StaleRulesOnce,
           \A x \in Requests :
             \/ kids'[x].rules = kids[x].rules /\ kids'[x].asked = kids[x].asked
             \/ kids'[x].rules = 0 /\ kids'[x].asked = 0,
           rules' \in Nat, mapfile' \in Nat, asked' \in Nat,
           mapfile' <= MaxEdits, mapfile <= mapfile', rules' <= mapfile', asked' <= mapfile',
           asked <= asked',
           rules' < asked' => caught_sighup' \/ pc' = "stopped",
           \/ rules' >= asked'
           \/ asked' # asked
           \/ rules' = rules /\ (pc \in {"top", "hup", "stopped"} => pc' \in {"top", "hup", "stopped"})
    PROVE  VersionInv' /\ FlagInv' /\ OnceInv' /\ StaleRulesOnce'
  <1>0. \A x \in Requests : kids[x].rules \in Nat /\ kids[x].asked \in Nat
    BY DEF LoopTypes, Kids
  <1>1. VersionInv'
    <2>1. asked \in Nat /\ mapfile \in Nat
      BY DEF LoopTypes
    <2>2. ASSUME NEW x \in Requests
          PROVE  kids'[x].asked <= asked' /\ kids'[x].rules <= mapfile'
      <3>1. kids[x].asked <= asked /\ kids[x].rules <= mapfile
        BY DEF VersionInv
      <3>2. \/ kids'[x].rules = kids[x].rules /\ kids'[x].asked = kids[x].asked
            \/ kids'[x].rules = 0 /\ kids'[x].asked = 0
        OBVIOUS
      <3> QED
        BY <1>0, <2>1, <3>1, <3>2
    <2> QED
      BY <2>2 DEF VersionInv
  <1>2. FlagInv'
    BY DEF FlagInv
  <1>3. ASSUME NEW x \in Requests, StaleKid(x)', (kids[x].asked = asked)', (rules < asked)'
        PROVE  pc' \in {"top", "hup", "stopped"}
    <2>1. StaleKid(x) /\ kids[x].asked = asked'
      BY <1>3, DispatcherAssumption DEF StaleKid
    <2>2. asked' = asked
      BY <1>0, <2>1 DEF VersionInv, LoopTypes
    <2>3. rules' = rules
      BY <1>3, <2>2 DEF LoopTypes
    <2>4. pc \in {"top", "hup", "stopped"}
      BY <1>3, <2>1, <2>2, <2>3 DEF OnceInv
    <2> QED
      BY <1>3, <2>2, <2>4
  <1>4. OnceInv'
    BY <1>3 DEF OnceInv
  <1>5. StaleRulesOnce'
    BY DEF StaleRulesOnce
  <1> QED
    BY <1>1, <1>2, <1>4, <1>5

LEMMA RulesKept ==
    ASSUME LoopTypes, HandInv, VersionInv, FlagInv, OnceInv, StaleRulesOnce, [Next]_vars
    PROVE  VersionInv' /\ FlagInv' /\ OnceInv' /\ StaleRulesOnce'
  <1> DEFINE Old == {"top", "hup", "stopped"}
  <1>0. /\ rules \in Nat /\ mapfile \in Nat /\ asked \in Nat /\ MaxEdits \in Nat
        /\ mapfile <= MaxEdits /\ rules <= mapfile /\ asked <= mapfile
        /\ rules < asked => caught_sighup \/ pc = "stopped"
    BY DispatcherAssumption DEF LoopTypes, VersionInv, FlagInv
  <1>1. CASE UNCHANGED vars
    BY <1>0, <1>1, KidsLeftAlone DEF vars, signals
  <1>2. CASE Top \/ EnterSelect \/ SelectTimeout \/ SelectReady \/ LoopFails
    <2>1. UNCHANGED <<rules, asked, mapfile, kids, caught_sighup>> /\ pc # "stopped"
      BY <1>2 DEF Top, EnterSelect, SelectTimeout, SelectReady, LoopFails, signals
    <2>2. pc \in Old => pc' \in Old
      BY <1>2 DEF Top, EnterSelect, SelectTimeout, SelectReady, LoopFails
    <2> QED
      BY <1>0, <2>1, <2>2, KidsLeftAlone
  <1>3. CASE CheckHup
    <2>1. UNCHANGED <<asked, mapfile, kids>> /\ pc = "hup"
      BY <1>3 DEF CheckHup
    <2>2. CASE ~caught_sighup
      <3>1. UNCHANGED rules /\ rules >= asked
        BY <1>0, <1>3, <2>1, <2>2 DEF CheckHup
      <3> QED
        BY <1>0, <2>1, <3>1, KidsLeftAlone
    <2>3. CASE caught_sighup /\ standalone
      <3>1. rules' = mapfile
        BY <1>3, <2>3 DEF CheckHup
      <3> QED
        BY <1>0, <2>1, <3>1, KidsLeftAlone
    <2>4. CASE caught_sighup /\ ~standalone
      <3>1. UNCHANGED rules /\ pc' = "stopped"
        BY <1>3, <2>4 DEF CheckHup
      <3> QED
        BY <1>0, <2>1, <3>1, KidsLeftAlone
    <2> QED
      BY <2>2, <2>3, <2>4
  <1>4. CASE ReloadFails \/ ForkFails
    <2>1. UNCHANGED <<rules, asked, mapfile, kids>> /\ pc' = "stopped"
      BY <1>4 DEF ReloadFails, ForkFails
    <2> QED
      BY <1>0, <2>1, KidsLeftAlone
  <1>5. CASE Respawn
    <2>1. UNCHANGED <<asked, mapfile, kids>> /\ rules' = mapfile
      BY <1>5 DEF Respawn
    <2> QED
      BY <1>0, <2>1, KidsLeftAlone
  <1>6. CASE Read \/ ReadNothing \/ ReadForeign
    <2>1. UNCHANGED <<rules, asked, mapfile, kids, caught_sighup>> /\ pc = "read"
      BY <1>6 DEF Read, ReadNothing, ReadForeign, signals
    <2> QED
      BY <1>0, <2>1, KidsLeftAlone
  <1>7. CASE Fork
    <2>1. /\ UNCHANGED <<rules, asked, mapfile, caught_sighup>>
          /\ pc = "fork" /\ pc' = "top" /\ buf \in Requests
          /\ kids' = [kids EXCEPT ![buf] = [state |-> "setup", rules |-> rules, asked |-> asked]]
      BY <1>7 DEF Fork, signals, AfterFork, HandInv, LoopTypes
    <2>2. /\ kids'[buf].rules = rules /\ kids'[buf].asked = asked
          /\ \A x \in Requests : x # buf => kids'[x] = kids[x]
      BY <2>1 DEF LoopTypes
    <2>3. VersionInv'
      BY <1>0, <2>1, <2>2 DEF VersionInv
    <2>4. FlagInv' /\ OnceInv'
      BY <1>0, <2>1 DEF FlagInv, OnceInv
    <2>5. ASSUME NEW x \in Requests, x # buf, kids'[x].rules < kids'[x].asked,
                 kids'[buf].rules < kids'[buf].asked
          PROVE  kids'[x].asked # kids'[buf].asked
      <3>1. kids'[x] = kids[x]
        BY <2>2, <2>5
      <3>2. StaleKid(x) /\ rules < asked
        BY <2>2, <2>5, <3>1 DEF StaleKid
      <3>3. kids[x].asked # asked
        BY <2>1, <3>2 DEF OnceInv
      <3> QED
        BY <2>2, <3>1, <3>3
    <2>6. StaleRulesOnce'
      <3> SUFFICES ASSUME NEW q \in Requests, NEW r \in Requests,
                          kids'[q].rules < kids'[q].asked,
                          kids'[r].rules < kids'[r].asked,
                          kids'[q].asked = kids'[r].asked
                   PROVE  q = r
        BY DEF StaleRulesOnce
      <3>1. CASE q = buf \/ r = buf
        BY <2>5, <3>1
      <3>2. CASE q # buf /\ r # buf
        <4>1. kids'[q] = kids[q] /\ kids'[r] = kids[r]
          BY <2>2, <3>2
        <4> QED
          BY <4>1 DEF StaleRulesOnce
      <3> QED
        BY <3>1, <3>2
    <2> QED
      BY <2>3, <2>4, <2>6
  <1>8. CASE SigTerm
    <2>1. UNCHANGED <<rules, asked, mapfile, kids, caught_sighup>> /\ pc # "stopped"
      BY <1>8 DEF SigTerm
    <2>2. pc \in Old => pc' \in Old
      BY <1>8 DEF SigTerm, Interrupt
    <2> QED
      BY <1>0, <2>1, <2>2, KidsLeftAlone
  <1>9. CASE SigHup
    <2>1. UNCHANGED <<rules, mapfile, kids>> /\ asked' = mapfile /\ caught_sighup'
      BY <1>9 DEF SigHup
    <2>2. pc \in Old => pc' \in Old
      BY <1>9 DEF SigHup, Interrupt
    <2> QED
      BY <1>0, <2>1, <2>2, KidsLeftAlone
  <1>10. CASE EditMap
    <2>1. /\ UNCHANGED <<rules, asked, kids, caught_sighup, pc>>
          /\ mapfile' = mapfile + 1 /\ mapfile < MaxEdits
      BY <1>10 DEF EditMap, signals
    <2> QED
      BY <1>0, <2>1, KidsLeftAlone
  <1>11. ASSUME NEW r \in Requests, ChildSetup(r)
         PROVE  VersionInv' /\ FlagInv' /\ OnceInv' /\ StaleRulesOnce'
    <2>1. UNCHANGED <<rules, asked, mapfile, caught_sighup, pc>>
      BY <1>11 DEF ChildSetup, signals
    <2>2. \A x \in Requests :
             kids'[x].rules = kids[x].rules /\ kids'[x].asked = kids[x].asked
      BY <1>11 DEF ChildSetup, LoopTypes, Kids
    <2> QED
      BY <1>0, <2>1, <2>2, KidsLeftAlone
  <1>12. ASSUME NEW r \in Requests, NEW s \in Sockets, Arrive(r, s)
         PROVE  VersionInv' /\ FlagInv' /\ OnceInv' /\ StaleRulesOnce'
    <2>1. UNCHANGED <<rules, asked, mapfile, caught_sighup, pc>>
      BY <1>12 DEF Arrive, signals
    <2>2. \A x \in Requests : kids'[x] = IF x = r THEN NoKid ELSE kids[x]
      BY <1>12 DEF Arrive, LoopTypes
    <2>3. \A x \in Requests :
             \/ kids'[x].rules = kids[x].rules /\ kids'[x].asked = kids[x].asked
             \/ kids'[x].rules = 0 /\ kids'[x].asked = 0
      BY <2>2 DEF NoKid
    <2> QED
      BY <1>0, <2>1, <2>3, KidsLeftAlone
  <1> QED
    BY <1>1, <1>2, <1>3, <1>4, <1>5, <1>6, <1>7, <1>8, <1>9, <1>10, <1>11, <1>12
    DEF Next, Loop, Outside

-----------------------------------------------------------------------------
(* Theorems.                                                                *)

\* The invariant holds in every behaviour of the loop, with any number of requests
\* on either socket, signals and edits, and with any of the faults.
LEMMA LoopInvHolds == Spec => []LoopInv
  <1>1. Init => LoopInv
    BY LoopTypesInit, HandInit, RulesInit DEF LoopInv
  <1>2. LoopInv /\ [Next]_vars => LoopInv'
    BY LoopTypesKept, HandKept, RulesKept DEF LoopInv
  <1> QED
    BY <1>1, <1>2, PTL DEF Spec

\* Every variable keeps its type; fd is a socket that this server has
\* (tftpd.c:869-874).
THEOREM DispatcherTypesHold == Spec => []TypeOK
  <1>1. LoopInv => TypeOK
    <2> SUFFICES ASSUME LoopInv
                 PROVE  TypeOK
      OBVIOUS
    <2>1. \A s \in Sockets : ToSet(queue[s]) \subseteq Requests
      BY DEF LoopInv, LoopTypes, ToSet
    <2>2. /\ rules \in 0 .. MaxEdits /\ mapfile \in 0 .. MaxEdits /\ asked \in 0 .. MaxEdits
          /\ \A x \in Requests : kids[x].rules \in 0 .. MaxEdits /\ kids[x].asked \in 0 .. MaxEdits
      BY DispatcherAssumption DEF LoopInv, LoopTypes, VersionInv, Kids
    <2>3. kids \in [Requests -> [state : {"none", "setup", "tftp", "exited"},
                                 rules : 0 .. MaxEdits, asked : 0 .. MaxEdits]]
      BY <2>2 DEF LoopInv, LoopTypes, Kids
    <2> QED
      BY <2>1, <2>2, <2>3 DEF TypeOK, LoopInv, LoopTypes, Pcs
  <1> QED
    BY <1>1, LoopInvHolds, PTL

\* No request is lost, however the signals come: one that leaves a queue is in the
\* server's hands or was dropped by the kernel, the server looks at its signals with
\* empty hands, and one that leaves its hands has a child or met a failed fork
\* (tftpd.c:787-789, 800-822).
THEOREM NoRequestLostHolds == Spec => NoRequestLost
  <1>1. LoopInv /\ [Next]_vars =>
            [\A r \in Requests :
               r \in Queued /\ r \notin Queued' => buf' = r \/ r \in dropped']_vars
    BY QueueLeft DEF LoopInv
  <1>2. LoopInv => (buf # None => pc = "fork")
    BY DEF LoopInv, HandInv
  <1>3. LoopInv /\ [Next]_vars =>
            [\A r \in Requests : buf = r /\ buf' # r => r \in Forked' \cup dropped']_vars
    BY HandLeft DEF LoopInv
  <1> QED
    BY <1>1, <1>2, <1>3, LoopInvHolds, PTL DEF Spec, NoRequestLost

\* After a SIGHUP at most one request is served with older rules than the map file
\* held then, for any number of signals, edits and requests (tftpd.c:809-822).
THEOREM StaleRulesOnceHolds == Spec => []StaleRulesOnce
  BY LoopInvHolds, PTL DEF LoopInv

=============================================================================
