--------------------------- MODULE RequestProofs ---------------------------
(***************************************************************************)
(* Theorems about Request, for any number of children, files and chunks:   *)
(* the advisory lock of lock_file, taken between fstat and ftruncate, is   *)
(* enough to keep uploads apart and files still under their readers.       *)
(***************************************************************************)
EXTENDS Request, SequenceTheorems, TLAPS

-----------------------------------------------------------------------------
(* The inductive invariant.                                                 *)

Writers == Kids \cup {Old}
FileStates == [exists : BOOLEAN, others : BOOLEAN, data : Seq(Writers)]

\* A request is being served.
Busy == {"open", "fstat", "lock", "perms", "truncate", "options", "transfer", "dally"}

\* The child holds its lock.
Holding == {"perms", "truncate", "options", "transfer"}

TypeInv ==
    /\ rpc \in [Kids -> RPcs]
    /\ req \in [Kids -> Requests \cup {NoReq}]
    /\ file \in [Files -> FileStates]
    /\ lock \in [Kids -> {"none", "rd", "wr"}]
    /\ st_size \in [Kids -> Nat] /\ tsize \in [Kids -> Nat]
    /\ pos \in [Kids -> Nat]
    /\ got \in [Kids -> Seq(Writers)]

\* A child that serves a request holds the lock of its kind from lock_file on.
LockRight(k) ==
    /\ rpc[k] \in Busy => req[k] \in Requests
    /\ rpc[k] = "truncate" => req[k].op = WRQ
    /\ lock[k] = IF rpc[k] \notin Holding THEN "none"
                 ELSE IF req[k].op = RRQ THEN "rd" ELSE "wr"

LockInv == \A k \in Kids : LockRight(k)

\* fcntl: whoever else locks the file of a writer does not get it.
ExclusionInv ==
    \A j, k \in Kids :
        j # k /\ lock[j] = "wr" /\ lock[k] # "none" => req[j].file # req[k].file

\* Files stay within their bound, and so do the sizes that fstat finds.
SizeInv ==
    /\ \A f \in Files : Len(file[f].data) =< MaxSize
    /\ \A k \in Kids : rpc[k] \in {"lock", "perms"} => st_size[k] =< MaxSize
    /\ \A k \in Kids : rpc[k] \in {"options", "transfer"} => tsize[k] =< MaxSize

\* One writer only, in every file.
UnmixedInv ==
    \A f \in Files : \A i, j \in 1 .. Len(file[f].data) : file[f].data[i] = file[f].data[j]

\* What a child has done to its file, or read of it.
StartsAtZero(k) ==
    rpc[k] \in ({"idle"} \cup Busy) \ {"transfer", "dally"} => pos[k] = 0 /\ got[k] = <<>>

WroteOwn(k) ==
    rpc[k] \in {"options", "transfer"} /\ req[k].op = WRQ =>
        Len(Data(k)) = pos[k] /\ \A i \in 1 .. pos[k] : Data(k)[i] = k

ReadPrefix(k) ==
    rpc[k] = "transfer" /\ req[k].op = RRQ =>
        /\ Len(got[k]) = pos[k] /\ pos[k] =< Len(Data(k))
        /\ \A i \in 1 .. pos[k] : got[k][i] = Data(k)[i]

OffsetInv ==
    \A k \in Kids :
        /\ pos[k] =< MaxSize /\ Len(got[k]) =< MaxSize
        /\ StartsAtZero(k) /\ WroteOwn(k) /\ ReadPrefix(k)

RequestInv == TypeInv /\ LockInv /\ ExclusionInv /\ SizeInv /\ UnmixedInv /\ OffsetInv

-----------------------------------------------------------------------------
(* Types, and what a step of one child leaves to the others.                *)

\* What write leaves in a file is a sequence of chunks again.
LEMMA WrittenType ==
    ASSUME TypeInv, NEW k \in Kids, req[k] \in Requests
    PROVE  /\ Data(k) \in Seq(Writers) /\ Len(Data(k)) \in Nat
           /\ Written(k) \in Seq(Writers)
  <1>1. req[k].file \in Files
    BY DEF Requests
  <1>2. Data(k) \in Seq(Writers) /\ k \in Writers
    BY <1>1 DEF TypeInv, FileStates, Data, Writers
  <1>3. CASE pos[k] < Len(Data(k))
    <2>1. pos[k] + 1 \in 1 .. Len(Data(k))
      BY <1>2, <1>3 DEF TypeInv
    <2> QED BY <1>2, <1>3, <2>1, ExceptSeq DEF Written
  <1>4. CASE ~(pos[k] < Len(Data(k)))
    BY <1>2, <1>4 DEF Written
  <1> QED BY <1>2, <1>3, <1>4

LEMMA TypeInit == RequestInit => TypeInv
  <1> SUFFICES ASSUME RequestInit PROVE TypeInv
    OBVIOUS
  <1>1. file \in [Files -> FileStates]
    <2>1. [i \in 1 .. MaxSize |-> Old] \in Seq(Writers) /\ <<>> \in Seq(Writers)
      BY RequestAssumption DEF Writers
    <2>2. \A d \in Seq(Writers) :
            /\ [exists : {TRUE}, others : BOOLEAN, data : {d}] \subseteq FileStates
            /\ [exists |-> FALSE, others |-> FALSE, data |-> d] \in FileStates
      BY DEF FileStates
    <2> QED BY <2>1, <2>2 DEF RequestInit
  <1>2. NoSize \in Nat /\ <<>> \in Seq(Writers)
    BY RequestAssumption DEF NoSize
  <1> QED BY <1>1, <1>2 DEF RequestInit, TypeInv, RPcs

LEMMA TypeStep ==
    ASSUME TypeInv, LockInv, NEW k \in Kids, Step(k)
    PROVE  TypeInv'
  <1>1. rpc' \in [Kids -> RPcs] /\ lock' \in [Kids -> {"none", "rd", "wr"}]
    BY DEF TypeInv, Step, Begin, Reject, Open, Fstat, LockFile, CheckPerms, Truncate, TruncateFails,
           OptionsAccepted, OptionsRefused, WriteChunk, CloseWritten, ReadChunk, EndRead, Leave,
           ExitWith, Goto, RPcs
  <1>2. req' \in [Kids -> Requests \cup {NoReq}]
    BY DEF TypeInv, Step, Begin, Reject, Open, Fstat, LockFile, CheckPerms, Truncate, TruncateFails,
           OptionsAccepted, OptionsRefused, WriteChunk, CloseWritten, ReadChunk, EndRead, Leave
  <1>3. rpc[k] \in Busy => req[k] \in Requests /\ req[k].file \in Files
    BY DEF LockInv, LockRight, Requests
  <1>4. st_size' \in [Kids -> Nat] /\ tsize' \in [Kids -> Nat]
    <2>1. CASE Fstat(k)
      <3>1. StatSize(k) \in Nat
        BY <1>3, <2>1, WrittenType DEF Fstat, StatSize, Busy
      <3> QED BY <2>1, <3>1 DEF Fstat, TypeInv
    <2>2. CASE CheckPerms(k)
      BY <2>2 DEF CheckPerms, TypeInv
    <2>3. CASE Truncate(k)
      BY <2>3 DEF Truncate, TypeInv
    <2>4. CASE ~Fstat(k) /\ ~CheckPerms(k) /\ ~Truncate(k)
      BY <2>4 DEF TypeInv, Step, Begin, Reject, Open, LockFile, TruncateFails, OptionsAccepted,
             OptionsRefused, WriteChunk, CloseWritten, ReadChunk, EndRead, Leave
    <2> QED BY <2>1, <2>2, <2>3, <2>4
  <1>5. pos' \in [Kids -> Nat]
    BY DEF TypeInv, Step, Begin, Reject, Open, Fstat, LockFile, CheckPerms, Truncate, TruncateFails,
           OptionsAccepted, OptionsRefused, WriteChunk, CloseWritten, ReadChunk, EndRead, Leave
  <1>6. got' \in [Kids -> Seq(Writers)]
    <2>1. CASE ReadChunk(k)
      <3>1. Data(k) \in Seq(Writers)
        BY <1>3, <2>1, WrittenType DEF ReadChunk, Busy
      <3>2. Data(k)[pos[k] + 1] \in Writers
        BY <2>1, <3>1 DEF ReadChunk, TypeInv
      <3> QED BY <2>1, <3>2 DEF ReadChunk, TypeInv
    <2>2. CASE ~ReadChunk(k)
      BY <2>2 DEF TypeInv, Step, Begin, Reject, Open, Fstat, LockFile, CheckPerms, Truncate,
             TruncateFails, OptionsAccepted, OptionsRefused, WriteChunk, CloseWritten, EndRead, Leave
    <2> QED BY <2>1, <2>2
  <1>7. file' \in [Files -> FileStates]
    <2>1. \A g \in Files, d \in Seq(Writers) : [file EXCEPT ![g].data = d] \in [Files -> FileStates]
      BY DEF TypeInv, FileStates
    <2>2. \A g \in Files :
            [file EXCEPT ![g].exists = TRUE, ![g].others = TRUE] \in [Files -> FileStates]
      BY Zenon DEF TypeInv, FileStates
    <2>3. CASE Open(k)
      BY <1>3, <2>2, <2>3 DEF Open, Busy, TypeInv
    <2>4. CASE Truncate(k)
      <3>1. <<>> \in Seq(Writers)
        OBVIOUS
      <3> QED BY <1>3, <2>1, <2>4, <3>1 DEF Truncate, Truncated, Busy
    <2>5. CASE WriteChunk(k)
      BY <1>3, <2>1, <2>5, WrittenType DEF WriteChunk, Busy
    <2>6. CASE ~Open(k) /\ ~Truncate(k) /\ ~WriteChunk(k)
      BY <2>6 DEF TypeInv, Step, Begin, Reject, Fstat, LockFile, CheckPerms, TruncateFails,
             OptionsAccepted, OptionsRefused, CloseWritten, ReadChunk, EndRead, Leave
    <2> QED BY <2>3, <2>4, <2>5, <2>6
  <1> QED BY <1>1, <1>2, <1>4, <1>5, <1>6, <1>7 DEF TypeInv

\* A step changes nothing of another child.
LEMMA OthersKept ==
    ASSUME TypeInv, NEW k \in Kids, Step(k), NEW j \in Kids, j # k
    PROVE  /\ rpc'[j] = rpc[j] /\ req'[j] = req[j] /\ lock'[j] = lock[j]
           /\ st_size'[j] = st_size[j] /\ tsize'[j] = tsize[j]
           /\ pos'[j] = pos[j] /\ got'[j] = got[j]
  <1>1. rpc'[j] = rpc[j] /\ req'[j] = req[j] /\ lock'[j] = lock[j]
    BY DEF TypeInv, Step, Begin, Reject, Open, Fstat, LockFile, CheckPerms, Truncate, TruncateFails,
           OptionsAccepted, OptionsRefused, WriteChunk, CloseWritten, ReadChunk, EndRead, Leave,
           ExitWith, Goto
  <1>2. st_size'[j] = st_size[j] /\ tsize'[j] = tsize[j] /\ pos'[j] = pos[j] /\ got'[j] = got[j]
    BY DEF TypeInv, Step, Begin, Reject, Open, Fstat, LockFile, CheckPerms, Truncate, TruncateFails,
           OptionsAccepted, OptionsRefused, WriteChunk, CloseWritten, ReadChunk, EndRead, Leave
  <1> QED BY <1>1, <1>2

\* Only ftruncate and write change what is in a file.
LEMMA DataKept ==
    ASSUME TypeInv, LockInv, NEW k \in Kids, Step(k), ~Truncate(k), ~WriteChunk(k), NEW f \in Files
    PROVE  file'[f].data = file[f].data
  <1>1. CASE Open(k)
    <2>1. req[k].file \in Files
      BY <1>1 DEF Open, LockInv, LockRight, Busy, Requests
    <2>2. \/ file' = file
          \/ file' = [file EXCEPT ![req[k].file].exists = TRUE, ![req[k].file].others = TRUE]
      BY <1>1 DEF Open
    <2>3. \A x \in FileStates : [x EXCEPT !.exists = TRUE, !.others = TRUE].data = x.data
      BY DEF FileStates
    <2>4. file[f] \in FileStates /\ DOMAIN file = Files
      BY DEF TypeInv
    <2>5. \/ file'[f] = file[f]
          \/ file'[f] = [file[f] EXCEPT !.exists = TRUE, !.others = TRUE]
      BY <2>1, <2>2, <2>4, Zenon
    <2> QED BY <2>3, <2>4, <2>5
  <1>2. CASE ~Open(k)
    BY <1>2 DEF Step, Begin, Reject, Fstat, LockFile, CheckPerms, TruncateFails, OptionsAccepted,
           OptionsRefused, CloseWritten, ReadChunk, EndRead, Leave
  <1> QED BY <1>1, <1>2

-----------------------------------------------------------------------------
(* The lock.                                                                *)

\* The child's own lock after each of its steps.
LEMMA OwnLock ==
    ASSUME TypeInv, LockInv, NEW k \in Kids, Step(k)
    PROVE  LockRight(k)'
  <1>1. LockRight(k) /\ k \in DOMAIN rpc /\ k \in DOMAIN lock /\ k \in DOMAIN req
    BY DEF LockInv, TypeInv
  <1> USE <1>1 DEF LockRight, Goto, ExitWith, Busy, Holding
  <1>2. ASSUME NEW r \in Requests, Begin(k, r) PROVE LockRight(k)'
    BY <1>2 DEF Begin
  <1>3. CASE Reject(k) \/ TruncateFails(k) \/ OptionsRefused(k) \/ EndRead(k) \/ Leave(k)
             \/ CloseWritten(k)
    BY <1>3 DEF Reject, TruncateFails, OptionsRefused, EndRead, Leave, CloseWritten
  <1>4. CASE Open(k)
    <2>1. \/ Goto(k, "fstat") /\ UNCHANGED <<lock, req>>
          \/ ExitWith(k) /\ UNCHANGED req
      BY <1>4 DEF Open
    <2> QED BY <1>4, <2>1 DEF Open
  <1>5. CASE Fstat(k) \/ Truncate(k) \/ OptionsAccepted(k)
    BY <1>5 DEF Fstat, Truncate, OptionsAccepted
  <1>6. CASE LockFile(k)
    BY <1>6 DEF LockFile
  <1>7. CASE CheckPerms(k)
    <2>1. \/ ExitWith(k)
          \/ req[k].op = RRQ /\ Goto(k, "options") /\ UNCHANGED lock
          \/ Goto(k, "truncate") /\ UNCHANGED lock /\ req[k].op # RRQ
      BY <1>7 DEF CheckPerms
    <2>2. UNCHANGED req /\ rpc[k] = "perms" /\ req[k] \in Requests
      BY <1>7 DEF CheckPerms
    <2> QED BY <2>1, <2>2 DEF Requests, RRQ, WRQ
  <1>8. CASE WriteChunk(k) \/ ReadChunk(k)
    BY <1>8 DEF WriteChunk, ReadChunk
  <1> QED
    BY <1>2, <1>3, <1>4, <1>5, <1>6, <1>7, <1>8 DEF Step

LEMMA LockStep ==
    ASSUME TypeInv, LockInv, NEW k \in Kids, Step(k)
    PROVE  LockInv'
  <1>1. ASSUME NEW j \in Kids, j # k PROVE LockRight(j)'
    BY <1>1, OthersKept DEF LockInv, LockRight
  <1> QED BY <1>1, OwnLock DEF LockInv

\* F_SETLK refuses a lock that conflicts; every other step keeps or drops one.
LEMMA ExclusionStep ==
    ASSUME TypeInv, LockInv, ExclusionInv, NEW k \in Kids, Step(k)
    PROVE  ExclusionInv'
  <1>1. \A j \in Kids \ {k} : lock'[j] = lock[j] /\ req'[j] = req[j]
    BY OthersKept
  <1>2. CASE LockFile(k) /\ ~Conflicts(k)
    <2>1. req' = req /\ lock'[k] = IF req[k].op = RRQ THEN "rd" ELSE "wr"
      BY <1>2 DEF LockFile, TypeInv
    <2>2. req[k] \in Requests
      BY <1>2 DEF LockFile, LockInv, LockRight, Busy
    <2>3. \A j \in Kids \ {k} : lock[j] # "none" /\ (lock[j] = "wr" \/ lock'[k] = "wr") =>
                                  req[j].file # req[k].file
      BY <1>2, <2>1, <2>2 DEF Conflicts, Requests, RRQ, WRQ
    <2> QED BY <1>1, <2>1, <2>3 DEF ExclusionInv
  <1>3. CASE ~(LockFile(k) /\ ~Conflicts(k))
    <2>1. lock'[k] = "none" \/ (lock'[k] = lock[k] /\ req'[k] = req[k])
      <3>1. CASE \E r \in Requests : Begin(k, r)
        BY <3>1 DEF Begin, LockInv, LockRight, Holding
      <3>2. CASE ~(\E r \in Requests : Begin(k, r))
        BY <1>3, <3>2 DEF TypeInv, Step, Reject, Open, Fstat, LockFile, CheckPerms, Truncate,
               TruncateFails, OptionsAccepted, OptionsRefused, WriteChunk, CloseWritten, ReadChunk,
               EndRead, Leave, ExitWith, Goto
      <3> QED BY <3>1, <3>2
    <2> QED BY <1>1, <2>1 DEF ExclusionInv
  <1> QED BY <1>2, <1>3

-----------------------------------------------------------------------------
(* The files.                                                               *)

\* What a step does to the data of a file: nothing, or the writer that holds the lock
\* truncates it, or adds its next chunk at the end.
Truncates(k, f) ==
    /\ rpc[k] = "truncate" /\ req[k].op = WRQ /\ f = req[k].file
    /\ file'[f].data = <<>>
    /\ rpc'[k] = "options" /\ UNCHANGED <<req, pos, got, lock>>

Appends(k, f) ==
    /\ rpc[k] = "transfer" /\ req[k].op = WRQ /\ f = req[k].file /\ Len(file[f].data) < MaxSize
    /\ file'[f].data = Append(file[f].data, k)
    /\ pos'[k] = pos[k] + 1 /\ UNCHANGED <<rpc, req, got, lock>>

LEMMA FileStep ==
    ASSUME RequestInv, NEW k \in Kids, Step(k), NEW f \in Files
    PROVE  file'[f].data = file[f].data \/ Truncates(k, f) \/ Appends(k, f)
  <1>1. TypeInv /\ LockInv /\ OffsetInv /\ LockRight(k)
    BY DEF RequestInv, LockInv
  <1>2. CASE ~Truncate(k) /\ ~WriteChunk(k)
    BY <1>1, <1>2, DataKept
  <1>3. CASE Truncate(k)
    <2>1. req[k].op = WRQ /\ req[k] \in Requests
      BY <1>1, <1>3 DEF Truncate, LockRight, Busy
    <2>2. file' = [file EXCEPT ![req[k].file].data = <<>>] /\ rpc[k] = "truncate"
          /\ rpc'[k] = "options" /\ UNCHANGED <<req, pos, got, lock>>
      BY <1>1, <1>3 DEF Truncate, Truncated, Goto, TypeInv
    <2>3. f = req[k].file => file'[f].data = <<>>
      BY <1>1, <2>2 DEF TypeInv, FileStates
    <2>4. f # req[k].file => file'[f] = file[f]
      BY <1>1, <2>2 DEF TypeInv
    <2> QED BY <2>1, <2>2, <2>3, <2>4 DEF Truncates
  <1>4. CASE WriteChunk(k)
    <2>1. /\ rpc[k] = "transfer" /\ req[k].op = WRQ /\ pos[k] < MaxSize
          /\ file' = [file EXCEPT ![req[k].file].data = Written(k)]
          /\ pos'[k] = pos[k] + 1 /\ UNCHANGED <<rpc, req, got, lock>>
      BY <1>1, <1>4 DEF WriteChunk, TypeInv
    <2>2. Len(Data(k)) = pos[k] /\ pos[k] \in Nat
      BY <1>1, <2>1 DEF OffsetInv, WroteOwn, TypeInv
    <2>3. Written(k) = Append(Data(k), k)
      BY <2>2 DEF Written
    <2>4. f = req[k].file => Appends(k, f)
      <3> SUFFICES ASSUME f = req[k].file PROVE Appends(k, f)
        OBVIOUS
      <3>1. file'[f].data = Append(Data(k), k)
        BY <1>1, <2>1, <2>3 DEF TypeInv, FileStates
      <3> QED BY <2>1, <2>2, <3>1 DEF Appends, Data
    <2>5. f # req[k].file => file'[f] = file[f]
      BY <1>1, <2>1 DEF TypeInv
    <2> QED BY <2>4, <2>5
  <1> QED BY <1>2, <1>3, <1>4

\* Whoever holds a lock finds its file as it was after a step of another child.
LEMMA LockedDataKept ==
    ASSUME RequestInv, NEW k \in Kids, Step(k), NEW j \in Kids, j # k, rpc[j] \in Holding
    PROVE  Data(j)' = Data(j)
  <1>1. TypeInv /\ LockRight(j) /\ LockRight(k) /\ ExclusionInv
    BY DEF RequestInv, LockInv
  <1>2. req'[j] = req[j] /\ req[j] \in Requests /\ req[j].file \in Files
    BY <1>1, OthersKept DEF LockRight, Holding, Busy, Requests
  <1>3. lock[j] # "none"
    BY <1>1 DEF LockRight
  <1>4. ASSUME rpc[k] \in {"truncate", "transfer"}, req[k].op = WRQ
        PROVE  req[j].file # req[k].file
    <2>1. lock[k] = "wr"
      BY <1>1, <1>4 DEF LockRight, Holding, WRQ, RRQ
    <2> QED BY <1>1, <1>3, <2>1 DEF ExclusionInv
  <1>5. file'[req[j].file].data = file[req[j].file].data
    BY <1>2, <1>4, FileStep DEF Truncates, Appends
  <1> QED BY <1>2, <1>5 DEF Data

LEMMA SizeStep ==
    ASSUME RequestInv, NEW k \in Kids, Step(k)
    PROVE  SizeInv'
  <1>1. TypeInv /\ LockInv /\ SizeInv /\ LockRight(k)
    BY DEF RequestInv, LockInv
  <1>2. ASSUME NEW f \in Files PROVE Len(file'[f].data) =< MaxSize
    <2>1. file[f].data \in Seq(Writers) /\ k \in Writers /\ MaxSize \in Nat
      BY <1>1, RequestAssumption DEF TypeInv, FileStates, Writers
    <2>2. CASE file'[f].data = file[f].data
      BY <1>1, <2>2 DEF SizeInv
    <2>3. CASE Truncates(k, f)
      BY <2>1, <2>3 DEF Truncates
    <2>4. CASE Appends(k, f)
      BY <2>1, <2>4 DEF Appends
    <2> QED BY <2>2, <2>3, <2>4, FileStep
  <1>3. ASSUME NEW j \in Kids, j # k
        PROVE  /\ rpc'[j] \in {"lock", "perms"} => st_size'[j] =< MaxSize
               /\ rpc'[j] \in {"options", "transfer"} => tsize'[j] =< MaxSize
    BY <1>1, <1>3, OthersKept DEF SizeInv
  <1>4. /\ rpc'[k] \in {"lock", "perms"} => st_size'[k] =< MaxSize
        /\ rpc'[k] \in {"options", "transfer"} => tsize'[k] =< MaxSize
    <2>1. CASE Fstat(k)
      <3>1. req[k].file \in Files
        BY <1>1, <2>1 DEF Fstat, LockRight, Busy, Requests
      <3>2. st_size'[k] = Len(Data(k)) /\ rpc'[k] = "lock"
        BY <1>1, <2>1 DEF Fstat, StatSize, Goto, TypeInv
      <3> QED BY <1>1, <3>1, <3>2 DEF SizeInv, Data
    <2>2. CASE CheckPerms(k)
      <3>1. \/ rpc'[k] = "gone" \/ rpc'[k] = "truncate"
            \/ rpc'[k] = "options" /\ tsize'[k] = st_size[k]
        BY <1>1, <2>2 DEF CheckPerms, ExitWith, Goto, TypeInv
      <3>2. rpc[k] = "perms"
        BY <2>2 DEF CheckPerms
      <3> QED BY <1>1, <3>1, <3>2 DEF SizeInv
    <2>3. CASE Truncate(k)
      <3>1. rpc'[k] = "options" /\ tsize'[k] = 0
        BY <1>1, <2>3 DEF Truncate, Goto, TypeInv
      <3> QED BY <3>1, RequestAssumption
    <2>4. CASE LockFile(k) \/ OptionsAccepted(k) \/ WriteChunk(k) \/ ReadChunk(k)
      BY <1>1, <2>4 DEF LockFile, OptionsAccepted, WriteChunk, ReadChunk, ExitWith, Goto, TypeInv,
                        SizeInv
    <2>5. CASE \/ (\E r \in Requests : Begin(k, r)) \/ Reject(k) \/ Open(k) \/ TruncateFails(k)
               \/ OptionsRefused(k) \/ CloseWritten(k) \/ EndRead(k) \/ Leave(k)
      <3>1. rpc'[k] \in {"open", "fstat", "dally", "gone"}
        BY <1>1, <2>5 DEF Begin, Reject, Open, TruncateFails, OptionsRefused, CloseWritten, EndRead,
                          Leave, ExitWith, Goto, TypeInv
      <3> QED BY <3>1
    <2> QED BY <2>1, <2>2, <2>3, <2>4, <2>5 DEF Step
  <1> QED BY <1>2, <1>3, <1>4 DEF SizeInv

LEMMA UnmixedStep ==
    ASSUME RequestInv, NEW k \in Kids, Step(k)
    PROVE  UnmixedInv'
  <1> SUFFICES ASSUME NEW f \in Files
               PROVE  \A i, j \in 1 .. Len(file'[f].data) : file'[f].data[i] = file'[f].data[j]
    BY DEF UnmixedInv
  <1>1. TypeInv /\ OffsetInv /\ UnmixedInv
    BY DEF RequestInv
  <1>2. CASE file'[f].data = file[f].data
    BY <1>1, <1>2 DEF UnmixedInv
  <1>3. CASE Truncates(k, f)
    BY <1>3 DEF Truncates
  <1>4. CASE Appends(k, f)
    <2>1. file[f].data \in Seq(Writers) /\ k \in Writers
      BY <1>1 DEF TypeInv, FileStates, Writers
    <2>2. \A i \in 1 .. Len(file[f].data) : file[f].data[i] = k
      BY <1>1, <1>4 DEF OffsetInv, WroteOwn, Appends, Data
    <2>3. \A i \in 1 .. Len(file'[f].data) : file'[f].data[i] = k
      BY <1>4, <2>1, <2>2 DEF Appends
    <2> QED BY <2>3
  <1> QED BY <1>2, <1>3, <1>4, FileStep


-----------------------------------------------------------------------------
(* Offsets, and what was read.                                              *)

OffsetRight(k) ==
    /\ pos[k] =< MaxSize /\ Len(got[k]) =< MaxSize
    /\ StartsAtZero(k) /\ WroteOwn(k) /\ ReadPrefix(k)

\* The steps of the child itself.
LEMMA OwnOffset ==
    ASSUME RequestInv, NEW k \in Kids, Step(k)
    PROVE  OffsetRight(k)'
  <1>1. TypeInv /\ LockInv /\ SizeInv /\ LockRight(k) /\ OffsetRight(k)
    BY DEF RequestInv, LockInv, OffsetInv, OffsetRight
  <1>2. k \in DOMAIN rpc /\ k \in DOMAIN pos /\ k \in DOMAIN got /\ pos[k] \in Nat
        /\ got[k] \in Seq(Writers) /\ MaxSize \in Nat
    BY <1>1, RequestAssumption DEF TypeInv
  \* A child that ends, or has not begun to transfer.
  <1>3. ASSUME pos'[k] = pos[k], got'[k] = got[k],
               \/ rpc'[k] \in {"gone", "dally"}
               \/ /\ rpc'[k] \in {"open", "fstat", "lock", "perms", "truncate"}
                  /\ rpc[k] \in ({"idle"} \cup Busy) \ {"transfer", "dally"}
        PROVE  OffsetRight(k)'
    BY <1>1, <1>3 DEF OffsetRight, StartsAtZero, WroteOwn, ReadPrefix, Busy
  <1>4. CASE \/ Reject(k) \/ TruncateFails(k) \/ OptionsRefused(k) \/ CloseWritten(k) \/ EndRead(k)
             \/ Leave(k)
    <2>1. pos'[k] = pos[k] /\ got'[k] = got[k] /\ rpc'[k] \in {"gone", "dally"}
      BY <1>2, <1>4 DEF Reject, TruncateFails, OptionsRefused, CloseWritten, EndRead, Leave, ExitWith,
                        Goto
    <2> QED BY <1>3, <2>1
  <1>5. CASE (\E r \in Requests : Begin(k, r)) \/ Open(k) \/ Fstat(k) \/ LockFile(k)
    <2>1. /\ pos'[k] = pos[k] /\ got'[k] = got[k]
          /\ rpc[k] \in {"idle", "open", "fstat", "lock"}
          /\ rpc'[k] \in {"open", "fstat", "lock", "perms", "gone"}
      BY <1>2, <1>5 DEF Begin, Open, Fstat, LockFile, ExitWith, Goto
    <2> QED BY <1>3, <2>1 DEF Busy
  <1>6. CASE CheckPerms(k)
    <2>1. /\ pos'[k] = pos[k] /\ got'[k] = got[k] /\ rpc[k] = "perms" /\ req' = req
          /\ rpc'[k] \in {"gone", "truncate"} \/ (rpc'[k] = "options" /\ req[k].op = RRQ)
      <3>1. \/ Goto(k, "gone") \/ Goto(k, "truncate")
            \/ Goto(k, "options") /\ req[k].op = RRQ
        BY <1>6 DEF CheckPerms, ExitWith
      <3>2. pos' = pos /\ got' = got /\ rpc[k] = "perms" /\ req' = req
        BY <1>6 DEF CheckPerms
      <3>3. \A to : Goto(k, to) => rpc'[k] = to
        BY <1>2 DEF Goto
      <3> QED BY <3>1, <3>2, <3>3
    <2>2. CASE rpc'[k] \in {"gone", "truncate"}
      BY <1>3, <2>1, <2>2 DEF Busy
    <2>3. CASE rpc'[k] = "options" /\ req[k].op = RRQ
      BY <1>1, <2>1, <2>3 DEF OffsetRight, StartsAtZero, WroteOwn, ReadPrefix, Busy, RRQ, WRQ
    <2> QED BY <2>1, <2>2, <2>3
  <1>7. CASE Truncate(k)
    <2>1. req[k].file \in Files /\ DOMAIN file = Files /\ file[req[k].file] \in FileStates
      BY <1>1, <1>7 DEF Truncate, LockRight, Busy, Requests, TypeInv
    <2>2. /\ pos' = pos /\ got' = got /\ req' = req /\ rpc[k] = "truncate" /\ rpc'[k] = "options"
          /\ file' = [file EXCEPT ![req[k].file].data = <<>>]
      BY <1>2, <1>7 DEF Truncate, Truncated, Goto
    <2>3. Data(k)' = <<>>
      BY <2>1, <2>2 DEF Data, FileStates
    <2>4. pos[k] = 0
      BY <1>1, <2>2 DEF OffsetRight, StartsAtZero, Busy
    <2> QED BY <1>1, <2>2, <2>3, <2>4 DEF OffsetRight, StartsAtZero, WroteOwn, ReadPrefix, Busy
  <1>8. CASE OptionsAccepted(k)
    <2>1. /\ pos' = pos /\ got' = got /\ req' = req /\ file' = file
          /\ rpc[k] = "options" /\ rpc'[k] = "transfer"
      BY <1>2, <1>8 DEF OptionsAccepted, Goto
    <2>2. req[k] \in Requests
      BY <1>1, <2>1 DEF LockRight, Busy
    <2>3. Len(Data(k)) \in Nat /\ Data(k)' = Data(k)
      BY <1>1, <2>1, <2>2, WrittenType DEF Data
    <2>4. pos[k] = 0 /\ got[k] = <<>>
      BY <1>1, <2>1 DEF OffsetRight, StartsAtZero, Busy
    <2> QED BY <1>1, <2>1, <2>3, <2>4 DEF OffsetRight, StartsAtZero, WroteOwn, ReadPrefix, Busy
  <1>9. CASE WriteChunk(k)
    <2>1. req[k].file \in Files /\ req[k] \in Requests
      BY <1>1, <1>9 DEF WriteChunk, LockRight, Busy, Requests
    <2>2. /\ rpc' = rpc /\ rpc[k] = "transfer" /\ req' = req /\ req[k].op = WRQ /\ got' = got
          /\ pos'[k] = pos[k] + 1 /\ pos[k] < MaxSize
          /\ file' = [file EXCEPT ![req[k].file].data = Written(k)]
      BY <1>2, <1>9 DEF WriteChunk
    <2>3. Data(k) \in Seq(Writers) /\ k \in Writers
      BY <1>1, <2>1, WrittenType DEF Writers
    <2>4. Len(Data(k)) = pos[k] /\ \A i \in 1 .. pos[k] : Data(k)[i] = k
      BY <1>1, <2>2 DEF OffsetRight, WroteOwn
    <2>5. Data(k)' = Append(Data(k), k)
      <3>1. Written(k) = Append(Data(k), k)
        BY <1>2, <2>4 DEF Written
      <3>2. Data(k)' = Written(k)
        BY <1>1, <2>1, <2>2 DEF TypeInv, FileStates, Data
      <3> QED BY <3>1, <3>2
    <2>6. Len(Data(k)') = pos'[k] /\ \A i \in 1 .. pos'[k] : Data(k)'[i] = k
      BY <1>2, <2>2, <2>3, <2>4, <2>5
    <2> QED BY <1>1, <1>2, <2>2, <2>6 DEF OffsetRight, StartsAtZero, WroteOwn, ReadPrefix, Busy, RRQ, WRQ
  <1>10. CASE ReadChunk(k)
    <2>1. req[k].file \in Files /\ req[k] \in Requests
      BY <1>1, <1>10 DEF ReadChunk, LockRight, Busy, Requests
    <2>2. /\ rpc' = rpc /\ rpc[k] = "transfer" /\ req' = req /\ req[k].op = RRQ /\ file' = file
          /\ pos'[k] = pos[k] + 1 /\ pos[k] < Len(Data(k))
          /\ got'[k] = Append(got[k], Data(k)[pos[k] + 1])
      BY <1>2, <1>10 DEF ReadChunk
    <2>3. Data(k) \in Seq(Writers) /\ Len(Data(k)) =< MaxSize /\ Data(k)' = Data(k)
      BY <1>1, <2>1, <2>2, WrittenType DEF SizeInv, Data
    <2>4. Len(got[k]) = pos[k] /\ \A i \in 1 .. pos[k] : got[k][i] = Data(k)[i]
      BY <1>1, <2>2 DEF OffsetRight, ReadPrefix
    <2>5. Data(k)[pos[k] + 1] \in Writers
      BY <1>2, <2>2, <2>3
    <2>6. Len(got'[k]) = pos'[k] /\ \A i \in 1 .. pos'[k] : got'[k][i] = Data(k)[i]
      BY <1>2, <2>2, <2>4, <2>5
    <2>7. pos'[k] =< Len(Data(k)) /\ pos'[k] =< MaxSize
      BY <1>2, <2>2, <2>3
    <2> QED BY <2>2, <2>3, <2>6, <2>7
            DEF OffsetRight, StartsAtZero, WroteOwn, ReadPrefix, Busy, RRQ, WRQ
  <1> QED BY <1>4, <1>5, <1>6, <1>7, <1>8, <1>9, <1>10 DEF Step

LEMMA OffsetStep ==
    ASSUME RequestInv, NEW k \in Kids, Step(k)
    PROVE  OffsetInv'
  <1>1. ASSUME NEW j \in Kids, j # k PROVE OffsetRight(j)'
    <2>1. TypeInv /\ OffsetRight(j)
      BY DEF RequestInv, OffsetInv, OffsetRight
    <2>2. rpc'[j] = rpc[j] /\ req'[j] = req[j] /\ pos'[j] = pos[j] /\ got'[j] = got[j]
      BY <1>1, <2>1, OthersKept
    <2>3. rpc[j] \in {"options", "transfer"} => Data(j)' = Data(j)
      BY <1>1, LockedDataKept DEF Holding
    <2> QED BY <2>1, <2>2, <2>3 DEF OffsetRight, StartsAtZero, WroteOwn, ReadPrefix
  <1> QED BY <1>1, OwnOffset DEF OffsetInv, OffsetRight

-----------------------------------------------------------------------------
(* The theorems.                                                            *)

LEMMA InvInit == RequestInit => RequestInv
  <1> SUFFICES ASSUME RequestInit PROVE RequestInv
    OBVIOUS
  <1>1. TypeInv
    BY TypeInit
  <1>2. LockInv /\ ExclusionInv
    BY DEF RequestInit, LockInv, LockRight, ExclusionInv, Busy, Holding
  <1>3. ASSUME NEW f \in Files
        PROVE  file[f].data = <<>> \/ file[f].data = [i \in 1 .. MaxSize |-> Old]
    <2> DEFINE d == [i \in 1 .. MaxSize |-> Old]
    <2>1. file[f] \in [exists : {TRUE}, others : BOOLEAN, data : {d}]
                      \cup {[exists |-> FALSE, others |-> FALSE, data |-> <<>>]}
      BY DEF RequestInit
    <2> HIDE DEF d
    <2>2. \A x : x \in [exists : {TRUE}, others : BOOLEAN, data : {d}] => x.data = d
      OBVIOUS
    <2>3. [exists |-> FALSE, others |-> FALSE, data |-> <<>>].data = <<>>
      OBVIOUS
    <2>4. file[f].data = d \/ file[f].data = <<>>
      BY <2>1, <2>2, <2>3, Zenon
    <2> QED BY <2>4 DEF d
  <1>4. Len([i \in 1 .. MaxSize |-> Old]) = MaxSize /\ MaxSize \in Nat
    BY RequestAssumption
  <1>5. SizeInv
    BY <1>3, <1>4 DEF RequestInit, SizeInv
  <1>6. UnmixedInv
    <2> SUFFICES ASSUME NEW f \in Files, NEW i \in 1 .. Len(file[f].data), NEW j \in 1 .. Len(file[f].data)
                 PROVE  file[f].data[i] = file[f].data[j]
      BY DEF UnmixedInv
    <2>1. CASE file[f].data = <<>>
      BY <2>1
    <2>2. CASE file[f].data = [n \in 1 .. MaxSize |-> Old]
      BY <1>4, <2>2
    <2> QED BY <1>3, <2>1, <2>2
  <1>7. OffsetInv
    BY <1>4 DEF RequestInit, OffsetInv, StartsAtZero, WroteOwn, ReadPrefix
  <1> QED BY <1>1, <1>2, <1>5, <1>6, <1>7 DEF RequestInv

LEMMA InvHolds == RequestInit /\ [][RequestNext]_requestVars => []RequestInv
  <1>1. RequestInv /\ [RequestNext]_requestVars => RequestInv'
    <2> SUFFICES ASSUME RequestInv, [RequestNext]_requestVars PROVE RequestInv'
      OBVIOUS
    <2>1. CASE UNCHANGED requestVars
      BY <2>1 DEF requestVars, RequestInv, TypeInv, LockInv, LockRight, ExclusionInv, SizeInv,
                  UnmixedInv, OffsetInv, StartsAtZero, WroteOwn, ReadPrefix, Data
    <2>2. ASSUME NEW k \in Kids, Step(k) PROVE RequestInv'
      <3>1. TypeInv /\ LockInv /\ ExclusionInv
        BY DEF RequestInv
      <3> QED BY <2>2, <3>1, TypeStep, LockStep, ExclusionStep, SizeStep, UnmixedStep, OffsetStep
              DEF RequestInv
    <2> QED BY <2>1, <2>2 DEF RequestNext
  <1> QED BY <1>1, InvInit, PTL

\* However many write requests race for a file, what lock_file and ftruncate leave in
\* it comes from one of them, or from whoever wrote it before (tftpd.c:1530 and 1551).
THEOREM NoMixedUploadHolds ==
    RequestInit /\ [][RequestNext]_requestVars => []NoMixedUpload
  <1>1. RequestInv => NoMixedUpload
    <2> SUFFICES ASSUME RequestInv, NEW f \in Files, NEW i \in 1 .. MaxSize, NEW j \in 1 .. MaxSize,
                        i =< Len(file[f].data), j =< Len(file[f].data)
                 PROVE  file[f].data[i] = file[f].data[j]
      BY DEF NoMixedUpload
    <2>1. file[f].data \in Seq(Writers) /\ MaxSize \in Nat
      BY RequestAssumption DEF RequestInv, TypeInv, FileStates
    <2>2. i \in 1 .. Len(file[f].data) /\ j \in 1 .. Len(file[f].data)
      BY <2>1
    <2> QED BY <2>2 DEF RequestInv, UnmixedInv
  <1> QED BY <1>1, InvHolds, PTL

\* The read lock of lock_file keeps a file as it is for as long as a child sends it:
\* no ftruncate and no write of another child comes in between (tftpd.c:1530, 1679).
THEOREM ReadStableHolds ==
    RequestInit /\ [][RequestNext]_requestVars => []ReadStable
  <1>1. RequestInv => ReadStable
    <2> SUFFICES ASSUME RequestInv, NEW k \in Kids, rpc[k] = "transfer", req[k].op = RRQ
                 PROVE  IsPrefix(got[k], Data(k))
      BY DEF ReadStable
    <2>1. TypeInv /\ LockRight(k) /\ ReadPrefix(k)
      BY DEF RequestInv, LockInv, OffsetInv
    <2>2. Data(k) \in Seq(Writers) /\ got[k] \in Seq(Writers)
      BY <2>1, WrittenType DEF LockRight, Busy, TypeInv
    <2>3. /\ Len(got[k]) = pos[k] /\ pos[k] =< Len(Data(k))
          /\ \A i \in 1 .. pos[k] : got[k][i] = Data(k)[i]
      BY <2>1 DEF ReadPrefix
    <2>4. SubSeq(got[k], 1, Len(got[k])) = SubSeq(Data(k), 1, Len(got[k]))
      <3> DEFINE n == Len(got[k])
                 s == SubSeq(got[k], 1, n)
                 t == SubSeq(Data(k), 1, n)
      <3>1. n \in Nat /\ n =< Len(Data(k)) /\ n =< Len(got[k])
        BY <2>2, <2>3
      <3>2. s \in Seq(Writers) /\ Len(s) = n /\ \A i \in 1 .. n : s[i] = got[k][i]
        BY <2>2, <3>1, SubSeqProperties
      <3>3. t \in Seq(Writers) /\ Len(t) = n /\ \A i \in 1 .. n : t[i] = Data(k)[i]
        BY <2>2, <3>1, SubSeqProperties
      <3>4. \A i \in 1 .. n : s[i] = t[i]
        BY <2>3, <3>2, <3>3
      <3> QED BY <3>2, <3>3, <3>4, SeqEqual
    <2> QED BY <2>3, <2>4 DEF IsPrefix
  <1> QED BY <1>1, InvHolds, PTL

\* Types, and the sizes that the options and the GUI are told: fstat before the lock and
\* ftruncate after it both leave one that the file can have (tftpd.c:1539 and 1556).
THEOREM RequestTypesHold ==
    RequestInit /\ [][RequestNext]_requestVars => []RequestTypeOK
  <1>1. ASSUME NEW s \in Seq(Writers), Len(s) =< MaxSize
        PROVE  s \in BoundedSeq(Kids \cup {Old}, MaxSize)
    <2>1. Len(s) \in 0 .. MaxSize /\ s \in [1 .. Len(s) -> Kids \cup {Old}]
      BY <1>1, RequestAssumption DEF Writers
    <2> QED BY <2>1 DEF BoundedSeq, SeqOf
  <1>2. RequestInv => RequestTypeOK
    <2> SUFFICES ASSUME RequestInv PROVE RequestTypeOK
      OBVIOUS
    <2>1. TypeInv /\ SizeInv /\ OffsetInv /\ MaxSize \in Nat
      BY RequestAssumption DEF RequestInv
    <2>2. ASSUME NEW f \in Files
          PROVE  /\ file[f].exists \in BOOLEAN /\ file[f].others \in BOOLEAN
                 /\ file[f].data \in BoundedSeq(Kids \cup {Old}, MaxSize)
      <3>1. file[f] \in FileStates
        BY <2>1 DEF TypeInv
      <3>2. file[f].exists \in BOOLEAN /\ file[f].others \in BOOLEAN
        BY <3>1, Zenon DEF FileStates
      <3>3. file[f].data \in Seq(Writers) /\ Len(file[f].data) =< MaxSize
        BY <2>1, <3>1 DEF FileStates, SizeInv
      <3> QED BY <1>1, <3>2, <3>3
    <2>3. pos \in [Kids -> 0 .. MaxSize]
      BY <2>1 DEF TypeInv, OffsetInv
    <2>4. got \in [Kids -> BoundedSeq(Kids \cup {Old}, MaxSize)]
      BY <1>1, <2>1 DEF TypeInv, OffsetInv
    <2>5. \A k \in Kids : rpc[k] \in {"options", "transfer"} => tsize[k] \in 0 .. MaxSize
      BY <2>1 DEF TypeInv, SizeInv
    <2> QED BY <2>1, <2>2, <2>3, <2>4, <2>5 DEF TypeInv, RequestTypeOK
  <1> QED BY <1>2, InvHolds, PTL

=============================================================================
