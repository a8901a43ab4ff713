------------------------------ MODULE Request ------------------------------
(***************************************************************************)
(* Children of the server that open, lock and truncate the same files:     *)
(* tftp, validate_access and lock_file (tftpd.c), and what tftp_sendfile   *)
(* and tftp_recvfile do to the file afterwards.  The options of a request  *)
(* are only accepted or refused here; module Options says which.           *)
(*                                                                         *)
(* A file is a sequence of chunks, each known by the child that wrote it.  *)
(* Every child has its own descriptor and offset.  A duplicated packet is  *)
(* one more child with the same request.                                   *)
(***************************************************************************)
EXTENDS Naturals, Sequences, SequencesExt

CONSTANTS
    Kids,       \* children, one request each
    Files,      \* file names
    Old,        \* who wrote what is in the files at first
    CanCreate,  \* cancreate: option -c
    UnixPerms,  \* unixperms: option -p
    MaxSize     \* bound: chunks in a file

ASSUME RequestAssumption ==
    /\ CanCreate \in BOOLEAN /\ UnixPerms \in BOOLEAN
    /\ MaxSize \in Nat \ {0}
    /\ Old \notin Kids

VARIABLES
    rpc,        \* where tftp and its callees are
    req,        \* the request: opcode and file
    file,       \* each file: does it exist, its permissions for others, its chunks
    lock,       \* the fcntl lock of each child on its file
    st_size,    \* stbuf.st_size
    tsize,      \* tsize: the size that the OACK and the GUI are told
    pos,        \* offset of the child's descriptor
    got         \* chunks that a reader has sent

requestVars == <<rpc, req, file, lock, st_size, tsize, pos, got>>

RRQ == "RRQ"
WRQ == "WRQ"
Requests == [op : {RRQ, WRQ}, file : Files]
NoReq == [op |-> "none"]
NoSize == MaxSize + 1       \* not set yet

RPcs == {"idle", "open", "fstat", "lock", "perms", "truncate", "options", "transfer",
         "dally", "gone"}

Data(k) == file[req[k].file].data
Goto(k, to) == rpc' = [rpc EXCEPT ![k] = to]

\* exit: the kernel closes the descriptor, which drops the lock.
ExitWith(k) ==
    /\ Goto(k, "gone")
    /\ lock' = [lock EXCEPT ![k] = "none"]

-----------------------------------------------------------------------------
(* validate_access                                                          *)

\* A request with a known mode and a name that the rules and the path checks let by.
Begin(k, r) ==
    /\ rpc[k] = "idle"
    /\ req' = [req EXCEPT ![k] = r]
    /\ Goto(k, "open")
    /\ UNCHANGED <<file, lock, st_size, tsize, pos, got>>

\* Any other request is answered with an error.
Reject(k) ==
    /\ rpc[k] = "idle"
    /\ ExitWith(k)
    /\ UNCHANGED <<req, file, st_size, tsize, pos, got>>

\* open(2): only a write request may create the file, which is then open to all.
Open(k) ==
    /\ rpc[k] = "open"
    /\ LET f == req[k].file
       IN  CASE file[f].exists -> Goto(k, "fstat") /\ UNCHANGED <<file, lock>>
             [] ~file[f].exists /\ req[k].op = WRQ /\ CanCreate ->
                  /\ file' = [file EXCEPT ![f].exists = TRUE, ![f].others = TRUE]
                  /\ Goto(k, "fstat")
                  /\ UNCHANGED lock
             [] OTHER -> ExitWith(k) /\ UNCHANGED file
    /\ UNCHANGED <<req, st_size, tsize, pos, got>>

StatSize(k) == Len(Data(k))

Fstat(k) ==
    /\ rpc[k] = "fstat"
    /\ st_size' = [st_size EXCEPT ![k] = StatSize(k)]
    /\ Goto(k, "lock")
    /\ UNCHANGED <<req, file, lock, tsize, pos, got>>

\* Faulty variant: a reader is no obstacle to a writer.
ConflictsWriteOnly(k) ==
    \E j \in Kids \ {k} :
        lock[j] = "wr" /\ req[k].file = req[j].file

\* fcntl(F_SETLK): a write lock excludes every other lock.
Conflicts(k) ==
    \E j \in Kids \ {k} :
        /\ lock[j] # "none" /\ req[k].file = req[j].file
        /\ lock[j] = "wr" \/ req[k].op = WRQ

\* lock_file; without the lock the child exits and says nothing.
LockFile(k) ==
    /\ rpc[k] = "lock"
    /\ IF Conflicts(k)
         THEN ExitWith(k)
         ELSE /\ lock' = [lock EXCEPT ![k] = IF req[k].op = RRQ THEN "rd" ELSE "wr"]
              /\ Goto(k, "perms")
    /\ UNCHANGED <<req, file, st_size, tsize, pos, got>>

CheckPerms(k) ==
    /\ rpc[k] = "perms"
    /\ CASE ~(UnixPerms \/ file[req[k].file].others) -> ExitWith(k) /\ UNCHANGED tsize
         [] (UnixPerms \/ file[req[k].file].others) /\ req[k].op = RRQ ->
              /\ tsize' = [tsize EXCEPT ![k] = st_size[k]]
              /\ Goto(k, "options")
              /\ UNCHANGED lock
         [] OTHER -> Goto(k, "truncate") /\ UNCHANGED <<lock, tsize>>
    /\ UNCHANGED <<req, file, st_size, pos, got>>

\* Faulty variant: the new file is written over the old one.
TruncatedKept(k) == Data(k)

\* ftruncate(fd, 0)
Truncated(k) == <<>>

Truncate(k) ==
    /\ rpc[k] = "truncate"
    /\ file' = [file EXCEPT ![req[k].file].data = Truncated(k)]
    /\ tsize' = [tsize EXCEPT ![k] = 0]
    /\ Goto(k, "options")
    /\ UNCHANGED <<req, lock, st_size, pos, got>>

\* "Cannot reset file size"
TruncateFails(k) ==
    /\ rpc[k] = "truncate"
    /\ ExitWith(k)
    /\ UNCHANGED <<req, file, st_size, tsize, pos, got>>

-----------------------------------------------------------------------------
(* The rest of tftp.                                                        *)

\* The options are read after the file was truncated.
OptionsAccepted(k) ==
    /\ rpc[k] = "options"
    /\ Goto(k, "transfer")
    /\ UNCHANGED <<req, file, lock, st_size, tsize, pos, got>>

OptionsRefused(k) ==
    /\ rpc[k] = "options"
    /\ ExitWith(k)
    /\ UNCHANGED <<req, file, st_size, tsize, pos, got>>

\* Write the child's next chunk at its offset.
Written(k) ==
    IF pos[k] < Len(Data(k))
      THEN [Data(k) EXCEPT ![pos[k] + 1] = k]
      ELSE Append(Data(k), k)

WriteChunk(k) ==
    /\ rpc[k] = "transfer" /\ req[k].op = WRQ /\ pos[k] < MaxSize
    /\ file' = [file EXCEPT ![req[k].file].data = Written(k)]
    /\ pos' = [pos EXCEPT ![k] = @ + 1]
    /\ UNCHANGED <<rpc, req, lock, st_size, tsize, got>>

\* fclose drops the lock; the last ACK and the wait for a repeated packet follow.
CloseWritten(k) ==
    /\ rpc[k] = "transfer" /\ req[k].op = WRQ
    /\ lock' = [lock EXCEPT ![k] = "none"]
    /\ Goto(k, "dally")
    /\ UNCHANGED <<req, file, st_size, tsize, pos, got>>

ReadChunk(k) ==
    /\ rpc[k] = "transfer" /\ req[k].op = RRQ /\ pos[k] < Len(Data(k))
    /\ got' = [got EXCEPT ![k] = Append(@, Data(k)[pos[k] + 1])]
    /\ pos' = [pos EXCEPT ![k] = @ + 1]
    /\ UNCHANGED <<rpc, req, file, lock, st_size, tsize>>

AtEof(k) == pos[k] >= Len(Data(k))

\* The last block was acknowledged: fclose, then exit.
EndRead(k) ==
    /\ rpc[k] = "transfer" /\ req[k].op = RRQ /\ AtEof(k)
    /\ ExitWith(k)
    /\ UNCHANGED <<req, file, st_size, tsize, pos, got>>

\* The transfer is given up (timer, an ERROR packet, a failed read), or the wait
\* after the last ACK is over.
Leave(k) ==
    /\ rpc[k] \in {"transfer", "dally"}
    /\ ExitWith(k)
    /\ UNCHANGED <<req, file, st_size, tsize, pos, got>>

-----------------------------------------------------------------------------
\* At first a file is missing, or holds Old's chunks, open to others or not.
RequestInit ==
    /\ rpc = [k \in Kids |-> "idle"]
    /\ req = [k \in Kids |-> NoReq]
    /\ file \in [Files -> [exists : {TRUE}, others : BOOLEAN, data : {[i \in 1 .. MaxSize |-> Old]}]
                          \cup {[exists |-> FALSE, others |-> FALSE, data |-> <<>>]}]
    /\ lock = [k \in Kids |-> "none"]
    /\ st_size = [k \in Kids |-> NoSize]
    /\ tsize = [k \in Kids |-> NoSize]
    /\ pos = [k \in Kids |-> 0]
    /\ got = [k \in Kids |-> <<>>]

Step(k) ==
    \/ \E r \in Requests : Begin(k, r)
    \/ Reject(k) \/ Open(k) \/ Fstat(k) \/ LockFile(k) \/ CheckPerms(k)
    \/ Truncate(k) \/ TruncateFails(k) \/ OptionsAccepted(k) \/ OptionsRefused(k)
    \/ WriteChunk(k) \/ CloseWritten(k) \/ ReadChunk(k) \/ EndRead(k) \/ Leave(k)

RequestNext == \E k \in Kids : Step(k)


-----------------------------------------------------------------------------
(* Properties.                                                              *)

\* Types; tsize has a value when the options and the GUI are told it
\* (tftpd.c:1539, 1556 and 1569).
RequestTypeOK ==
    /\ rpc \in [Kids -> RPcs]
    /\ req \in [Kids -> Requests \cup {NoReq}]
    /\ \A f \in Files :
         /\ file[f].exists \in BOOLEAN /\ file[f].others \in BOOLEAN
         /\ file[f].data \in BoundedSeq(Kids \cup {Old}, MaxSize)
    /\ lock \in [Kids -> {"none", "rd", "wr"}]
    /\ pos \in [Kids -> 0 .. MaxSize]
    /\ got \in [Kids -> BoundedSeq(Kids \cup {Old}, MaxSize)]
    /\ \A k \in Kids : rpc[k] \in {"options", "transfer"} => tsize[k] \in 0 .. MaxSize

\* A file never mixes two uploads, nor an upload with what was there before, however
\* many write requests race for it (lock_file and ftruncate, tftpd.c:1530 and 1551).
NoMixedUpload ==
    \A f \in Files, i, j \in 1 .. MaxSize :
        LET d == file[f].data
        IN  i <= Len(d) /\ j <= Len(d) => d[i] = d[j]

\* The file does not change under a reader: what it sent is still what the file
\* begins with, until it closes the file (tftpd.c:1530 and 1679).
ReadStable ==
    \A k \in Kids :
        rpc[k] = "transfer" /\ req[k].op = RRQ => IsPrefix(got[k], Data(k))

=============================================================================
