---------------------------- MODULE AofFileProofs ---------------------------
(***************************************************************************)
(* Which acknowledged writes survive crashes, and what everysec may lose,  *)
(* for every number of writes and crashes and every length of a payload.   *)
(***************************************************************************)
EXTENDS AofFile, SequenceTheorems, TLAPS

(* The piece with which the payload of a write ends, and that a file has it   *)
(* among its first n pieces.                                                  *)
Last(w) == [write |-> w, part |-> Parts]
Holds(file, n, w) == \E i \in 1..n : file[i] = Last(w)

(* What append has still to write ends the payload of the current write;      *)
(* after the loop the file ends with it.                                      *)
Appending ==
  /\ pc = "write" => rest # <<>> /\ rest[Len(rest)] = Last(writes)
  /\ pc \in {"written", "sync"} => Holds(log, Len(log), writes)
  /\ pc \in {"write", "written", "sync"} => writes \in database

(* The file ends inside a payload. *)
Ragged(file) == file # <<>> /\ file[Len(file)].part < Parts

(* The first payload that was cut short and followed by others is one whose   *)
(* append failed.  A process that serves on a file that ends inside a payload *)
(* is writing that payload, has failed to, or has misread the file.           *)
CutsFailed ==
  /\ \A i \in cuts(log) : \E k \in cuts(log) : k <= i /\ log[k].write \in failed
  /\ pc \in Serving /\ Ragged(log) =>
       \/ cuts(log) # {}
       \/ log[Len(log)].write \in failed
       \/ pc = "write" /\ log[Len(log)].write = writes
  /\ \A i \in 1..Len(rest) : rest[i].write = writes

(* Every acknowledged write is in the file until power fails, and among what  *)
(* a power failure leaves when the policy is always; a serving process has    *)
(* loaded it.                                                                 *)
Kept ==
  /\ ~power_lost => \A w \in acknowledged : Holds(log, Len(log), w)
  /\ policy = "always" => \A w \in acknowledged : Holds(log, Len(log), w) /\ Holds(log, durable, w)
  /\ AcknowledgedKept

(* The acknowledgements of this process are in its file; one that is not      *)
(* synced is no older than the last fsync, and none is a second younger.      *)
Window ==
  /\ pc \in Serving \cup {"read"} => \A a \in recent : Holds(log, Len(log), a.write)
  /\ \A a \in recent : ~Holds(log, durable, a.write) => last_sync <= a.time
  /\ \A a \in recent : a.time < last_sync + Second

-----------------------------------------------------------------------------
(* A longer file still has what its beginning had.                            *)
LEMMA HoldsLonger ==
  ASSUME NEW file \in Seq(Piece), NEW longer \in Seq(Piece), NEW n \in Nat, NEW m \in Nat,
         n <= Len(file), n <= m, m <= Len(longer),
         \A i \in 1..n : longer[i] = file[i],
         NEW w, Holds(file, n, w)
  PROVE  Holds(longer, m, w)
<1>1. PICK i \in 1..n : file[i] = Last(w)
  BY SMTT(30) DEF Holds
<1>2. i \in 1..m /\ longer[i] = Last(w)
  BY <1>1
<1> QED
  BY <1>2 DEF Holds

(* read_commands loads every write whose last piece is in the file.           *)
LEMMA HoldsReplayed ==
  ASSUME NEW file \in Seq(Piece), NEW w, Holds(file, Len(file), w)
  PROVE  w \in replayed(file)
<1>1. PICK i \in 1..Len(file) : file[i] = Last(w)
  BY DEF Holds
<1>2. file[i].write = w
  BY <1>1 DEF Last
<1> QED
  BY <1>2 DEF replayed

(* Both parts of a sequence that is cut are sequences. *)
LEMMA CutType ==
  ASSUME NEW S, NEW q \in Seq(S), NEW n \in 1..Len(q)
  PROVE  SubSeq(q, 1, n) \in Seq(S) /\ SubSeq(q, n + 1, Len(q)) \in Seq(S)
  OBVIOUS

(* What is joined to a sequence leaves its elements in place. *)
LEMMA JoinKeeps ==
  ASSUME NEW S, NEW q \in Seq(S), NEW r \in Seq(S)
  PROVE  /\ q \o r \in Seq(S) /\ Len(q \o r) >= Len(q)
         /\ \A i \in 1..Len(q) : (q \o r)[i] = q[i]
  OBVIOUS

(* Init establishes the type invariant.                                       *)
LEMMA TypeInit == Init => TypeOK
<1> SUFFICES ASSUME Init PROVE TypeOK
  OBVIOUS
<1>1. /\ policy \in Policies /\ pc \in Places /\ power_lost \in BOOLEAN
      /\ manifest \in ManifestContents /\ manifest_disk \in ManifestContents
      /\ database \subseteq Nat /\ acknowledged \subseteq Nat
      /\ recent \subseteq [write : Nat, time : Nat] /\ failed \subseteq Nat
  BY Zenon DEF Init, Places, ManifestContents
<1>2. /\ log \in Seq(Piece) /\ durable \in 0..Len(log) /\ rest \in Seq(Piece)
      /\ last_sync \in Nat /\ now \in Nat /\ last_sync <= now
      /\ writes \in Nat /\ crashes \in Nat
  BY DEF Init
<1> QED
  BY <1>1, <1>2, Zenon DEF TypeOK

(* Every step keeps the types.                                                *)
LEMMA TypeStep ==
  ASSUME TypeOK, [Next]_vars
  PROVE  TypeOK'
<1> USE AofFileAssumption
<1>1. CASE open_manifest \/ create_manifest
  BY <1>1, ZenonT(30) DEF open_manifest, create_manifest,
              TypeOK, Places, Serving, ManifestContents, history, machine
<1>2. CASE open
  BY <1>2 DEF open, TypeOK, Places, Serving, files, machine
<1>3. CASE read_commands
  <2>1. \A i \in 1..Len(log) : log[i] \in Piece
    BY DEF TypeOK
  <2>2. replayed(log) \subseteq Nat
    BY <2>1 DEF replayed, Piece
  <2>3. database' \subseteq Nat /\ pc' \in Places
    BY <1>3, <2>2, Zenon DEF read_commands, TypeOK, Places, Serving
  <2> QED
    BY <1>3, <2>3, ZenonT(30) DEF read_commands, TypeOK, files, history, machine
<1>4. CASE execute
  <2>1. \A i \in 1..Parts : [write |-> writes + 1, part |-> i] \in Piece
    BY DEF TypeOK, Piece
  <2>2. serialized(writes + 1) \in Seq(Piece)
    BY <2>1 DEF serialized
  <2> QED
    BY <1>4, <2>2 DEF execute, TypeOK, Places, Serving, files, machine
<1>5. CASE write
  <2>1. log' \in Seq(Piece) /\ rest' \in Seq(Piece) /\ Len(log') >= Len(log)
    <3>1. CASE rest' = <<>> /\ log' = log
      BY <3>1 DEF TypeOK
    <3>2. CASE \E n \in 1..Len(rest) : /\ log' = log \o SubSeq(rest, 1, n)
                                      /\ rest' = SubSeq(rest, n + 1, Len(rest))
      <4>1. PICK n \in 1..Len(rest) : /\ log' = log \o SubSeq(rest, 1, n)
                                      /\ rest' = SubSeq(rest, n + 1, Len(rest))
        BY <3>2, Zenon
      <4>2. SubSeq(rest, 1, n) \in Seq(Piece) /\ rest' \in Seq(Piece)
        BY <4>1, CutType, Zenon DEF TypeOK
      <4> QED
        BY <4>1, <4>2, JoinKeeps, Zenon DEF TypeOK
    <3> QED
      BY <1>5, <3>1, <3>2, ZenonT(30) DEF write
  <2>2. pc' \in Places /\ UNCHANGED <<acknowledged, recent>>
    BY <1>5 DEF write, fail, Places, Serving
  <2>3. failed' \subseteq Nat
    BY <1>5, Zenon DEF write, TypeOK
  <2> QED
    BY <1>5, <2>1, <2>2, <2>3 DEF write, TypeOK, machine
<1>6. CASE written \/ sync
  <2>1. \/ UNCHANGED <<acknowledged, recent>>
        \/ /\ acknowledged' = acknowledged \cup {writes}
           /\ recent' = recent \cup {[write |-> writes, time |-> now]}
    BY <1>6 DEF written, sync, fail, acknowledge
  <2>a. [write |-> writes, time |-> now] \in [write : Nat, time : Nat]
    BY DEF TypeOK
  <2>2. acknowledged' \subseteq Nat /\ recent' \subseteq [write : Nat, time : Nat]
    BY <2>1, <2>a, Zenon DEF TypeOK
  <2>3. pc' \in Places
    BY <1>6 DEF written, sync, fail, acknowledge, Places, Serving
  <2>4. /\ UNCHANGED <<manifest, manifest_disk, log, now, rest, database, writes, failed, machine>>
        /\ durable' \in {durable, Len(log)} /\ last_sync' \in {last_sync, now}
    BY <1>6 DEF written, sync, files
  <2> QED
    BY <2>2, <2>3, <2>4 DEF TypeOK, machine
<1>7. CASE kill
  BY <1>7 DEF kill, crash, TypeOK, Places, files, history, machine
<1>8. CASE lose_power
  <2>1. PICK n \in durable..Len(log) : log' = SubSeq(log, 1, n) /\ durable' = n
    BY <1>8 DEF lose_power
  <2>2. log' \in Seq(Piece) /\ Len(log') = n /\ n \in Nat
    BY <2>1 DEF TypeOK
  <2>3. manifest' \in ManifestContents /\ manifest_disk' \in ManifestContents
    BY <1>8 DEF lose_power, remains_of_manifest
  <2>4. /\ pc' \in Places /\ rest' \in Seq(Piece) /\ database' \subseteq Nat
        /\ crashes' \in Nat /\ power_lost' \in BOOLEAN /\ UNCHANGED <<last_sync, now, history, policy>>
    BY <1>8 DEF lose_power, crash, Places, TypeOK
  <2> QED
    BY <2>1, <2>2, <2>3, <2>4 DEF TypeOK, history
<1>9. CASE tick
  BY <1>9 DEF tick, TypeOK, files, history, machine
<1>10. CASE UNCHANGED vars
  BY <1>10 DEF vars, TypeOK, files, history, machine
<1> QED
  BY <1>1, <1>2, <1>3, <1>4, <1>5, <1>6, <1>7, <1>8, <1>9, <1>10 DEF Next, Start, Append_

-----------------------------------------------------------------------------
(* append keeps track of the payload it writes.                               *)
LEMMA AppendingStep ==
  ASSUME TypeOK, Appending, [Next]_vars
  PROVE  Appending'
<1> USE AofFileAssumption
<1>1. CASE Start \/ kill \/ lose_power
  BY <1>1 DEF Start, open_manifest, create_manifest, open, read_commands, kill, lose_power, crash,
              Appending
<1>2. CASE execute
  <2>1. rest' # <<>> /\ rest'[Len(rest')] = Last(writes')
    BY <1>2, SMTT(30) DEF execute, serialized, Last
  <2> QED
    BY <1>2, <2>1 DEF execute, Appending
<1>3. CASE write
  <2>1. CASE pc' = "ready"
    BY <2>1 DEF Appending
  <2>2. CASE pc' # "ready"
    <3>1. PICK n \in 1..Len(rest) : /\ log' = log \o SubSeq(rest, 1, n)
                                    /\ rest' = SubSeq(rest, n + 1, Len(rest))
                                    /\ pc' = IF n = Len(rest) THEN "written" ELSE "write"
      BY <1>3, <2>2, ZenonT(30) DEF write, fail
    <3>2. rest \in Seq(Piece) /\ log \in Seq(Piece) /\ rest[Len(rest)] = Last(writes)
      BY <1>3 DEF write, Appending, TypeOK
    <3>3. writes' = writes /\ writes' \in database'
      BY <1>3 DEF write, Appending
    <3>4. CASE n = Len(rest)
      <4>1. log' = log \o rest /\ Len(rest) >= 1
        BY <3>1, <3>2, <3>4
      <4>2. Len(log') \in 1..Len(log') /\ log'[Len(log')] = rest[Len(rest)]
        BY <3>2, <4>1
      <4>3. Holds(log, Len(log), writes)'
        BY <3>2, <3>3, <4>2 DEF Holds, Last
      <4> QED
        BY <3>1, <3>3, <3>4, <4>3 DEF Appending
    <3>5. CASE n # Len(rest)
      <4>1. rest' # <<>> /\ rest'[Len(rest')] = rest[Len(rest)]
        <5>1. n \in Nat /\ Len(rest) \in Nat /\ n + 1 <= Len(rest)
          BY <3>2, <3>5
        <5>2. Len(rest') = Len(rest) - n
          BY <3>1, <3>2, <5>1
        <5>3. Len(rest) - n \in 1..Len(rest') /\ n + 1 + (Len(rest) - n) - 1 = Len(rest)
          BY <5>1, <5>2
        <5>4. \A i \in 1..Len(rest') : rest'[i] = rest[n + 1 + i - 1]
          <6>1. \A i \in (n + 1)..Len(rest) : rest[i] \in Piece
            BY <3>2, <5>1
          <6>2. n + 1 \in Int /\ Len(rest) \in Int /\ Len(rest) - (n + 1) + 1 = Len(rest')
            BY <5>1, <5>2
          <6>3. \A i \in 1..(Len(rest) - (n + 1) + 1) :
                  SubSeq(rest, n + 1, Len(rest))[i] = rest[n + 1 + i - 1]
            BY <6>1, <6>2, SubSeqProperties
          <6> QED
            BY <3>1, <6>2, <6>3, Zenon
        <5>5. rest' # <<>>
          BY <5>1, <5>2
        <5> QED
          BY <5>2, <5>3, <5>4, <5>5
      <4>2. rest'[Len(rest')] = Last(writes')
        BY <3>2, <3>3, <4>1
      <4> QED
        BY <3>1, <3>3, <3>5, <4>1, <4>2, ZenonT(30) DEF Appending
    <3> QED
      BY <3>4, <3>5
  <2> QED
    BY <2>1, <2>2
<1>4. CASE written \/ sync
  BY <1>4 DEF written, sync, acknowledge, fail, Appending, files, Holds
<1>5. CASE tick \/ UNCHANGED vars
  BY <1>5 DEF tick, vars, Appending, files, history, Holds
<1> QED
  BY <1>1, <1>2, <1>3, <1>4, <1>5 DEF Next, Append_

(* The file only grows, except when power fails. *)
LEMMA LogGrows ==
  ASSUME TypeOK, TypeOK', [Next]_vars, ~lose_power
  PROVE  /\ Len(log') >= Len(log) /\ durable' >= durable
         /\ \A i \in 1..Len(log) : log'[i] = log[i]
<1>1. CASE write
  <2>1. durable' = durable
    BY <1>1 DEF write
  <2>2. CASE log' = log
    BY <2>1, <2>2 DEF TypeOK
  <2>3. CASE \E n \in 1..Len(rest) : log' = log \o SubSeq(rest, 1, n)
    <3>1. PICK n \in 1..Len(rest) : log' = log \o SubSeq(rest, 1, n)
      BY <2>3, Zenon
    <3>2. SubSeq(rest, 1, n) \in Seq(Piece) /\ log \in Seq(Piece)
      BY CutType, Zenon DEF TypeOK
    <3>3. durable' >= durable
      BY <2>1 DEF TypeOK
    <3> QED
      BY <3>1, <3>2, <3>3, JoinKeeps, Zenon
  <2> QED
    BY <1>1, <2>2, <2>3, ZenonT(30) DEF write
<1>2. CASE sync
  BY <1>2 DEF sync, TypeOK
<1>3. CASE ~write /\ ~sync
  <2>1. log' = log /\ durable' = durable
    BY <1>3 DEF Next, Start, open_manifest, create_manifest, open, read_commands, execute,
                Append_, written, kill, tick, vars, files
  <2> QED
    BY <2>1 DEF TypeOK
<1> QED
  BY <1>1, <1>2, <1>3

(* What the file holds, and what of it is durable, it keeps.                  *)
LEMMA HoldsKept ==
  ASSUME TypeOK, TypeOK', [Next]_vars, ~lose_power, NEW w
  PROVE  /\ Holds(log, Len(log), w) => Holds(log, Len(log), w)'
         /\ Holds(log, durable, w) => Holds(log, durable, w)'
<1>1. /\ log \in Seq(Piece) /\ log' \in Seq(Piece) /\ Len(log) \in Nat /\ Len(log') \in Nat
      /\ durable \in Nat /\ durable <= Len(log) /\ durable' \in Nat /\ durable' <= Len(log')
  BY SMTT(30) DEF TypeOK
<1>2. /\ Len(log') >= Len(log) /\ durable' >= durable
      /\ \A i \in 1..Len(log) : log'[i] = log[i]
  BY LogGrows
<1>3. Holds(log, Len(log), w) => Holds(log', Len(log'), w)
  BY <1>1, <1>2, HoldsLonger
<1>4. \A i \in 1..durable : log'[i] = log[i]
  BY <1>1, <1>2, SMTT(30)
<1>5. Holds(log, durable, w) => Holds(log', durable', w)
  BY <1>1, <1>2, <1>4, HoldsLonger
<1> QED
  BY <1>3, <1>5, Zenon DEF Holds, Last

(* A power failure leaves what was durable.                                   *)
LEMMA PowerLossKeeps ==
  ASSUME TypeOK, lose_power, NEW w, Holds(log, durable, w)
  PROVE  Holds(log, Len(log), w)' /\ Holds(log, durable, w)'
<1>1. PICK n \in durable..Len(log) : log' = SubSeq(log, 1, n) /\ durable' = n
  BY DEF lose_power
<1>2. PICK i \in 1..durable : log[i] = Last(w)
  BY DEF Holds
<1>3. log \in Seq(Piece) /\ durable \in 0..Len(log)
  BY DEF TypeOK
<1>4. Len(log') = n /\ i \in 1..n /\ log'[i] = log[i]
  BY <1>1, <1>2, <1>3
<1>5. log'[i] = Last(w)'
  BY <1>2, <1>4 DEF Last
<1> QED
  BY <1>1, <1>4, <1>5 DEF Holds, Last

-----------------------------------------------------------------------------
(* A file has the cuts of its beginning, and no others in that part. *)
LEMMA CutsOfBeginning ==
  ASSUME NEW file \in Seq(Piece), NEW longer \in Seq(Piece), Len(file) <= Len(longer),
         \A i \in 1..Len(file) : longer[i] = file[i]
  PROVE  /\ \A i \in cuts(file) : i \in cuts(longer) /\ i \in 1..(Len(file) - 1)
         /\ \A i \in cuts(longer) : i < Len(file) => i \in cuts(file)
<1>0. Len(file) \in Nat /\ Len(longer) \in Nat
  OBVIOUS
<1>1. ASSUME NEW i \in 1..(Len(file) - 1)
      PROVE  i \in 1..(Len(longer) - 1) /\ longer[i] = file[i] /\ longer[i + 1] = file[i + 1]
  <2>1. i \in 1..(Len(longer) - 1) /\ i \in 1..Len(file) /\ i + 1 \in 1..Len(file)
    BY <1>0
  <2> QED
    BY <2>1, Zenon
<1>2. \A i \in cuts(file) : i \in cuts(longer) /\ i \in 1..(Len(file) - 1)
  BY <1>1, Zenon DEF cuts
<1>3. \A i \in 1..(Len(longer) - 1) : i < Len(file) => i \in 1..(Len(file) - 1)
  BY <1>0
<1>4. \A i \in cuts(longer) : i < Len(file) => i \in cuts(file)
  BY <1>1, <1>3, Zenon DEF cuts
<1> QED
  BY <1>2, <1>4, Zenon

(* A whole file does not end inside a payload.                                *)
LEMMA WholeNotRagged ==
  ASSUME NEW file \in Seq(Piece), whole(file)
  PROVE  ~Ragged(file)
<1> SUFFICES ASSUME Ragged(file) PROVE FALSE
  OBVIOUS
<1>1. Len(file) \in 1..Len(file) /\ file[Len(file)].part < Parts /\ ~(Len(file) < Len(file))
  BY DEF Ragged
<1> QED
  BY <1>1, Zenon DEF whole

(* The payload append writes continues the one the file ends with, or follows *)
(* a whole one, or one whose append failed, or there is a cut already.        *)
LEMMA CutsFailedWrite ==
  ASSUME TypeOK, TypeOK', Appending, CutsFailed, write
  PROVE  CutsFailed'
<1>1. CASE rest' = <<>> /\ log' = log /\ failed' = failed \cup {writes}
  <2>1. \A i \in 1..Len(rest') : rest'[i].write = writes'
    BY <1>1
  <2>2. pc = "write" /\ pc \in Serving /\ cuts(log') = cuts(log)
    BY <1>1, Zenon DEF write, Serving
  <2>3. \A i \in cuts(log') : \E k \in cuts(log') : k <= i /\ log'[k].write \in failed'
    BY <1>1, <2>2, Zenon DEF CutsFailed
  <2>4. Ragged(log') => cuts(log') # {} \/ log'[Len(log')].write \in failed'
    BY <1>1, <2>2, Zenon DEF CutsFailed
  <2> QED
    BY <2>1, <2>3, <2>4, Zenon DEF CutsFailed, Ragged, cuts
<1>2. ASSUME NEW n \in 1..Len(rest),
             log' = log \o SubSeq(rest, 1, n), rest' = SubSeq(rest, n + 1, Len(rest)),
             pc' = IF n = Len(rest) THEN "written" ELSE "write", failed' = failed
      PROVE  CutsFailed'
  <2> DEFINE piece == SubSeq(rest, 1, n)
  <2>1. /\ log \in Seq(Piece) /\ log' \in Seq(Piece) /\ rest \in Seq(Piece) /\ rest' \in Seq(Piece)
        /\ Len(log) \in Nat /\ Len(rest) \in Nat /\ n \in Nat \ {0} /\ n <= Len(rest)
    BY DEF TypeOK
  <2>2. /\ piece \in Seq(Piece) /\ Len(piece) = n
        /\ \A i \in 1..n : piece[i] = rest[i]
    BY <2>1
  <2>3. /\ Len(log') = Len(log) + n
        /\ \A i \in 1..Len(log) : log'[i] = log[i]
        /\ \A i \in (Len(log) + 1)..Len(log') : log'[i] = rest[i - Len(log)]
    BY <1>2, <2>1, <2>2
  <2> HIDE DEF piece
  <2>4. \A i \in (Len(log) + 1)..Len(log') : log'[i].write = writes
    BY <2>1, <2>3 DEF CutsFailed
  <2>5. pc = "write" /\ pc \in Serving /\ writes' = writes /\ rest[Len(rest)] = Last(writes)
    BY Zenon DEF write, Serving, Appending
  <2>6. /\ \A i \in cuts(log) : i \in cuts(log') /\ i \in 1..(Len(log) - 1)
        /\ \A i \in cuts(log') : i < Len(log) => i \in cuts(log)
    <3>1. Len(log) <= Len(log')
      BY <2>1, <2>3
    <3> QED
      BY <2>1, <2>3, <3>1, CutsOfBeginning, Zenon
  <2>7. \A i \in cuts(log') : \E k \in cuts(log') : k <= i /\ log'[k].write \in failed'
    <3> SUFFICES ASSUME NEW i \in cuts(log')
                 PROVE  \E k \in cuts(log') : k <= i /\ log'[k].write \in failed'
      OBVIOUS
    <3>1. /\ i \in 1..(Len(log') - 1) /\ log'[i].part < Parts
          /\ log'[i + 1].write # log'[i].write
      BY DEF cuts
    <3>2. i <= Len(log)
      <4>1. ~(i \in (Len(log) + 1)..Len(log') /\ i + 1 \in (Len(log) + 1)..Len(log'))
        BY <2>4, <3>1, Zenon
      <4> QED
        BY <2>1, <2>3, <3>1, <4>1
    <3>3. ASSUME NEW j \in cuts(log), j <= i
          PROVE  \E k \in cuts(log') : k <= i /\ log'[k].write \in failed'
      <4>1. PICK k \in cuts(log) : k <= j /\ log[k].write \in failed
        BY Zenon DEF CutsFailed
      <4>2. k \in 1..Len(log) /\ k <= i /\ k \in cuts(log')
        BY <2>1, <2>6, <3>1, <3>3, <4>1
      <4>3. log'[k].write \in failed'
        BY <1>2, <2>3, <4>1, <4>2
      <4> QED
        BY <4>2, <4>3
    <3>4. CASE i < Len(log)
      <4>1. i \in cuts(log) /\ i <= i
        BY <2>6, <3>1, <3>4
      <4> QED
        BY <3>3, <4>1
    <3>5. CASE i = Len(log)
      <4>1. i \in 1..Len(log) /\ log'[i] = log[i] /\ log'[i + 1].write = writes
        BY <2>1, <2>3, <2>4, <3>1, <3>5
      <4>2. Ragged(log) /\ log[Len(log)].write # writes
        BY <2>1, <3>1, <3>5, <4>1 DEF Ragged
      <4>3. cuts(log) # {} \/ log[Len(log)].write \in failed
        BY <2>5, <4>2, Zenon DEF CutsFailed
      <4>4. CASE cuts(log) # {}
        <5>1. PICK j \in cuts(log) : TRUE
          BY <4>4, Zenon
        <5>2. j <= i
          BY <2>1, <2>6, <3>5, <5>1
        <5> QED
          BY <3>3, <5>1, <5>2
      <4>5. CASE log[Len(log)].write \in failed
        <5>1. i <= i /\ log'[i].write \in failed'
          BY <1>2, <3>1, <3>5, <4>1, <4>5
        <5> QED
          BY <5>1
      <4> QED
        BY <4>3, <4>4, <4>5
    <3> QED
      BY <2>1, <3>1, <3>2, <3>4, <3>5
  <2>8. Ragged(log') => pc' = "write" /\ log'[Len(log')].write = writes'
    <3>1. Len(log') \in (Len(log) + 1)..Len(log')
      BY <2>1, <2>3
    <3>2. log'[Len(log')].write = writes' /\ log'[Len(log')] = rest[n]
      BY <2>1, <2>3, <2>4, <2>5, <3>1
    <3>3. n = Len(rest) => log'[Len(log')].part = Parts
      BY <2>5, <3>2 DEF Last
    <3> QED
      BY <1>2, <3>2, <3>3, AofFileAssumption DEF Ragged
  <2>9. \A i \in 1..Len(rest') : rest'[i].write = writes'
    <3>1. \A i \in 1..Len(rest') : i + n \in 1..Len(rest) /\ rest'[i] = rest[i + n]
      BY <1>2, <2>1
    <3> QED
      BY <2>5, <3>1, Zenon DEF CutsFailed
  <2> QED
    BY <2>7, <2>8, <2>9, Zenon DEF CutsFailed, Ragged, cuts
<1> QED
  BY <1>1, <1>2, ZenonT(30) DEF write

(* No step adds a first cut but behind an append that failed.                 *)
LEMMA CutsFailedStep ==
  ASSUME TypeOK, TypeOK', Appending, CutsFailed, [Next]_vars
  PROVE  CutsFailed'
<1> USE AofFileAssumption
<1>1. CASE write
  BY <1>1, CutsFailedWrite
<1>2. CASE lose_power
  <2>1. PICK n \in durable..Len(log) : log' = SubSeq(log, 1, n)
    BY <1>2 DEF lose_power
  <2>2. /\ log \in Seq(Piece) /\ log' \in Seq(Piece) /\ Len(log') <= Len(log)
        /\ Len(log') \in Nat /\ \A i \in 1..Len(log') : log[i] = log'[i]
    BY <2>1 DEF TypeOK
  <2>3. pc' \notin Serving /\ rest' = <<>> /\ failed' = failed
    BY <1>2 DEF lose_power, crash, history, Serving
  <2>4. /\ \A i \in cuts(log') : i \in cuts(log) /\ i \in 1..(Len(log') - 1)
        /\ \A i \in cuts(log) : i < Len(log') => i \in cuts(log')
    BY <2>2, CutsOfBeginning, Zenon
  <2>5. ASSUME NEW i \in cuts(log')
        PROVE  \E k \in cuts(log') : k <= i /\ log'[k].write \in failed'
    <3>1. PICK k \in cuts(log) : k <= i /\ log[k].write \in failed
      BY <2>4, Zenon DEF CutsFailed
    <3>2. k \in 1..Len(log') /\ k < Len(log')
      BY <2>2, <2>4, <2>5, <3>1 DEF cuts
    <3> QED
      BY <2>2, <2>3, <2>4, <3>1, <3>2
  <2>6. \A i \in 1..Len(rest') : rest'[i].write = writes'
    BY <2>3
  <2> QED
    BY <2>3, <2>5, <2>6, Zenon DEF CutsFailed, cuts
<1>3. CASE execute
  <2>1. log' = log /\ failed' = failed /\ pc = "ready" /\ pc \in Serving
    BY <1>3, Zenon DEF execute, files, Serving
  <2>2. \A i \in 1..Len(rest') : rest'[i].write = writes'
    BY <1>3 DEF execute, serialized
  <2>3. Ragged(log) => cuts(log) # {} \/ log[Len(log)].write \in failed
    BY <2>1, Zenon DEF CutsFailed
  <2>4. \A i \in cuts(log) : \E k \in cuts(log) : k <= i /\ log[k].write \in failed
    BY Zenon DEF CutsFailed
  <2> QED
    BY <2>1, <2>2, <2>3, <2>4, SMT DEF CutsFailed, Ragged, cuts
<1>4. CASE read_commands
  <2>1. log' = log /\ failed' = failed /\ rest' = rest /\ writes' = writes
    BY <1>4, Zenon DEF read_commands, files, history
  <2>2. pc' \in Serving => whole(log) \/ cuts(log) # {}
    BY <1>4, Zenon DEF read_commands, misread, Serving
  <2>3. whole(log) => ~Ragged(log)
    BY WholeNotRagged DEF TypeOK
  <2> QED
    BY <2>1, <2>2, <2>3, Zenon DEF CutsFailed, Ragged, cuts
<1>5. CASE kill
  <2>1. pc' \notin Serving /\ rest' = <<>> /\ failed' = failed /\ log' = log
    BY <1>5 DEF kill, crash, history, files, Serving
  <2>2. \A i \in 1..Len(rest') : rest'[i].write = writes'
    BY <2>1
  <2> QED
    BY <2>1, <2>2, Zenon DEF CutsFailed, cuts
<1>6. CASE ~(write \/ lose_power \/ execute \/ read_commands \/ kill)
  <2>1. log' = log /\ failed' = failed /\ rest' = rest /\ writes' = writes
    BY <1>6, Zenon DEF Next, Start, open_manifest, create_manifest, open, Append_, written, sync,
       tick, vars, files, history
  <2>2. pc' \in Serving => pc \in Serving /\ (pc = "write" => pc' = "write")
    BY <1>6, Zenon DEF Next, Start, open_manifest, create_manifest, open, Append_, written, sync,
       tick, vars, Serving
  <2>3. pc' \in Serving /\ Ragged(log) =>
          \/ cuts(log) # {}
          \/ log[Len(log)].write \in failed
          \/ pc' = "write" /\ log[Len(log)].write = writes
    BY <2>2, Zenon DEF CutsFailed
  <2>4. /\ \A i \in cuts(log) : \E k \in cuts(log) : k <= i /\ log[k].write \in failed
        /\ \A i \in 1..Len(rest) : rest[i].write = writes
    BY Zenon DEF CutsFailed
  <2> QED
    BY <2>1, <2>3, <2>4, ZenonT(30) DEF CutsFailed, Ragged, cuts
<1> QED
  BY <1>1, <1>2, <1>3, <1>4, <1>5, <1>6, Zenon

-----------------------------------------------------------------------------
(* A write behind a failed append stays there while the file grows.           *)
LEMMA BehindKept ==
  ASSUME TypeOK, TypeOK', [Next]_vars, ~lose_power, NEW w, behind_failed_append(w)
  PROVE  behind_failed_append(w)'
<1>1. /\ log \in Seq(Piece) /\ log' \in Seq(Piece) /\ Len(log) <= Len(log')
      /\ Len(log) \in Nat /\ Len(log') \in Nat /\ \A i \in 1..Len(log) : log'[i] = log[i]
  <2>1. log \in Seq(Piece) /\ log' \in Seq(Piece)
    BY Zenon DEF TypeOK
  <2>2. Len(log') >= Len(log) /\ \A i \in 1..Len(log) : log'[i] = log[i]
    BY LogGrows, Zenon
  <2>3. Len(log) \in Nat /\ Len(log') \in Nat
    BY <2>1
  <2>4. Len(log) <= Len(log')
    BY <2>2, <2>3
  <2> QED
    BY <2>1, <2>2, <2>3, <2>4, Zenon
<1>2. failed \subseteq failed'
  BY Zenon DEF Next, Start, open_manifest, create_manifest, open, read_commands, execute,
     Append_, write, written, sync, kill, crash, lose_power, tick, vars, history
<1>3. PICK i \in cuts(log) : /\ log[i].write \in failed
                             /\ \E j \in (i + 1)..Len(log) : log[j] = Last(w)
  BY Zenon DEF behind_failed_append, Last
<1>4. PICK j \in (i + 1)..Len(log) : log[j] = Last(w)
  BY <1>3
<1>5. i \in cuts(log') /\ i \in 1..(Len(log) - 1)
  BY <1>1, CutsOfBeginning, Zenon
<1>6. log'[i].write \in failed' /\ j \in (i + 1)..Len(log') /\ log'[j] = Last(w)
  BY <1>1, <1>2, <1>3, <1>4, <1>5
<1> QED
  BY <1>5, <1>6, Zenon DEF behind_failed_append, Last

(* What a misread file loses is behind an append that failed.                 *)
LEMMA MisreadKeeps ==
  ASSUME TypeOK, CutsFailed, NEW loaded, misread(log, loaded), NEW w, Holds(log, Len(log), w)
  PROVE  w \in loaded \/ behind_failed_append(w)
<1>1. PICK i \in cuts(log) : /\ \A j \in cuts(log) : i <= j
                             /\ \A j \in 1..(i - 1) : log[j].part = Parts => log[j].write \in loaded
  BY Zenon DEF misread
<1>2. PICK j \in 1..Len(log) : log[j] = Last(w)
  BY Zenon DEF Holds
<1>3. PICK k \in cuts(log) : k <= i /\ log[k].write \in failed
  BY Zenon DEF CutsFailed
<1>4. /\ i \in 1..(Len(log) - 1) /\ log[i].part < Parts /\ k \in 1..(Len(log) - 1) /\ i <= k
      /\ Len(log) \in Nat
  <2>1. /\ i \in 1..(Len(log) - 1) /\ log[i].part < Parts /\ k \in 1..(Len(log) - 1) /\ i <= k
    BY <1>1, <1>3, Zenon DEF cuts
  <2>2. Len(log) \in Nat
    BY DEF TypeOK
  <2> QED
    BY <2>1, <2>2, Zenon
<1>5. i = k /\ log[i].write \in failed
  BY <1>3, <1>4
<1>6. log[j].part = Parts /\ log[j].write = w
  BY <1>2 DEF Last
<1>7. CASE j < i
  <2>1. j \in 1..(i - 1)
    BY <1>4, <1>7
  <2> QED
    BY <1>1, <1>6, <2>1, Zenon
<1>8. CASE ~(j < i)
  <2>1. j \in (i + 1)..Len(log)
    BY <1>4, <1>6, <1>8, AofFileAssumption
  <2> QED
    BY <1>2, <1>5, <2>1, Zenon DEF behind_failed_append, Last
<1> QED
  BY <1>7, <1>8

(* No step drops an acknowledged write from the file or, unless it is behind  *)
(* a failed append, from a serving process.                                   *)
LEMMA KeptStep ==
  ASSUME TypeOK, TypeOK', Appending, CutsFailed, Kept, [Next]_vars
  PROVE  Kept'
<1>0. policy' = policy /\ (~lose_power => power_lost' = power_lost)
  BY Zenon DEF Next, Start, open_manifest, create_manifest, open, read_commands, execute,
     Append_, write, written, sync, kill, crash, lose_power, tick, vars, machine
<1>g. ~lose_power /\ (policy' = "always" \/ ~power_lost') => policy = "always" \/ ~power_lost
  BY <1>0
<1>1. CASE lose_power
  <2>1. power_lost' /\ pc' = "down" /\ acknowledged' = acknowledged
    BY <1>1 DEF lose_power, crash, history
  <2>2. policy = "always" => \A w \in acknowledged : Holds(log, Len(log), w)' /\ Holds(log, durable, w)'
    BY <1>1, PowerLossKeeps DEF Kept
  <2>3. AcknowledgedKept'
    BY <2>1 DEF AcknowledgedKept, Serving
  <2> QED
    BY <1>0, <2>1, <2>2, <2>3, Zenon DEF Kept, Holds, Last
<1>2. CASE ~lose_power /\ acknowledged' = acknowledged
  <2>1. /\ ~power_lost' => \A w \in acknowledged' : Holds(log, Len(log), w)'
        /\ policy' = "always" =>
             \A w \in acknowledged' : Holds(log, Len(log), w)' /\ Holds(log, durable, w)'
    BY <1>0, <1>2, HoldsKept DEF Kept
  <2>b. \A w \in acknowledged : behind_failed_append(w) => behind_failed_append(w)'
    BY <1>2, BehindKept, Zenon
  <2>2. CASE pc' = "ready" /\ pc = "read"
    <3>1. \/ database' = replayed(log)
          \/ misread(log, database')
      BY <2>2, Zenon DEF Next, Start, open_manifest, create_manifest, open, read_commands, execute,
                  Append_, write, written, sync, kill, lose_power, crash, tick, vars
    <3>2. policy = "always" \/ ~power_lost =>
            \A w \in acknowledged : w \in database' \/ behind_failed_append(w)
      BY <3>1, HoldsReplayed, MisreadKeeps, Zenon DEF Kept, TypeOK
    <3>3. policy' = "always" \/ ~power_lost' =>
            \A w \in acknowledged' : w \in database' \/ behind_failed_append(w)'
      BY <1>g, <1>2, <2>b, <3>2, Zenon
    <3> QED
      BY <2>1, <3>3, Zenon DEF Kept, AcknowledgedKept, behind_failed_append, Holds, Last
  <2>3. CASE pc' \notin Serving
    BY <2>1, <2>3 DEF Kept, AcknowledgedKept
  <2>4. CASE pc' \in Serving /\ ~(pc' = "ready" /\ pc = "read")
    <3>1. pc \in Serving /\ database \subseteq database'
      BY <1>2, <2>4, Zenon DEF Next, Start, open_manifest, create_manifest, open, read_commands, execute,
                  Append_, write, written, sync, kill, crash, tick, vars, Serving
    <3>2. policy' = "always" \/ ~power_lost' =>
            \A w \in acknowledged' : w \in database' \/ behind_failed_append(w)'
      <4>1. policy = "always" \/ ~power_lost =>
              \A w \in acknowledged : w \in database \/ behind_failed_append(w)
        BY <3>1, Zenon DEF Kept, AcknowledgedKept
      <4> QED
        BY <1>g, <1>2, <2>b, <3>1, <4>1, Zenon
    <3> QED
      BY <2>1, <3>2, Zenon DEF Kept, AcknowledgedKept, behind_failed_append, Holds, Last
  <2> QED
    BY <2>2, <2>3, <2>4
<1>3. CASE ~lose_power /\ acknowledged' # acknowledged
  <2>1. /\ pc \in {"written", "sync"} /\ acknowledged' = acknowledged \cup {writes}
        /\ log' = log /\ database' = database
        /\ policy = "always" => durable' = Len(log)
    BY <1>3, Zenon DEF Next, Start, open_manifest, create_manifest, open, read_commands, execute,
                Append_, write, written, must_sync, sync, acknowledge, fail, kill, crash,
                tick, vars, history, files
  <2>2. Holds(log, Len(log), writes) /\ writes \in database
    BY <2>1 DEF Appending
  <2>3. policy = "always" => Holds(log', durable', writes)
    BY <2>1, <2>2, Zenon DEF Holds, Last
  <2>4. /\ ~power_lost => \A w \in acknowledged : Holds(log, Len(log), w)'
        /\ policy = "always" =>
             \A w \in acknowledged : Holds(log, Len(log), w)' /\ Holds(log, durable, w)'
    BY <1>3, HoldsKept DEF Kept
  <2>5. /\ Holds(log', Len(log'), writes)
        /\ policy = "always" \/ ~power_lost =>
             \A w \in acknowledged : w \in database \/ behind_failed_append(w)
    BY <2>1, <2>2, Zenon DEF Kept, AcknowledgedKept, Serving
  <2>6. /\ ~power_lost' => \A w \in acknowledged' : Holds(log', Len(log'), w)
        /\ policy' = "always" =>
             \A w \in acknowledged' : Holds(log', Len(log'), w) /\ Holds(log', durable', w)
    BY <1>0, <1>3, <2>1, <2>3, <2>4, <2>5, Zenon DEF Holds, Last
  <2>7. policy' = "always" \/ ~power_lost' =>
          \A w \in acknowledged' : w \in database' \/ behind_failed_append(w)'
    <3>1. \A w \in acknowledged : behind_failed_append(w) => behind_failed_append(w)'
      BY <1>3, BehindKept, Zenon
    <3> QED
      BY <1>g, <1>3, <2>1, <2>2, <2>5, <3>1, Zenon
  <2>8. AcknowledgedKept'
    BY <2>7, Zenon DEF AcknowledgedKept, behind_failed_append
  <2> QED
    BY <2>6, <2>8, ZenonT(30) DEF Kept, Holds, Last
<1> QED
  BY <1>1, <1>2, <1>3

(* No step widens the window of what everysec may lose.                       *)
LEMMA WindowStep ==
  ASSUME policy = "everysec", TypeOK, TypeOK', Appending, Window, [Next]_vars
  PROVE  Window'
<1> DEFINE Fresh == [write |-> writes, time |-> now]
<1>0. last_sync \in Nat /\ now \in Nat /\ Second \in Nat \ {0} /\ last_sync <= now
  BY AofFileAssumption DEF TypeOK
<1>t. \A a \in recent : a.time \in Nat
  BY Zenon DEF TypeOK
<1>1. CASE lose_power
  <2>1. pc' = "down" /\ recent' = recent /\ last_sync' = last_sync
    BY <1>1 DEF lose_power, crash, history
  <2>2. \A a \in recent : Holds(log, durable, a.write) => Holds(log', durable', a.write)
    BY <1>1, PowerLossKeeps, Zenon DEF Holds, Last
  <2> QED
    BY <2>1, <2>2, Zenon DEF Window, Serving, Holds, Last
<1>2. CASE open /\ pc' = "read"
  <2>1. recent' = {}
    BY <1>2 DEF open
  <2> QED
    BY <2>1, Zenon DEF Window
<1>3. CASE /\ ~lose_power /\ recent' = recent /\ last_sync' = last_sync
           /\ pc' \in Serving \cup {"read"} => pc \in Serving \cup {"read"}
  <2>1. \A a \in recent : /\ Holds(log, Len(log), a.write) => Holds(log', Len(log'), a.write)
                          /\ Holds(log, durable, a.write) => Holds(log', durable', a.write)
    BY <1>3, HoldsKept, Zenon DEF Holds, Last
  <2> QED
    BY <1>3, <2>1, Zenon DEF Window, Holds, Last
<1>4. CASE /\ pc \in {"written", "sync"} /\ recent' = recent \cup {Fresh} /\ log' = log
           /\ \/ durable' = Len(log) /\ last_sync' = now
              \/ durable' = durable /\ last_sync' = last_sync /\ now < last_sync + Second
  <2>1. \A a \in recent' : Holds(log', Len(log'), a.write)
    <3>1. Holds(log', Len(log'), Fresh.write)
      BY <1>4 DEF Appending
    <3>2. \A a \in recent : Holds(log', Len(log'), a.write)
      BY <1>4, Zenon DEF Window, Serving
    <3> QED
      BY <1>4, <3>1, <3>2, Zenon
  <2>2. CASE durable' = Len(log) /\ last_sync' = now
    <3>1. \A a \in recent' : Holds(log', durable', a.write)
      BY <1>4, <2>1, <2>2, Zenon
    <3>2. \A a \in recent' : a.time < last_sync' + Second
      BY <1>0, <1>t, <1>4, <2>2 DEF Window
    <3> QED
      BY <2>1, <3>1, <3>2, Zenon DEF Window, Holds, Last
  <2>3. CASE durable' = durable /\ last_sync' = last_sync /\ now < last_sync + Second
    <3>1. \A a \in recent' : a.time < last_sync' + Second
      BY <1>4, <2>3 DEF Window
    <3>2. \A a \in recent' : ~Holds(log', durable', a.write) => last_sync' <= a.time
      <4>1. last_sync' <= Fresh.time
        BY <1>0, <2>3
      <4> QED
        BY <1>4, <2>3, <4>1, Zenon DEF Window
    <3> QED
      BY <2>1, <3>1, <3>2, Zenon DEF Window, Holds, Last
  <2> QED
    BY <1>4, <2>2, <2>3
<1>5. CASE written \/ sync
  <2>1. /\ pc \in {"written", "sync"} /\ pc' \in Serving /\ log' = log
        /\ ~lose_power
    BY <1>5 DEF written, sync, acknowledge, fail, lose_power, crash, files, Serving
  <2>2. \/ recent' = recent /\ last_sync' = last_sync
        \/ /\ recent' = recent \cup {Fresh}
           /\ \/ durable' = Len(log) /\ last_sync' = now
              \/ durable' = durable /\ last_sync' = last_sync /\ now < last_sync + Second
    BY <1>5, <1>0 DEF written, sync, must_sync, acknowledge, fail, files
  <2>3. pc \in Serving
    BY <2>1 DEF Serving
  <2> QED
    BY <1>3, <1>4, <2>1, <2>2, <2>3, Zenon
<1>6. CASE open
  BY <1>2, <1>3, <1>6, Zenon DEF open, lose_power, crash, Serving
<1>7. CASE ~(written \/ sync \/ open \/ lose_power)
  <2>1. /\ recent' = recent /\ last_sync' = last_sync
        /\ pc' \in Serving \cup {"read"} => pc \in Serving \cup {"read"}
    BY <1>7, Zenon DEF Next, Start, open_manifest, create_manifest, read_commands, execute, Append_,
                write, fail, kill, crash, tick, vars, history, Serving
  <2> QED
    BY <1>3, <1>7, <2>1, SMTT(30)
<1> QED
  BY <1>1, <1>5, <1>6, <1>7

-----------------------------------------------------------------------------
(* Every write that was ever acknowledged is in the database of a server that *)
(* serves, or in its file behind a payload that a failed append cut short:    *)
(* with appendfsync always whatever crashes there were, with any policy if    *)
(* the machine kept its power (aof.cpp, open, read_commands and append).      *)
THEOREM AcknowledgedKeptAlways == Spec => []AcknowledgedKept
<1> DEFINE IInv == TypeOK /\ Appending /\ CutsFailed /\ Kept
<1>1. Init => IInv
  <2>1. Init => Appending /\ Kept
    BY DEF Init, Appending, Kept, AcknowledgedKept
  <2>2. Init => CutsFailed
    BY DEF Init, CutsFailed, cuts, Ragged
  <2> QED
    BY <2>1, <2>2, TypeInit
<1>2. IInv /\ [Next]_vars => IInv'
  <2> SUFFICES ASSUME TypeOK, Appending, CutsFailed, Kept, [Next]_vars
               PROVE  TypeOK' /\ Appending' /\ CutsFailed' /\ Kept'
    OBVIOUS
  <2>1. TypeOK'
    BY TypeStep
  <2> QED
    BY <2>1, AppendingStep, CutsFailedStep, KeptStep
<1>3. IInv => AcknowledgedKept
  BY DEF Kept
<1> HIDE DEF IInv
<1> QED
  BY <1>1, <1>2, <1>3, PTL DEF Spec

(* With everysec a power failure takes at most the acknowledgements of the    *)
(* last second before the latest one, whatever writes and fsyncs fail.        *)
THEOREM LossWindowAlways == Spec => []LossWindow
<1> DEFINE Bounded == policy = "everysec" => Window
<1>1. Init => TypeOK /\ Appending /\ Bounded
  <2>1. Init => Appending /\ Window
    BY DEF Init, Appending, Window
  <2> QED
    BY <2>1, TypeInit
<1>2. TypeOK /\ Appending /\ Bounded /\ [Next]_vars => (TypeOK /\ Appending /\ Bounded)'
  <2> SUFFICES ASSUME TypeOK, Appending, Bounded, [Next]_vars
               PROVE  TypeOK' /\ Appending' /\ Bounded'
    OBVIOUS
  <2>1. TypeOK'
    BY TypeStep
  <2>2. policy' = policy
    BY Zenon DEF Next, Start, open_manifest, create_manifest, open, read_commands, execute,
       Append_, write, written, sync, kill, crash, lose_power, tick, vars, machine
  <2> QED
    BY <2>1, <2>2, AppendingStep, WindowStep
<1>3. TypeOK /\ Bounded => LossWindow
  <2> SUFFICES ASSUME TypeOK, Window, NEW a \in recent, NEW b \in recent, ~synced(a.write)
               PROVE  b.time < a.time + Second
    BY DEF LossWindow
  <2>1. ~Holds(log, durable, a.write)
    BY DEF Holds, synced, Last
  <2>2. last_sync <= a.time /\ b.time < last_sync + Second
    BY <2>1 DEF Window
  <2>3. a.time \in Nat /\ b.time \in Nat /\ last_sync \in Nat /\ Second \in Nat
    BY AofFileAssumption DEF TypeOK
  <2> QED
    BY <2>2, <2>3
<1> HIDE DEF Bounded
<1> QED
  BY <1>1, <1>2, <1>3, PTL DEF Spec
=============================================================================
