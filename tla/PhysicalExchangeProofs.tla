------------------------ MODULE PhysicalExchangeProofs ------------------------
(***************************************************************************)
(* Theorems about the file exchange with the card, for any set of run      *)
(* directories and any number of kills, failures and cleared cards.        *)
(*                                                                         *)
(* A session fixes its four messages, so the invariant says which message  *)
(* a file may hold, and, of the writes a command has still to do, that     *)
(* what each relies on is there or is written before it.                   *)
(***************************************************************************)
EXTENDS PhysicalExchange, SequenceTheorems, TLAPS

-----------------------------------------------------------------------------
(***************************************************************************)
(* The messages of session r                                               *)
(***************************************************************************)

M1(r) == Message1(r)
Op(r) == Opening(M1(r))
M2(r) == [M1(r) EXCEPT !.stage = SIGNER_OPENINGS, !.opening = Op(r)]
M3(r) == [M2(r) EXCEPT !.stage = HOST_REVEAL, !.rho = r]
Sig(r) == AntiExfilSignature(Key, Hash, r, Op(r))
M4(r) == [M3(r) EXCEPT !.stage = SIGNER_SIGNATURES, !.signature = Sig(r)]

StateOf(r) ==
    [phase : {"COMMITMENTS_CREATED", "OPENINGS_ACCEPTED", "COMPLETE"}, session : {r}, rho : {r},
     commitment : {HostCommit(r)}, opening : {Absent, Op(r)}, signature : {Absent, Sig(r)},
     rung : {"B", "C"}]

-----------------------------------------------------------------------------
(***************************************************************************)
(* The inductive invariant                                                 *)
(***************************************************************************)

\* The run directory of r; message 2 or 4 may be another session's.
LocalOk(r) ==
    /\ "state.json" \in DOMAIN local[r] => local[r]["state.json"] \in StateOf(r)
    /\ "message-1" \in DOMAIN local[r] => local[r]["message-1"] = M1(r)
    /\ "message-2" \in DOMAIN local[r] =>
          \E c \in Run : local[r]["message-2"] = M2(c) /\ "message-1" \in DOMAIN local[c]
    /\ "message-3" \in DOMAIN local[r] =>
          /\ local[r]["message-3"] = M3(r)
          /\ {"state.json", "message-1", "message-2"} \subseteq DOMAIN local[r]
          /\ local[r]["state.json"].opening = Op(r)
          /\ local[r]["message-2"] = M2(r)
    /\ "message-4" \in DOMAIN local[r] =>
          \E c \in Run : local[r]["message-4"] = M4(c) /\ "message-3" \in DOMAIN local[c]
    /\ "verified-receipt" \in DOMAIN local[r] =>
          /\ {"message-3", "message-4", "signed.psbt", "transaction.raw", "anti-exfil-receipt"}
                \subseteq DOMAIN local[r]
          /\ local[r]["message-4"] = M4(r)
          /\ local[r]["verified-receipt"] = M4(r)

\* A card prepared for c.
CardOk(c) ==
    /\ "." \in DOMAIN card
    /\ "message-1" \in DOMAIN card =>
          card["message-1"] = M1(c) /\ "message-1" \in DOMAIN local[c]
    /\ "message-2" \in DOMAIN card =>
          card["message-2"] = M2(c) /\ {"message-1", "marker"} \subseteq DOMAIN card
    /\ "message-3" \in DOMAIN card =>
          /\ card["message-3"] = M3(c) /\ "message-2" \in DOMAIN card
          /\ "message-3" \in DOMAIN local[c]
    /\ "message-4" \in DOMAIN card => card["message-4"] = M4(c) /\ "message-3" \in DOMAIN card
    /\ "marker" \in DOMAIN card =>
          /\ card["marker"] \in {HOST_COMMIT, HOST_REVEAL}
          /\ {"request.psbt", "message-1"} \subseteq DOMAIN card
          /\ card["marker"] = HOST_REVEAL => {"message-3", "exit-1"} \subseteq DOMAIN card
    /\ "marker.tmp" \in DOMAIN card =>
          card["marker.tmp"] = HOST_REVEAL /\ {"message-3", "exit-1", "marker"} \subseteq DOMAIN card

CardInv == DOMAIN card = {} \/ \E c \in Run : CardOk(c)

\* By the time of write n the file is there.
Before(n, place, file) ==
    \/ Has(place, host.run, file)
    \/ \E j \in 1..(n - 1) : host.writes[j].place = place /\ host.writes[j].file = file

\* By the time of write n the state holds the opening, and it is not lost again.
OpeningSaved(n) ==
    LET saves == {j \in 1..(n - 1) :
                     host.writes[j].place = "local" /\ host.writes[j].file = "state.json"}
    IN  /\ \/ /\ "state.json" \in DOMAIN local[host.run]
              /\ local[host.run]["state.json"].opening = Op(host.run)
           \/ saves # {}
        /\ \A j \in saves : host.writes[j].data.opening = Op(host.run)

LocalWriteOk(n) ==
    LET w == host.writes[n]
        r == host.run
    IN  /\ w.file # "state.json" => w.exact
        /\ w.file = "state.json" =>
              /\ w.data \in StateOf(r)
              /\ Before(n, "local", "message-3") => w.data.opening = Op(r)
        /\ w.file = "message-1" => w.data = M1(r)
        /\ w.file = "message-2" =>
              \E c \in Run : w.data = M2(c) /\ "message-1" \in DOMAIN local[c]
        /\ w.file = "message-3" =>
              /\ w.data = M3(r)
              /\ {"state.json", "message-1", "message-2"} \subseteq DOMAIN local[r]
              /\ local[r]["message-2"] = M2(r)
              /\ OpeningSaved(n)
        /\ w.file = "message-4" =>
              \E c \in Run : w.data = M4(c) /\ "message-3" \in DOMAIN local[c]
        /\ w.file = "verified-receipt" =>
              /\ w.data = M4(r) /\ {"message-3", "message-4"} \subseteq DOMAIN local[r]
              /\ local[r]["message-4"] = M4(r)
              /\ \A file \in {"signed.psbt", "transaction.raw", "anti-exfil-receipt"} :
                    Before(n, "local", file)

CardWriteOk(n) ==
    LET w == host.writes[n]
        r == host.run
    IN  /\ w.exact
        /\ DOMAIN card = {} \/ CardOk(r)
        /\ w.file \in {".", "request.psbt", "message-1", "marker", "message-3"}
        /\ w.file # "." => Before(n, "card", ".")
        /\ w.file = "message-1" => w.data = M1(r) /\ Before(n, "local", "message-1")
        /\ w.file = "marker" =>
              /\ w.data = HOST_COMMIT
              /\ Before(n, "card", "request.psbt") /\ Before(n, "card", "message-1")
        /\ w.file = "message-3" =>
              /\ w.data = M3(r) /\ CardOk(r) /\ "message-2" \in DOMAIN card
              /\ Before(n, "local", "message-3")

WriteOk(n) ==
    \/ host.writes[n].place = "local" /\ LocalWriteOk(n)
    \/ host.writes[n].place = "card" /\ CardWriteOk(n)

\* The message a command fetched is the card's.
Fetched(stage) ==
    /\ {ExitFile(stage), MessageFile[stage + 1]} \subseteq DOMAIN card
    /\ MessageFile[stage + 1] \in DOMAIN local[host.run]
    /\ local[host.run][MessageFile[stage + 1]] = card[MessageFile[stage + 1]]

Fetching(stage) ==
    /\ {ExitFile(stage), MessageFile[stage + 1]} \subseteq DOMAIN card
    /\ host.writes = <<Exact("local", MessageFile[stage + 1], card[MessageFile[stage + 1]])>>

WritingInv ==
    host.at = "writing" =>
        /\ Len(host.writes) > 0
        /\ \A n \in 1..Len(host.writes) : WriteOk(n)
        /\ host.next \in {"done", "accept", "mark", "complete"}
        /\ host.next = "accept" => Fetching(HOST_COMMIT)
        /\ host.next = "complete" => Fetching(HOST_REVEAL)
        /\ host.next = "mark" =>
              /\ CardOk(host.run) /\ {"exit-1", "message-2"} \subseteq DOMAIN card
              /\ Before(Len(host.writes) + 1, "card", "message-3")

\* Writes are of any data.
WritesTyped == host.at = "writing" => \E S : host.writes \in Seq(S)

HostInv ==
    /\ host.at \in {"idle", "writing", "accept", "mark", "replace", "complete"}
    /\ host.at # "idle" =>
          /\ host.run \in Run /\ holder = "host"
          /\ host = [at |-> host.at, run |-> host.run, writes |-> host.writes, next |-> host.next]
    /\ host.at = "accept" => Fetched(HOST_COMMIT)
    /\ host.at = "complete" => Fetched(HOST_REVEAL)
    /\ host.at \in {"mark", "replace"} => {"exit-1", "message-2", "message-3"} \subseteq DOMAIN card
    /\ host.at = "replace" => "marker.tmp" \in DOMAIN card

HolderInv ==
    /\ holder \in {"host", "signer"}
    /\ pending # Absent => /\ holder = "signer" /\ DOMAIN card # {}
                           /\ pending.stage \in {HOST_COMMIT, HOST_REVEAL}

LocalInv == local = [r \in Run |-> local[r]] /\ \A r \in Run : LocalOk(r)

ExchangeInv == LocalInv /\ CardInv /\ HostInv /\ WritingInv /\ WritesTyped /\ HolderInv

-----------------------------------------------------------------------------
(***************************************************************************)
(* Files and names                                                         *)
(***************************************************************************)

LEMMA WithFile ==
    ASSUME NEW files, NEW file, NEW data
    PROVE  /\ DOMAIN With(files, file, data) = DOMAIN files \union {file}
           /\ With(files, file, data)[file] = data
           /\ \A f \in DOMAIN files : f # file => With(files, file, data)[f] = files[f]
BY DEF With

LEMMA WithoutFile ==
    ASSUME NEW files, NEW file
    PROVE  /\ DOMAIN Without(files, file) = DOMAIN files \ {file}
           /\ \A f \in DOMAIN files \ {file} : Without(files, file)[f] = files[f]
BY DEF Without

LEMMA Names ==
    /\ MessageFile[1] = "message-1" /\ MessageFile[2] = "message-2"
    /\ MessageFile[3] = "message-3" /\ MessageFile[4] = "message-4"
    /\ MessageFile[HOST_COMMIT + 1] = "message-2" /\ MessageFile[HOST_REVEAL + 1] = "message-4"
    /\ ExitFile(HOST_COMMIT) = "exit-1" /\ ExitFile(HOST_REVEAL) = "exit-3"
BY DEF MessageFile, ExitFile, HOST_COMMIT, HOST_REVEAL

LEMMA WriteFields ==
    ASSUME NEW place, NEW file, NEW data
    PROVE  /\ Exact(place, file, data).place = place /\ Replace(place, file, data).place = place
           /\ Exact(place, file, data).file = file /\ Replace(place, file, data).file = file
           /\ Exact(place, file, data).data = data /\ Replace(place, file, data).data = data
           /\ Exact(place, file, data).exact
BY DEF Exact, Replace

LEMMA EmptyDomain == DOMAIN << >> = {}
OBVIOUS

\* A message tells its session, the opening and the rho that are in it.
LEMMA MessageFields ==
    ASSUME NEW r
    PROVE  /\ M1(r).stage = 1 /\ M2(r).stage = 2 /\ M3(r).stage = 3 /\ M4(r).stage = 4
           /\ M1(r).session = r /\ M2(r).session = r /\ M3(r).session = r /\ M4(r).session = r
           /\ M1(r).commitment = HostCommit(r) /\ M2(r).commitment = HostCommit(r)
           /\ M3(r).commitment = HostCommit(r) /\ M4(r).commitment = HostCommit(r)
           /\ M2(r).opening = Op(r) /\ M3(r).opening = Op(r) /\ M4(r).opening = Op(r)
           /\ M3(r).rho = r /\ M4(r).rho = r /\ M4(r).signature = Sig(r)
BY DEF M1, M2, M3, M4, Message1, HOST_COMMIT, SIGNER_OPENINGS, HOST_REVEAL, SIGNER_SIGNATURES

-----------------------------------------------------------------------------
(***************************************************************************)
(* Writes                                                                  *)
(***************************************************************************)

\* Run directories only grow, so what is said of a card stays true.
LEMMA CardKept ==
    ASSUME NEW c, CardOk(c), UNCHANGED card, DOMAIN local[c] \subseteq DOMAIN local[c]'
    PROVE  CardOk(c)'
BY DEF CardOk

\* A write to the run directory leaves it, and every other, as the invariant says.
LEMMA LocalWritten ==
    ASSUME LocalInv, NEW r \in Run, host.run = r, LocalWriteOk(1), MayWrite(host.writes[1], r),
           host.writes[1].place = "local",
           local' = [local EXCEPT ![r] =
                        With(local[r], host.writes[1].file, host.writes[1].data)]
    PROVE  /\ LocalInv'
           /\ \A c \in Run : DOMAIN local[c] \subseteq DOMAIN local'[c]
<1> DEFINE w == host.writes[1]
<1>1. local' = [c \in Run |-> IF c = r THEN With(local[r], w.file, w.data) ELSE local[c]]
  BY DEF LocalInv
<1>2. /\ local' = [c \in Run |-> local'[c]]
      /\ \A c \in Run \ {r} : local'[c] = local[c]
      /\ local'[r] = With(local[r], w.file, w.data)
  BY <1>1
<1>3. /\ DOMAIN local'[r] = DOMAIN local[r] \union {w.file}
      /\ local'[r][w.file] = w.data
      /\ \A f \in DOMAIN local[r] : f # w.file => local'[r][f] = local[r][f]
  BY <1>2 DEF With
<1>4. \A c \in Run : DOMAIN local[c] \subseteq DOMAIN local'[c]
  BY <1>2, <1>3
<1>5. w.file # "state.json" /\ w.file \in DOMAIN local[r] => w.data = local[r][w.file]
  BY DEF LocalWriteOk, MayWrite, Has, Read
<1>6. Before(1, "local", "message-3") <=> "message-3" \in DOMAIN local[r]
  BY DEF Before, Has
<1>7. OpeningSaved(1) => /\ "state.json" \in DOMAIN local[r]
                         /\ local[r]["state.json"].opening = Op(r)
  BY DEF OpeningSaved
<1>8. \A f : Before(1, "local", f) => f \in DOMAIN local[r]
  BY DEF Before, Has
<1>9. LocalOk(r)'
  <2> DEFINE files == local'[r]
  <2>0. LocalOk(r)  BY DEF LocalInv
  <2>7. \A f \in DOMAIN files :
            \/ f = w.file /\ files[f] = w.data
            \/ f # w.file /\ f \in DOMAIN local[r] /\ files[f] = local[r][f]
    BY <1>3
  <2>8. DOMAIN local[r] \subseteq DOMAIN files
    BY <1>3
  <2>9. \A f \in DOMAIN local[r] : f # "state.json" => files[f] = local[r][f]
    BY <1>3, <1>5
  <2> HIDE DEF files
  <2>1. "state.json" \in DOMAIN files => files["state.json"] \in StateOf(r)
    <3>1. w.file = "state.json" => w.data \in StateOf(r)
      BY DEF LocalWriteOk
    <3>2. "state.json" \in DOMAIN local[r] => local[r]["state.json"] \in StateOf(r)
      BY <2>0 DEF LocalOk
    <3> QED  BY <2>7, <3>1, <3>2
  <2>2. "message-1" \in DOMAIN files => files["message-1"] = M1(r)
    <3>1. w.file = "message-1" => w.data = M1(r)
      BY DEF LocalWriteOk
    <3>2. "message-1" \in DOMAIN local[r] => local[r]["message-1"] = M1(r)
      BY <2>0 DEF LocalOk
    <3> QED  BY <2>7, <3>1, <3>2
  <2>3. "message-2" \in DOMAIN files =>
            \E c \in Run : files["message-2"] = M2(c) /\ "message-1" \in DOMAIN local'[c]
    <3>1. w.file = "message-2" =>
              \E c \in Run : w.data = M2(c) /\ "message-1" \in DOMAIN local[c]
      BY DEF LocalWriteOk
    <3>2. "message-2" \in DOMAIN local[r] =>
              \E c \in Run : local[r]["message-2"] = M2(c) /\ "message-1" \in DOMAIN local[c]
      BY <2>0 DEF LocalOk
    <3> QED  BY <1>4, <2>7, <3>1, <3>2
  <2>4. "message-3" \in DOMAIN files =>
            /\ files["message-3"] = M3(r)
            /\ {"state.json", "message-1", "message-2"} \subseteq DOMAIN files
            /\ files["state.json"].opening = Op(r)
            /\ files["message-2"] = M2(r)
    <3>1. CASE w.file = "message-3"
      <4>1. /\ w.data = M3(r) /\ {"state.json", "message-1", "message-2"} \subseteq DOMAIN local[r]
            /\ local[r]["message-2"] = M2(r) /\ local[r]["state.json"].opening = Op(r)
        BY <1>7, <3>1 DEF LocalWriteOk
      <4> QED  BY <2>7, <2>8, <3>1, <4>1
    <3>2. CASE w.file # "message-3"
      <4>1. "message-3" \in DOMAIN local[r] =>
                /\ local[r]["message-3"] = M3(r)
                /\ {"state.json", "message-1", "message-2"} \subseteq DOMAIN local[r]
                /\ local[r]["state.json"].opening = Op(r)
                /\ local[r]["message-2"] = M2(r)
        BY <2>0 DEF LocalOk
      <4>2. "message-3" \in DOMAIN local[r] /\ w.file = "state.json" => w.data.opening = Op(r)
        BY <1>6 DEF LocalWriteOk
      <4> QED  BY <2>7, <2>8, <2>9, <3>2, <4>1, <4>2
    <3> QED  BY <3>1, <3>2
  <2>5. "message-4" \in DOMAIN files =>
            \E c \in Run : files["message-4"] = M4(c) /\ "message-3" \in DOMAIN local'[c]
    <3>1. w.file = "message-4" =>
              \E c \in Run : w.data = M4(c) /\ "message-3" \in DOMAIN local[c]
      BY DEF LocalWriteOk
    <3>2. "message-4" \in DOMAIN local[r] =>
              \E c \in Run : local[r]["message-4"] = M4(c) /\ "message-3" \in DOMAIN local[c]
      BY <2>0 DEF LocalOk
    <3> QED  BY <1>4, <2>7, <3>1, <3>2
  <2>6. "verified-receipt" \in DOMAIN files =>
            /\ {"message-3", "message-4", "signed.psbt", "transaction.raw", "anti-exfil-receipt"}
                  \subseteq DOMAIN files
            /\ files["message-4"] = M4(r)
            /\ files["verified-receipt"] = M4(r)
    <3>1. w.file = "verified-receipt" =>
              /\ w.data = M4(r) /\ local[r]["message-4"] = M4(r)
              /\ {"message-3", "message-4", "signed.psbt", "transaction.raw", "anti-exfil-receipt"}
                    \subseteq DOMAIN local[r]
      BY <1>8 DEF LocalWriteOk
    <3>2. "verified-receipt" \in DOMAIN local[r] =>
              /\ local[r]["verified-receipt"] = M4(r) /\ local[r]["message-4"] = M4(r)
              /\ {"message-3", "message-4", "signed.psbt", "transaction.raw", "anti-exfil-receipt"}
                    \subseteq DOMAIN local[r]
      BY <2>0 DEF LocalOk
    <3> QED  BY <2>7, <2>8, <2>9, <3>1, <3>2
  <2> QED  BY <2>1, <2>2, <2>3, <2>4, <2>5, <2>6 DEF LocalOk, files
<1>10. \A c \in Run \ {r} : LocalOk(c)'
  <2>1. SUFFICES ASSUME NEW c \in Run \ {r}
                 PROVE  LocalOk(c)'
    OBVIOUS
  <2>2. LocalOk(c) /\ local'[c] = local[c]
    BY <1>2 DEF LocalInv
  <2> QED  BY <1>4, <2>2 DEF LocalOk
<1> QED  BY <1>2, <1>4, <1>9, <1>10 DEF LocalInv

\* A write to the card leaves it prepared for the run that writes.
LEMMA CardWritten ==
    ASSUME NEW r \in Run, host.run = r, CardWriteOk(1), MayWrite(host.writes[1], r),
           host.writes[1].place = "card", UNCHANGED local,
           card' = With(card, host.writes[1].file, host.writes[1].data)
    PROVE  /\ CardOk(r)'
           /\ DOMAIN card' = DOMAIN card \union {host.writes[1].file}
<1> DEFINE w == host.writes[1]
<1>1. /\ DOMAIN card' = DOMAIN card \union {w.file}
      /\ card'[w.file] = w.data
      /\ \A f \in DOMAIN card : f # w.file => card'[f] = card[f]
  BY DEF With
<1>2. \A f : Before(1, "card", f) => f \in DOMAIN card
  BY DEF Before, Has
<1>3. \A f : Before(1, "local", f) => f \in DOMAIN local[r]
  BY DEF Before, Has
<1>4. w.file \in DOMAIN card => w.data = card[w.file]
  BY DEF CardWriteOk, MayWrite, Has, Read
<1>5. \A f \in DOMAIN card : card'[f] = card[f]
  BY <1>1, <1>4
<1>6. CASE DOMAIN card = {}
  BY <1>1, <1>2, <1>3, <1>6 DEF CardWriteOk, CardOk
<1>7. CASE CardOk(r)
  <2> USE <1>1, <1>5
  <2>1. CASE w.file \in {".", "request.psbt"}
    BY <2>1, <1>7 DEF CardOk
  <2>2. CASE w.file = "message-1"
    BY <2>2, <1>3, <1>7 DEF CardOk, CardWriteOk
  <2>3. CASE w.file = "marker"
    BY <2>3, <1>2, <1>4, <1>7 DEF CardOk, CardWriteOk, HOST_COMMIT, HOST_REVEAL
  <2>4. CASE w.file = "message-3"
    BY <2>4, <1>3, <1>7 DEF CardOk, CardWriteOk
  <2> QED  BY <2>1, <2>2, <2>3, <2>4 DEF CardWriteOk
<1> QED  BY <1>1, <1>6, <1>7 DEF CardWriteOk

\* What a later write relies on is still there, or written, when the first one is done.
LEMMA WritesShift ==
    ASSUME NEW r \in Run, host.run = r, NEW S, host.writes \in Seq(S), Len(host.writes) > 1,
           host'.run = r, host'.writes = Tail(host.writes),
           LocalInv, WriteOk(1), MayWrite(host.writes[1], r),
           \/ /\ host.writes[1].place = "local" /\ UNCHANGED card
              /\ local' = [local EXCEPT ![r] =
                             With(local[r], host.writes[1].file, host.writes[1].data)]
           \/ /\ host.writes[1].place = "card" /\ UNCHANGED local
              /\ card' = With(card, host.writes[1].file, host.writes[1].data),
           CardOk(r) => CardOk(r)',
           host.writes[1].place = "card" => CardOk(r)',
           \A c \in Run : DOMAIN local[c] \subseteq DOMAIN local'[c],
           NEW n \in 1..Len(host.writes)
    PROVE  /\ \A p \in {"local", "card"} : \A f : Before(n + 1, p, f) <=> Before(n, p, f)'
           /\ n < Len(host.writes) /\ WriteOk(n + 1) => WriteOk(n)'
<1> DEFINE w == host.writes[1]
<1>1. /\ Len(host'.writes) = Len(host.writes) - 1
      /\ \A j \in 1..(Len(host.writes) - 1) : host'.writes[j] = host.writes[j + 1]
      /\ Len(host.writes) \in Nat
  BY HeadTailProperties
<1>2. /\ w.place = "local" => /\ DOMAIN local'[r] = DOMAIN local[r] \union {w.file}
                              /\ local'[r][w.file] = w.data
                              /\ \A f \in DOMAIN local[r] : f # w.file => local'[r][f] = local[r][f]
                              /\ DOMAIN card' = DOMAIN card /\ card' = card
      /\ w.place # "local" => /\ DOMAIN card' = DOMAIN card \union {w.file}
                              /\ local' = local
  BY DEF LocalInv, With
<1>3. w.place \in {"local", "card"}
  BY DEF WriteOk
<1>4. \A p \in {"local", "card"} : \A f :
          Has(p, r, f)' <=> Has(p, r, f) \/ (p = w.place /\ f = w.file)
  BY <1>2, <1>3 DEF Has
<1>5. \A p \in {"local", "card"} : \A f : Before(n + 1, p, f) <=> Before(n, p, f)'
  <2> SUFFICES ASSUME NEW p \in {"local", "card"}, NEW f
               PROVE  Before(n + 1, p, f) <=> Before(n, p, f)'
    OBVIOUS
  <2> DEFINE Listed(j) == host.writes[j].place = p /\ host.writes[j].file = f
  <2>1. Before(n, p, f)' <=> \/ Has(p, r, f) \/ Listed(1)
                             \/ \E j \in 1..(n - 1) : Listed(j + 1)
    BY <1>1, <1>4 DEF Before
  <2>2. Before(n + 1, p, f) <=> Has(p, r, f) \/ \E j \in 1..n : Listed(j)
    BY DEF Before
  <2>3. (\E j \in 1..n : Listed(j)) <=> Listed(1) \/ \E j \in 1..(n - 1) : Listed(j + 1)
    <3>1. \A j \in 1..n : j = 1 \/ (j - 1 \in 1..(n - 1) /\ (j - 1) + 1 = j)
      BY <1>1
    <3>2. 1 \in 1..n /\ \A j \in 1..(n - 1) : j + 1 \in 1..n
      BY <1>1
    <3> HIDE DEF Listed
    <3> QED  BY <3>1, <3>2
  <2> QED  BY <2>1, <2>2, <2>3
<1>6. n < Len(host.writes) => host'.writes[n] = host.writes[n + 1]
  BY <1>1
<1>7. ASSUME n < Len(host.writes), LocalWriteOk(n + 1)
      PROVE  LocalWriteOk(n)'
  <2> DEFINE v == host.writes[n + 1]
  <2>1. /\ (v.file # "state.json" => v.exact)
        /\ v.file = "message-1" => v.data = M1(r)
        /\ v.file = "message-2" =>
              \E c \in Run : v.data = M2(c) /\ "message-1" \in DOMAIN local'[c]
        /\ v.file = "message-4" =>
              \E c \in Run : v.data = M4(c) /\ "message-3" \in DOMAIN local'[c]
    BY <1>7 DEF LocalWriteOk
  <2>2. v.file = "state.json" =>
            /\ v.data \in StateOf(r)
            /\ Before(n, "local", "message-3")' => v.data.opening = Op(r)
    BY <1>7, <1>5 DEF LocalWriteOk
  <2>3. ASSUME v.file = "message-3"
        PROVE  OpeningSaved(n)'
    <3> DEFINE Saves(j) == host.writes[j].place = "local" /\ host.writes[j].file = "state.json"
               SavedNow == /\ "state.json" \in DOMAIN local[r]
                           /\ local[r]["state.json"].opening = Op(r)
    <3>1. OpeningSaved(n + 1)
      BY <1>7, <2>3 DEF LocalWriteOk
    <3>2. /\ SavedNow \/ \E j \in 1..n : Saves(j)
          /\ \A j \in 1..n : Saves(j) => host.writes[j].data.opening = Op(r)
      BY <3>1 DEF OpeningSaved
    <3>3. /\ SavedNow' \/ \E j \in 1..(n - 1) : Saves(j + 1)
          /\ \A j \in 1..(n - 1) : Saves(j + 1) => host.writes[j + 1].data.opening = Op(r)
      <4>1. \A j \in 1..n : j = 1 \/ (j - 1 \in 1..(n - 1) /\ (j - 1) + 1 = j)
        BY <1>1
      <4>2. 1 \in 1..n /\ \A j \in 1..(n - 1) : j + 1 \in 1..n
        BY <1>1
      <4>3. Saves(1) => SavedNow'
        BY <1>2, <3>2, <4>2
      <4>4. ~Saves(1) /\ SavedNow => SavedNow'
        BY <1>2, <1>3
      <4>5. \A j \in 1..(n - 1) : Saves(j + 1) => host.writes[j + 1].data.opening = Op(r)
        BY <3>2, <4>2
      <4>6. (\E j \in 1..n : Saves(j)) => Saves(1) \/ \E j \in 1..(n - 1) : Saves(j + 1)
        BY <4>1
      <4> HIDE DEF Saves, SavedNow
      <4> QED  BY <3>2, <4>3, <4>4, <4>5, <4>6
    <3>4. \A j \in 1..(n - 1) : host'.writes[j] = host.writes[j + 1]
      BY <1>1
    <3> QED  BY <3>3, <3>4 DEF OpeningSaved
  <2>4. \A f \in {"message-2", "message-4"} : f \in DOMAIN local[r] =>
            f \in DOMAIN local'[r] /\ local'[r][f] = local[r][f]
    BY <1>2, <1>3 DEF WriteOk, LocalWriteOk, MayWrite, Has, Read
  <2>5. v.file = "message-3" =>
            /\ v.data = M3(r)
            /\ {"state.json", "message-1", "message-2"} \subseteq DOMAIN local'[r]
            /\ local'[r]["message-2"] = M2(r)
    BY <1>7, <2>4 DEF LocalWriteOk
  <2>6. v.file = "verified-receipt" =>
            /\ v.data = M4(r) /\ {"message-3", "message-4"} \subseteq DOMAIN local'[r]
            /\ local'[r]["message-4"] = M4(r)
            /\ \A file \in {"signed.psbt", "transaction.raw", "anti-exfil-receipt"} :
                  Before(n, "local", file)'
    BY <1>7, <1>5, <2>4 DEF LocalWriteOk
  <2> QED  BY <1>6, <1>7, <2>1, <2>2, <2>3, <2>5, <2>6 DEF LocalWriteOk
<1>8. ASSUME n < Len(host.writes), CardWriteOk(n + 1)
      PROVE  CardWriteOk(n)'
  <2> DEFINE v == host.writes[n + 1]
  <2>1. DOMAIN card' = {} \/ CardOk(r)'
    BY <1>2, <1>3, <1>8 DEF CardWriteOk
  <2>2. v.file = "message-3" => CardOk(r)' /\ "message-2" \in DOMAIN card'
    BY <1>2, <1>3, <1>8 DEF CardWriteOk
  <2> QED  BY <1>5, <1>6, <1>8, <2>1, <2>2 DEF CardWriteOk
<1> QED  BY <1>5, <1>6, <1>7, <1>8 DEF WriteOk

\* One write of a command, the last one included.
LEMMA WriteStep == ExchangeInv /\ Write => ExchangeInv'
<1> SUFFICES ASSUME ExchangeInv, Write
             PROVE  ExchangeInv'
  OBVIOUS
<1> DEFINE w == host.writes[1]
<1>1. PICK r \in Run : host.run = r /\ holder = "host" /\ host.at = "writing"
  BY DEF ExchangeInv, HostInv, Write
<1>2. PICK S : host.writes \in Seq(S)
  BY <1>1 DEF ExchangeInv, WritesTyped
<1>3. Head(host.writes) = w /\ Len(host.writes) \in Nat /\ Len(host.writes) > 0
  BY <1>1, <1>2 DEF ExchangeInv, WritingInv
<1>0. /\ Len(host.writes) = 1 \/ Len(host.writes) > 1
      /\ ~(Len(host.writes) = 1 /\ Len(host.writes) > 1)
  <2> DEFINE k == Len(host.writes)
  <2>1. k \in Nat /\ k > 0  BY <1>3
  <2> HIDE DEF k
  <2>2. (k = 1 \/ k > 1) /\ ~(k = 1 /\ k > 1)  BY <2>1
  <2> QED  BY <2>2 DEF k
<1>4. WriteOk(1) /\ MayWrite(w, r)
  BY <1>0, <1>1, <1>3 DEF ExchangeInv, WritingInv, Write
<1>5. LocalInv /\ CardInv  BY DEF ExchangeInv
<1>6. \/ /\ w.place = "local" /\ UNCHANGED card
         /\ local' = [local EXCEPT ![r] = With(local[r], w.file, w.data)]
      \/ w.place = "card" /\ UNCHANGED local /\ card' = With(card, w.file, w.data)
  BY <1>1, <1>3, <1>4 DEF Write, WriteOk
<1>7. LocalInv' /\ \A c \in Run : DOMAIN local[c] \subseteq DOMAIN local'[c]
  <2>1. CASE w.place = "local"
    BY <1>1, <1>4, <1>5, <1>6, <2>1, LocalWritten DEF WriteOk
  <2>2. CASE w.place = "card"
    BY <1>5, <1>6, <2>2 DEF LocalInv, LocalOk
  <2> QED  BY <1>6, <2>1, <2>2
<1>8. /\ w.place = "card" => CardOk(r)' /\ DOMAIN card' = DOMAIN card \union {w.file}
      /\ w.place = "local" => card' = card
  <2>1. CASE w.place = "card"
    <3>1. CardWriteOk(1) /\ UNCHANGED local /\ card' = With(card, w.file, w.data)
      BY <1>4, <1>6, <2>1 DEF WriteOk
    <3> QED  BY <1>1, <1>4, <2>1, <3>1, CardWritten
  <2>2. CASE w.place = "local"
    BY <1>6, <2>2
  <2> QED  BY <1>6, <2>1, <2>2
<1>9. w.place = "local" => \A c \in Run : CardOk(c) => CardOk(c)'
  BY <1>7, <1>8, CardKept
<1>10. CardInv' /\ (CardOk(r) => CardOk(r)')
  <2>1. CASE w.place = "card"
    BY <1>1, <1>8, <2>1 DEF CardInv
  <2>2. CASE w.place = "local"
    BY <1>1, <1>5, <1>8, <1>9, <2>2 DEF CardInv
  <2> QED  BY <1>6, <2>1, <2>2
<1>11. holder' = holder /\ pending' = pending  BY DEF Write
<1>12. HolderInv'  BY <1>1, <1>11 DEF ExchangeInv, HolderInv
<1>13. host = [at |-> host.at, run |-> r, writes |-> host.writes, next |-> host.next]
  BY <1>1 DEF ExchangeInv, HostInv
<1>14. CASE Len(host.writes) > 1
  <2>1. host' = [host EXCEPT !.writes = Tail(host.writes)]
    BY <1>0, <1>14 DEF Write
  <2>2. /\ host'.at = "writing" /\ host'.run = r /\ host'.next = host.next
        /\ host'.writes = Tail(host.writes)
        /\ host' = [at |-> host'.at, run |-> host'.run, writes |-> host'.writes,
                    next |-> host'.next]
    BY <1>1, <1>13, <2>1
  <2>3. Len(host'.writes) = Len(host.writes) - 1 /\ host'.writes \in Seq(S)
    BY <1>2, <1>14, <2>2, HeadTailProperties
  <2>4. \A n \in 1..Len(host.writes) :
            /\ \A p \in {"local", "card"} : \A f : Before(n + 1, p, f) <=> Before(n, p, f)'
            /\ n < Len(host.writes) /\ WriteOk(n + 1) => WriteOk(n)'
    BY <1>1, <1>2, <1>4, <1>5, <1>6, <1>7, <1>8, <1>10, <1>14, <2>2, WritesShift
  <2>5. \A n \in 1..Len(host'.writes) : WriteOk(n)'
    BY <1>1, <1>3, <2>3, <2>4 DEF ExchangeInv, WritingInv
  <2>6. host.next \in {"done", "mark"}
    <3>1. ASSUME NEW stage, Fetching(stage)
          PROVE  FALSE
      BY <1>14, <3>1 DEF Fetching
    <3> QED  BY <1>1, <3>1 DEF ExchangeInv, WritingInv
  <2>7. host.next = "mark" =>
            /\ CardOk(r)' /\ {"exit-1", "message-2"} \subseteq DOMAIN card'
            /\ Before(Len(host.writes) + 1, "card", "message-3")'
    <3>1. SUFFICES ASSUME host.next = "mark"
                   PROVE  /\ CardOk(r)' /\ {"exit-1", "message-2"} \subseteq DOMAIN card'
                          /\ Before(Len(host.writes) + 1, "card", "message-3")'
      OBVIOUS
    <3>2. /\ CardOk(r) /\ {"exit-1", "message-2"} \subseteq DOMAIN card
          /\ Before(Len(host.writes) + 1, "card", "message-3")
      BY <1>1, <3>1 DEF ExchangeInv, WritingInv
    <3>3. PICK k \in 1..Len(host.writes) : k = Len(host.writes) /\ Len(host'.writes) + 1 = k
      BY <1>3, <1>14, <2>3
    <3>4. Before(k + 1, "card", "message-3") => Before(k, "card", "message-3")'
      BY <2>4, <3>3
    <3>6. Before(k, "card", "message-3")' => Before(Len(host.writes) + 1, "card", "message-3")'
      BY <3>3 DEF Before, Has
    <3>5. DOMAIN card \subseteq DOMAIN card'
      BY <1>6, <1>8
    <3> QED  BY <1>10, <3>2, <3>3, <3>4, <3>5, <3>6
  <2>8. HostInv'  BY <1>1, <1>11, <2>2 DEF HostInv
  <2>9. WritingInv'
    <3>1. Len(host'.writes) > 0  BY <1>3, <1>14, <2>3
    <3>2. host'.next # "accept" /\ host'.next # "complete"  BY <2>2, <2>6
    <3> QED  BY <2>2, <2>5, <2>6, <2>7, <3>1, <3>2 DEF WritingInv
  <2>10. WritesTyped'  BY <2>3 DEF WritesTyped
  <2> QED  BY <1>7, <1>10, <1>12, <2>8, <2>9, <2>10 DEF ExchangeInv
<1>15. CASE Len(host.writes) = 1
  <2>1. host' = IF host.next = "done" THEN Idle
                ELSE [Doing(r, << >>, host.next) EXCEPT !.at = host.next]
    BY <1>1, <1>15 DEF Write
  <2>2. ASSUME NEW stage \in {HOST_COMMIT, HOST_REVEAL}, Fetching(stage), host'.run = r
        PROVE  Fetched(stage)'
    <3>1. PICK file : file = MessageFile[stage + 1]
      OBVIOUS
    <3>2. w.place = "local" /\ w.file = file /\ w.data = card[file]
      BY <2>2, <3>1 DEF Fetching, Exact
    <3>3. local' = [local EXCEPT ![r] = With(local[r], file, card[file])] /\ UNCHANGED card
      BY <1>6, <3>2
    <3>4. file \in DOMAIN local'[r] /\ local'[r][file] = card[file]
      BY <1>5, <3>3 DEF LocalInv, With
    <3> QED  BY <2>2, <3>1, <3>3, <3>4 DEF Fetching, Fetched
  <2>3. /\ host.next \in {"done", "accept", "mark", "complete"}
        /\ host'.at = IF host.next = "done" THEN "idle" ELSE host.next
        /\ host.next # "done" =>
              /\ host'.run = r
              /\ host' = [at |-> host'.at, run |-> host'.run, writes |-> host'.writes,
                          next |-> host'.next]
    BY <1>1, <2>1 DEF ExchangeInv, WritingInv, Idle, Doing
  <2>4. /\ host.next = "accept" => Fetched(HOST_COMMIT)'
        /\ host.next = "complete" => Fetched(HOST_REVEAL)'
    BY <1>1, <2>2, <2>3 DEF ExchangeInv, WritingInv
  <2>5. host.next = "mark" => {"exit-1", "message-2", "message-3"} \subseteq DOMAIN card'
    <3>1. SUFFICES ASSUME host.next = "mark"
                   PROVE  {"exit-1", "message-2", "message-3"} \subseteq DOMAIN card'
      OBVIOUS
    <3>2. {"exit-1", "message-2"} \subseteq DOMAIN card
      BY <1>1, <3>1 DEF ExchangeInv, WritingInv
    <3>3. Before(2, "card", "message-3")
      BY <1>1, <1>15, <3>1 DEF ExchangeInv, WritingInv
    <3>4. "message-3" \in DOMAIN card \/ (w.place = "card" /\ w.file = "message-3")
      BY <3>3 DEF Before, Has
    <3> QED  BY <1>6, <1>8, <3>2, <3>4
  <2>6. HostInv'
    BY <1>1, <1>11, <2>3, <2>4, <2>5 DEF HostInv
  <2>7. WritingInv' /\ WritesTyped'
    BY <2>3 DEF WritingInv, WritesTyped
  <2> QED  BY <1>7, <1>10, <1>12, <2>6, <2>7 DEF ExchangeInv
<1> QED  BY <1>0, <1>14, <1>15

-----------------------------------------------------------------------------
(***************************************************************************)
(* The other steps                                                         *)
(***************************************************************************)

LEMMA FilesKept == LocalInv /\ CardInv /\ UNCHANGED <<local, card>> => LocalInv' /\ CardInv'
BY DEF LocalInv, LocalOk, CardInv, CardOk

LEMMA InitHolds == Init => ExchangeInv
<1> SUFFICES ASSUME Init PROVE ExchangeInv
  OBVIOUS
<1>1. LocalInv
  BY EmptyDomain DEF Init, LocalInv, LocalOk
<1>2. CardInv
  BY EmptyDomain DEF Init, CardInv
<1>3. HostInv /\ WritingInv /\ WritesTyped /\ HolderInv
  BY DEF Init, Idle, HostInv, WritingInv, WritesTyped, HolderInv
<1> QED  BY <1>1, <1>2, <1>3 DEF ExchangeInv

\* The command ends, by refusal or by a kill.
LEMMA EndStep ==
    ASSUME ExchangeInv, host' = Idle, UNCHANGED <<local, card, holder, pending>>
    PROVE  ExchangeInv'
<1>1. HostInv' /\ WritingInv' /\ WritesTyped' /\ HolderInv'
  BY DEF ExchangeInv, Idle, HostInv, WritingInv, WritesTyped, HolderInv
<1> QED  BY <1>1, FilesKept DEF ExchangeInv

\* A command starts or goes on to a list of writes.
LEMMA StartStep ==
    ASSUME ExchangeInv, NEW r \in Run, NEW writes, NEW next, host' = Doing(r, writes, next),
           holder = "host", UNCHANGED <<local, card, holder, pending>>,
           NEW S, writes \in Seq(S), WritingInv'
    PROVE  ExchangeInv'
<1>1. HostInv' /\ WritesTyped' /\ HolderInv'
  BY DEF ExchangeInv, Doing, HostInv, WritesTyped, HolderInv
<1> QED  BY <1>1, FilesKept DEF ExchangeInv

LEMMA PrepareStep == ASSUME NEW r \in Run PROVE ExchangeInv /\ Prepare(r) => ExchangeInv'
<1> SUFFICES ASSUME ExchangeInv, Prepare(r)
             PROVE  ExchangeInv'
  OBVIOUS
<1> DEFINE writes == PrepareWrites(r)
           S == {writes[n] : n \in 1..11}
<1>1. /\ host' = Doing(r, writes, "done")
      /\ local[r] = << >> /\ "." \notin DOMAIN card /\ holder = "host"
      /\ UNCHANGED <<local, card, holder, pending>>
  BY DEF Prepare, MayStart
<1>2. DOMAIN local[r] = {} /\ DOMAIN card = {}
  BY <1>1, EmptyDomain DEF ExchangeInv, CardInv, CardOk
<1>3. /\ writes \in Seq(S) /\ Len(writes) = 11
      /\ writes[1] = Exact("local", ".", "directory")
      /\ writes[2] = Exact("card", ".", "directory")
      /\ writes[3] = Exact("local", "request.psbt", "fixture")
      /\ writes[4] = Replace("local", "state.json", InitialState(r))
      /\ writes[5] = Exact("local", "message-1", Message1(r))
      /\ writes[6] = Replace("local", "state.json", [InitialState(r) EXCEPT !.rung = "C"])
      /\ writes[7] = Exact("local", "original.psbt", "fixture")
      /\ writes[8] = Exact("card", "request.psbt", "fixture")
      /\ writes[9] = Exact("card", "message-1", Message1(r))
      /\ writes[10] = Exact("card", "marker", HOST_COMMIT)
      /\ writes[11] = Exact("local", "prepare-receipt", "prepared")
  BY DEF PrepareWrites
<1> HIDE DEF writes
<1>4. host'.run = r /\ host'.writes = writes /\ host'.next = "done"
  BY <1>1 DEF Doing
<1>5. \A n \in {4, 6} : ~Before(n, "local", "message-3")'
  <2>1. \A j \in {1, 2, 3, 4, 5} : writes[j].file # "message-3"
    <3>1. /\ writes[1].file = "." /\ writes[2].file = "." /\ writes[3].file = "request.psbt"
          /\ writes[4].file = "state.json" /\ writes[5].file = "message-1"
      BY <1>3, WriteFields
    <3> QED  BY <3>1
  <2>2. \A n \in {4, 6} : \A j \in 1..(n - 1) : j \in {1, 2, 3, 4, 5}
    OBVIOUS
  <2>3. \A n \in {4, 6} : Before(n, "local", "message-3")' <=>
            \/ "message-3" \in DOMAIN local[r]
            \/ \E j \in 1..(n - 1) : writes[j].place = "local" /\ writes[j].file = "message-3"
    BY <1>1, <1>4 DEF Before, Has
  <2> QED  BY <1>2, <2>1, <2>2, <2>3
<1>6. /\ InitialState(r) \in StateOf(r)
      /\ [InitialState(r) EXCEPT !.rung = "C"] \in StateOf(r)
  BY DEF InitialState, StateOf
<1>7. \A n \in {1, 3, 4, 5, 6, 7, 11} : WriteOk(n)'
  <2>1. \A n \in {4, 6} : WriteOk(n)'
    <3>1. \A n \in {4, 6} : /\ writes[n].place = "local" /\ writes[n].file = "state.json"
                             /\ writes[n].data \in StateOf(r)
      BY <1>3, <1>6, WriteFields
    <3>2. \A n \in {4, 6} : LocalWriteOk(n)'
      BY <1>4, <1>5, <3>1 DEF LocalWriteOk
    <3> QED  BY <1>4, <3>1, <3>2 DEF WriteOk
  <2>2. WriteOk(5)'
    BY <1>3, <1>4 DEF WriteOk, LocalWriteOk, Exact, M1
  <2>3. \A n \in {1, 3, 7, 11} : WriteOk(n)'
    BY <1>3, <1>4 DEF WriteOk, LocalWriteOk, Exact
  <2> QED  BY <2>1, <2>2, <2>3
<1>8. /\ Before(8, "card", ".")' /\ Before(9, "card", ".")' /\ Before(10, "card", ".")'
      /\ Before(9, "local", "message-1")'
      /\ Before(10, "card", "request.psbt")' /\ Before(10, "card", "message-1")'
  BY <1>3, <1>4 DEF Before, Exact
<1>9. \A n \in {2, 8, 9, 10} : WriteOk(n)'
  BY <1>1, <1>2, <1>3, <1>4, <1>8 DEF WriteOk, CardWriteOk, Exact, M1
<1>10. \A n \in 1..11 : n \in {1, 3, 4, 5, 6, 7, 11} \/ n \in {2, 8, 9, 10}
  OBVIOUS
<1>11. WritingInv'
  <2>1. \A n \in 1..11 : WriteOk(n)'
    BY <1>7, <1>9, <1>10
  <2>2. Len(host'.writes) = 11
    BY <1>3, <1>4
  <2> QED  BY <1>4, <2>1, <2>2 DEF WritingInv
<1> QED  BY <1>1, <1>3, <1>11, StartStep

LEMMA FetchStep ==
    ASSUME ExchangeInv, NEW r \in Run, NEW stage \in {HOST_COMMIT, HOST_REVEAL}, NEW next,
           Fetch(r, stage, next),
           next = IF stage = HOST_COMMIT THEN "accept" ELSE "complete"
    PROVE  ExchangeInv'
<1> DEFINE file == MessageFile[stage + 1]
           write == Exact("local", file, card[file])
<1>1. /\ {ExitFile(stage), file} \subseteq DOMAIN card
      /\ host' = Doing(r, <<write>>, next) /\ holder = "host"
      /\ UNCHANGED <<local, card, holder, pending>>
  BY DEF Fetch, MayStart
<1>2. host'.run = r /\ host'.writes = <<write>> /\ host'.next = next
  BY <1>1 DEF Doing
<1>3. Fetching(stage)'
  BY <1>1, <1>2 DEF Fetching
<1>4. PICK c \in Run : CardOk(c)
  BY <1>1 DEF ExchangeInv, CardInv
<1>5. file \in {"message-2", "message-4"}
  BY Names
<1>6. LocalWriteOk(1)'
  <2>1. host'.writes[1].file = file /\ host'.writes[1].data = card[file] /\ host'.writes[1].exact
    BY <1>2 DEF Exact
  <2>2. CASE file = "message-2"
    <3>1. card[file] = M2(c) /\ "message-1" \in DOMAIN local'[c]
      BY <1>1, <1>4, <2>2 DEF CardOk
    <3> QED  BY <2>1, <2>2, <3>1 DEF LocalWriteOk
  <2>3. CASE file = "message-4"
    <3>1. card[file] = M4(c) /\ "message-3" \in DOMAIN local'[c]
      BY <1>1, <1>4, <2>3 DEF CardOk
    <3> QED  BY <2>1, <2>3, <3>1 DEF LocalWriteOk
  <2> QED  BY <1>5, <2>2, <2>3
<1>7. WriteOk(1)'
  BY <1>2, <1>6 DEF WriteOk, Exact
<1>8. WritingInv'
  BY <1>2, <1>3, <1>7 DEF WritingInv, HOST_COMMIT, HOST_REVEAL
<1>9. <<write>> \in Seq({write})
  OBVIOUS
<1> QED  BY <1>1, <1>8, <1>9, StartStep

\* A message on the card and its copy in the run directory, of the session they belong to.
LEMMA FetchedFrom ==
    ASSUME ExchangeInv, NEW stage \in {HOST_COMMIT, HOST_REVEAL}, Fetched(stage)
    PROVE  \E c \in Run : /\ CardOk(c)
                          /\ local[host.run][MessageFile[stage + 1]] =
                                IF stage = HOST_COMMIT THEN M2(c) ELSE M4(c)
<1>1. PICK c \in Run : CardOk(c)
  BY DEF ExchangeInv, CardInv, Fetched
<1> QED  BY <1>1, Names DEF Fetched, CardOk, HOST_COMMIT, HOST_REVEAL

LEMMA AcceptStep == ExchangeInv /\ Accept => ExchangeInv'
<1> SUFFICES ASSUME ExchangeInv, Accept
             PROVE  ExchangeInv'
  OBVIOUS
<1>1. PICK r \in Run : host.run = r /\ holder = "host" /\ Fetched(HOST_COMMIT)
  BY DEF ExchangeInv, HostInv, Accept
<1> DEFINE s == local[r]["state.json"]
           m == local[r]["message-2"]
           writes == AcceptWrites(r, m)
           saved == [s EXCEPT !.opening = m.opening,
                              !.phase = IF s.phase = "COMPLETE" THEN "COMPLETE"
                                                                ELSE "OPENINGS_ACCEPTED"]
<1>2. /\ OpeningAccepted(r, m) /\ host' = Doing(r, writes, "mark")
      /\ UNCHANGED <<local, card, holder, pending>>
  BY <1>1 DEF Accept
<1>3. LocalOk(r)
  BY DEF ExchangeInv, LocalInv
<1>4. "state.json" \in DOMAIN local[r] /\ s \in StateOf(r) /\ m.session = s.session
  BY <1>2, <1>3 DEF OpeningAccepted, SameContext, LocalOk
<1>5. PICK c \in Run : CardOk(c) /\ m = M2(c)
  BY <1>1, FetchedFrom, Names
<1>6. c = r
  BY <1>4, <1>5, MessageFields DEF StateOf
<1>7. CardOk(r) /\ m = M2(r) /\ m.opening = Op(r)
  BY <1>5, <1>6, MessageFields
<1>8. {"exit-1", "message-2"} \subseteq DOMAIN card /\ "message-2" \in DOMAIN local[r]
  BY <1>1, Names DEF Fetched
<1>9. "message-1" \in DOMAIN local[r]
  BY <1>7, <1>8 DEF CardOk
<1>10. saved \in StateOf(r) /\ saved.opening = Op(r)
  BY <1>4, <1>7 DEF StateOf
<1>11. RevealOf(s, m) = M3(r)
  BY <1>4, <1>7 DEF RevealOf, M3, StateOf
<1>12. /\ writes = <<Replace("local", "state.json", saved), Exact("local", "message-3", M3(r)),
                     Exact("card", "message-3", M3(r))>>
  BY <1>11 DEF AcceptWrites
<1> HIDE DEF saved, writes
<1>13. /\ host'.run = r /\ host'.writes = writes /\ host'.next = "mark"
       /\ Len(writes) = 3
       /\ writes[1] = Replace("local", "state.json", saved)
       /\ writes[2] = Exact("local", "message-3", M3(r))
       /\ writes[3] = Exact("card", "message-3", M3(r))
  BY <1>2, <1>12 DEF Doing
<1>14. WriteOk(1)'
  BY <1>10, <1>13, WriteFields DEF WriteOk, LocalWriteOk
<1>15. OpeningSaved(2)'
  BY <1>10, <1>13, WriteFields DEF OpeningSaved
<1>16. WriteOk(2)'
  BY <1>2, <1>4, <1>7, <1>8, <1>9, <1>13, <1>15, WriteFields DEF WriteOk, LocalWriteOk
<1>17. Before(3, "local", "message-3")' /\ Before(4, "card", "message-3")'
  BY <1>13, WriteFields DEF Before
<1>18. CardOk(r)'
  BY <1>2, <1>7 DEF CardOk
<1>19. Before(3, "card", ".")'
  BY <1>13, <1>18 DEF Before, Has, CardOk
<1>20. WriteOk(3)'
  BY <1>2, <1>8, <1>13, <1>17, <1>18, <1>19, WriteFields DEF WriteOk, CardWriteOk
<1>21. WritingInv'
  <2>1. \A n \in 1..3 : WriteOk(n)'
    BY <1>14, <1>16, <1>20
  <2>2. Len(host'.writes) = 3
    BY <1>13
  <2>3. Before(Len(host.writes) + 1, "card", "message-3")'
    BY <1>17, <2>2 DEF Before, Has
  <2>4. host'.run = r /\ host'.next = "mark" /\ {"exit-1", "message-2"} \subseteq DOMAIN card'
    BY <1>2, <1>8, <1>13
  <2> QED  BY <1>18, <2>1, <2>2, <2>3, <2>4 DEF WritingInv
<1>22. writes \in Seq({writes[1], writes[2], writes[3]})
  BY <1>12
<1> QED  BY <1>1, <1>2, <1>21, <1>22, StartStep

LEMMA CompleteStep == ExchangeInv /\ Complete => ExchangeInv'
<1> SUFFICES ASSUME ExchangeInv, Complete
             PROVE  ExchangeInv'
  OBVIOUS
<1>1. PICK r \in Run : host.run = r /\ holder = "host" /\ Fetched(HOST_REVEAL)
  BY DEF ExchangeInv, HostInv, Complete
<1> DEFINE s == local[r]["state.json"]
           m == local[r]["message-4"]
           writes == CompleteWrites(r, m)
           saved == [s EXCEPT !.phase = "COMPLETE", !.signature = m.signature]
<1>2. /\ SignatureAccepted(r, m) /\ host' = Doing(r, writes, "done")
      /\ UNCHANGED <<local, card, holder, pending>>
  BY <1>1 DEF Complete
<1>3. LocalOk(r)
  BY DEF ExchangeInv, LocalInv
<1>4. /\ "state.json" \in DOMAIN local[r] /\ s \in StateOf(r) /\ m.session = s.session
      /\ m.opening = s.opening
  BY <1>2, <1>3 DEF SignatureAccepted, SameContext, LocalOk
<1>5. PICK c \in Run : CardOk(c) /\ m = M4(c)
  BY <1>1, FetchedFrom, Names DEF HOST_COMMIT, HOST_REVEAL
<1>6. c = r
  BY <1>4, <1>5, MessageFields DEF StateOf
<1>7. CardOk(r) /\ m = M4(r) /\ m.opening = Op(r) /\ m.signature = Sig(r)
  BY <1>5, <1>6, MessageFields
<1>8. {"message-3", "message-4"} \subseteq DOMAIN local[r]
  BY <1>1, <1>7, Names DEF Fetched, CardOk
<1>9. saved \in StateOf(r) /\ saved.opening = Op(r)
  BY <1>4, <1>7 DEF StateOf
<1>10. writes = <<Replace("local", "state.json", saved), Exact("local", "anti-exfil-receipt", m),
                  Exact("local", "signed.psbt", m.signature),
                  Exact("local", "transaction.raw", m.signature),
                  Exact("local", "verified-receipt", m)>>
  BY DEF CompleteWrites
<1> HIDE DEF saved, writes
<1>11. /\ host'.run = r /\ host'.writes = writes /\ host'.next = "done"
       /\ Len(writes) = 5
       /\ writes[1] = Replace("local", "state.json", saved)
       /\ writes[2] = Exact("local", "anti-exfil-receipt", m)
       /\ writes[3] = Exact("local", "signed.psbt", m.signature)
       /\ writes[4] = Exact("local", "transaction.raw", m.signature)
       /\ writes[5] = Exact("local", "verified-receipt", m)
  BY <1>2, <1>10 DEF Doing
<1>12. WriteOk(1)'
  BY <1>9, <1>11, WriteFields DEF WriteOk, LocalWriteOk
<1>13. \A n \in 2..4 : WriteOk(n)'
  <2>1. \A n \in 2..4 :
            /\ writes[n].place = "local" /\ writes[n].exact
            /\ writes[n].file \in {"anti-exfil-receipt", "signed.psbt", "transaction.raw"}
    <3>1. \A n \in 2..4 : n = 2 \/ n = 3 \/ n = 4
      OBVIOUS
    <3> QED  BY <1>11, <3>1, WriteFields
  <2>2. \A n \in 2..4 : LocalWriteOk(n)'
    BY <1>11, <2>1 DEF LocalWriteOk
  <2> QED  BY <1>11, <2>1, <2>2 DEF WriteOk
<1>14. \A file \in {"signed.psbt", "transaction.raw", "anti-exfil-receipt"} :
           Before(5, "local", file)'
  BY <1>11, WriteFields DEF Before
<1>15. WriteOk(5)'
  BY <1>2, <1>7, <1>8, <1>11, <1>14, WriteFields DEF WriteOk, LocalWriteOk
<1>16. WritingInv'
  <2>1. \A n \in 1..5 : WriteOk(n)'
    BY <1>12, <1>13, <1>15
  <2>2. Len(host'.writes) = 5 /\ host'.next = "done"
    BY <1>11
  <2> QED  BY <2>1, <2>2 DEF WritingInv
<1>17. writes \in Seq({writes[n] : n \in 1..5})
  BY <1>10
<1> QED  BY <1>1, <1>2, <1>16, <1>17, StartStep

LEMMA MarkStep == ExchangeInv /\ Mark => ExchangeInv'
<1> SUFFICES ASSUME ExchangeInv, Mark
             PROVE  ExchangeInv'
  OBVIOUS
<1>1. /\ {"exit-1", "message-2", "message-3"} \subseteq DOMAIN card
      /\ card' = With(card, "marker.tmp", HOST_REVEAL)
      /\ host' = [host EXCEPT !.at = "replace"] /\ host.at = "mark"
      /\ UNCHANGED <<local, holder, pending>>
  BY DEF ExchangeInv, HostInv, Mark
<1>2. PICK c \in Run : CardOk(c)
  BY <1>1 DEF ExchangeInv, CardInv
<1>3. /\ DOMAIN card' = DOMAIN card \union {"marker.tmp"} /\ card'["marker.tmp"] = HOST_REVEAL
      /\ \A f \in DOMAIN card : f # "marker.tmp" => card'[f] = card[f]
  BY <1>1 DEF With
<1>4. CardOk(c)'
  BY <1>1, <1>2, <1>3 DEF CardOk
<1>5. HostInv' /\ WritingInv' /\ WritesTyped' /\ HolderInv'
  BY <1>1, <1>3 DEF ExchangeInv, HostInv, WritingInv, WritesTyped, HolderInv
<1>6. LocalInv'
  BY <1>1 DEF ExchangeInv, LocalInv, LocalOk
<1> QED  BY <1>4, <1>5, <1>6 DEF ExchangeInv, CardInv

\* The marker is replaced, or the replacement undone.
LEMMA ReplaceStep == ExchangeInv /\ (ReplaceMarker \/ MarkerFails) => ExchangeInv'
<1> SUFFICES ASSUME ExchangeInv, ReplaceMarker \/ MarkerFails
             PROVE  ExchangeInv'
  OBVIOUS
<1> DEFINE rest == Without(card, "marker.tmp")
<1>1. /\ {"exit-1", "message-2", "message-3", "marker.tmp"} \subseteq DOMAIN card
      /\ card' = With(rest, "marker", card["marker.tmp"]) \/ card' = rest
      /\ host' = Idle /\ UNCHANGED <<local, holder, pending>>
  BY DEF ExchangeInv, HostInv, ReplaceMarker, MarkerFails
<1>2. PICK c \in Run : CardOk(c)
  BY <1>1 DEF ExchangeInv, CardInv
<1>3. /\ DOMAIN rest = DOMAIN card \ {"marker.tmp"}
      /\ \A f \in DOMAIN rest : rest[f] = card[f]
  BY WithoutFile
<1>4. \/ card' = rest
      \/ /\ DOMAIN card' = DOMAIN rest \union {"marker"} /\ card'["marker"] = HOST_REVEAL
         /\ \A f \in DOMAIN rest : f # "marker" => card'[f] = rest[f]
  <2> HIDE DEF rest
  <2>1. card["marker.tmp"] = HOST_REVEAL
    BY <1>1, <1>2 DEF CardOk
  <2> QED  BY <1>1, <2>1 DEF With
<1>5. CardOk(c)'
  BY <1>1, <1>2, <1>3, <1>4 DEF CardOk
<1>6. HostInv' /\ WritingInv' /\ WritesTyped' /\ HolderInv'
  <2>1. HolderInv'
    BY <1>1 DEF ExchangeInv, HostInv, HolderInv, ReplaceMarker, MarkerFails
  <2> QED  BY <1>1, <2>1 DEF Idle, HostInv, WritingInv, WritesTyped
<1>7. LocalInv'
  BY <1>1 DEF ExchangeInv, LocalInv, LocalOk
<1> QED  BY <1>5, <1>6, <1>7 DEF ExchangeInv, CardInv

\* While the signer has the card no command is under way.
LEMMA SignerHasCard ==
    ASSUME ExchangeInv, holder = "signer", CardInv', UNCHANGED <<local, host, holder>>, HolderInv'
    PROVE  ExchangeInv'
<1>1. host.at = "idle"
  BY DEF ExchangeInv, HostInv
<1>2. HostInv' /\ WritingInv' /\ WritesTyped'
  BY <1>1 DEF HostInv, WritingInv, WritesTyped
<1>3. LocalInv'
  BY DEF ExchangeInv, LocalInv, LocalOk
<1> QED  BY <1>2, <1>3 DEF ExchangeInv

LEMMA SignerCommitStep == ExchangeInv /\ SignerCommit => ExchangeInv'
<1> SUFFICES ASSUME ExchangeInv, SignerCommit
             PROVE  ExchangeInv'
  OBVIOUS
<1> DEFINE m == card["message-1"]
           answer == [m EXCEPT !.stage = SIGNER_OPENINGS, !.opening = Opening(m)]
<1>1. /\ "message-1" \in DOMAIN card /\ "marker" \in DOMAIN card /\ holder = "signer"
      /\ card' = With(card, "message-2", answer) /\ "message-2" \notin DOMAIN card
      /\ pending' = [stage |-> HOST_COMMIT, code |-> "0"]
      /\ UNCHANGED <<local, host, holder>>
  BY Names DEF SignerCommit, Requested, Respond
<1>2. PICK c \in Run : CardOk(c)
  BY <1>1 DEF ExchangeInv, CardInv
<1>3. answer = M2(c)
  BY <1>1, <1>2 DEF CardOk, M2, Op
<1>4. /\ DOMAIN card' = DOMAIN card \union {"message-2"} /\ card'["message-2"] = M2(c)
      /\ \A f \in DOMAIN card : f # "message-2" => card'[f] = card[f]
  <2> HIDE DEF answer
  <2> QED  BY <1>1, <1>3 DEF With
<1>5. CardOk(c)'
  BY <1>1, <1>2, <1>4 DEF CardOk
<1>6. HolderInv'
  BY <1>1, <1>4 DEF HolderInv
<1> QED  BY <1>1, <1>5, <1>6, SignerHasCard DEF CardInv

LEMMA SignerSignStep == ExchangeInv /\ SignerSign => ExchangeInv'
<1> SUFFICES ASSUME ExchangeInv, SignerSign
             PROVE  ExchangeInv'
  OBVIOUS
<1> DEFINE m == card["message-3"]
           answer == [m EXCEPT !.stage = SIGNER_SIGNATURES,
                               !.signature = AntiExfilSignature(Key, Hash, m.rho, m.opening)]
<1>1. /\ "message-3" \in DOMAIN card /\ holder = "signer"
      /\ card' = With(card, "message-4", answer)
      /\ pending' = [stage |-> HOST_REVEAL, code |-> "0"]
      /\ UNCHANGED <<local, host, holder>>
  BY Names DEF SignerSign, Requested, Respond
<1>2. PICK c \in Run : CardOk(c)
  BY <1>1 DEF ExchangeInv, CardInv
<1>3. answer = M4(c)
  BY <1>1, <1>2, MessageFields DEF CardOk, M4, Sig
<1>4. /\ DOMAIN card' = DOMAIN card \union {"message-4"} /\ card'["message-4"] = M4(c)
      /\ \A f \in DOMAIN card : f # "message-4" => card'[f] = card[f]
  <2> HIDE DEF answer
  <2> QED  BY <1>1, <1>3 DEF With
<1>5. CardOk(c)'
  BY <1>1, <1>2, <1>4 DEF CardOk
<1>6. HolderInv'
  BY <1>1, <1>4 DEF HolderInv
<1> QED  BY <1>1, <1>5, <1>6, SignerHasCard DEF CardInv

LEMMA SignerReportsStep == ExchangeInv /\ SignerReports => ExchangeInv'
<1> SUFFICES ASSUME ExchangeInv, SignerReports
             PROVE  ExchangeInv'
  OBVIOUS
<1>1. /\ holder = "signer" /\ pending.stage \in {HOST_COMMIT, HOST_REVEAL}
      /\ card' = With(card, ExitFile(pending.stage), pending.code)
      /\ pending' = Absent /\ UNCHANGED <<local, host, holder>>
  BY DEF SignerReports, ExchangeInv, HolderInv
<1> DEFINE file == ExitFile(pending.stage)
<1>2. file \in {"exit-1", "exit-3"}
  BY <1>1, Names
<1>3. /\ DOMAIN card' = DOMAIN card \union {file}
      /\ \A f \in DOMAIN card : f # file => card'[f] = card[f]
  BY <1>1 DEF With
<1>4. ASSUME NEW c \in Run, CardOk(c)
      PROVE  CardOk(c)'
  BY <1>1, <1>2, <1>3, <1>4 DEF CardOk
<1>5. CardInv'
  BY <1>4 DEF ExchangeInv, CardInv, HolderInv, SignerReports
<1>6. HolderInv'
  BY <1>1 DEF HolderInv, ExchangeInv
<1> QED  BY <1>1, <1>5, <1>6, SignerHasCard

LEMMA NextHolds == ExchangeInv /\ [Next]_vars => ExchangeInv'
<1> SUFFICES ASSUME ExchangeInv, [Next]_vars
             PROVE  ExchangeInv'
  OBVIOUS
<1>1. ASSUME NEW r \in Run, Command(r)
      PROVE  ExchangeInv'
  <2>1. CASE Prepare(r)  BY <2>1, PrepareStep
  <2>2. CASE Reveal(r)
    BY <2>2, FetchStep DEF Reveal, HOST_COMMIT, HOST_REVEAL
  <2>3. CASE Verify(r)
    BY <2>3, FetchStep DEF Verify, HOST_COMMIT, HOST_REVEAL
  <2> QED  BY <1>1, <2>1, <2>2, <2>3 DEF Command
<1>2. CASE HostStep
  <2>1. CASE RefuseWrite \/ Refuse
    BY <2>1, EndStep DEF RefuseWrite, Refuse
  <2> QED  BY <1>2, <2>1, WriteStep, AcceptStep, MarkStep, ReplaceStep, CompleteStep DEF HostStep
<1>3. CASE SignerStep
  BY <1>3, SignerCommitStep, SignerSignStep, SignerReportsStep DEF SignerStep
<1>4. CASE MarkerFails  BY <1>4, ReplaceStep
<1>5. CASE Crash  BY <1>5, EndStep DEF Crash
<1>6. CASE SignerFails
  <2>1. /\ holder = "signer" /\ "marker" \in DOMAIN card
        /\ pending'.stage \in {HOST_COMMIT, HOST_REVEAL}
        /\ UNCHANGED <<local, card, host, holder>>
    BY <1>6 DEF SignerFails, Requested
  <2>2. CardInv' /\ HolderInv'
    BY <2>1, FilesKept DEF ExchangeInv, HolderInv
  <2> QED  BY <2>1, <2>2, SignerHasCard
<1>7. CASE SignerPowerLoss
  <2>1. pending # Absent /\ pending' = Absent /\ UNCHANGED <<local, card, host, holder>>
    BY <1>7 DEF SignerPowerLoss
  <2>2. CardInv' /\ HolderInv' /\ holder = "signer"
    BY <2>1, FilesKept DEF ExchangeInv, HolderInv
  <2> QED  BY <2>1, <2>2, SignerHasCard
<1>8. CASE MoveCard
  <2>1. /\ host.at = "idle" /\ pending = Absent /\ holder' \in {"host", "signer"}
        /\ UNCHANGED <<local, card, host, pending>>
    BY <1>8 DEF MoveCard
  <2>2. HostInv' /\ WritingInv' /\ WritesTyped' /\ HolderInv'
    BY <2>1 DEF HostInv, WritingInv, WritesTyped, HolderInv
  <2> QED  BY <2>1, <2>2, FilesKept DEF ExchangeInv
<1>9. CASE ClearCard
  <2>1. /\ host.at = "idle" /\ holder = "host" /\ card' = << >>
        /\ UNCHANGED <<local, host, holder, pending>>
    BY <1>9 DEF ClearCard, MayStart
  <2>2. HostInv' /\ WritingInv' /\ WritesTyped' /\ HolderInv' /\ CardInv'
    BY <2>1, EmptyDomain DEF ExchangeInv, HostInv, WritingInv, WritesTyped, HolderInv, CardInv
  <2>3. LocalInv'
    BY <2>1 DEF ExchangeInv, LocalInv, LocalOk
  <2> QED  BY <2>2, <2>3 DEF ExchangeInv
<1>10. CASE UNCHANGED vars
  <2>1. UNCHANGED <<local, card, host, holder, pending>>
    BY <1>10 DEF vars
  <2>2. HostInv'
    BY <2>1 DEF ExchangeInv, HostInv, Fetched
  <2>3. HolderInv' /\ WritesTyped'
    BY <2>1 DEF ExchangeInv, HolderInv, WritesTyped
  <2>4. WritingInv'
    <3>1. \A n : WriteOk(n)' <=> WriteOk(n)
      BY <2>1 DEF WriteOk, LocalWriteOk, CardWriteOk, CardOk, Before, Has, OpeningSaved
    <3>2. \A stage : Fetching(stage)' <=> Fetching(stage)
      BY <2>1 DEF Fetching
    <3>3. \A c : CardOk(c)' <=> CardOk(c)
      BY <2>1 DEF CardOk
    <3>4. \A n : Before(n, "card", "message-3")' <=> Before(n, "card", "message-3")
      BY <2>1 DEF Before, Has
    <3> QED  BY <2>1, <3>1, <3>2, <3>3, <3>4 DEF ExchangeInv, WritingInv
  <2> QED  BY <2>1, <2>2, <2>3, <2>4, FilesKept DEF ExchangeInv
<1> QED
  BY <1>1, <1>2, <1>3, <1>4, <1>5, <1>6, <1>7, <1>8, <1>9, <1>10 DEF Next

LEMMA ExchangeInvariant == Spec => []ExchangeInv
BY InitHolds, NextHolds, PTL DEF Spec

-----------------------------------------------------------------------------
(***************************************************************************)
(* The theorems                                                            *)
(***************************************************************************)

\* Messages 1 to 3 are enough of a chain for the stages the signer is asked for.
LEMMA MarkerFollows == ExchangeInv => MarkerAnnounces
<1> SUFFICES ASSUME ExchangeInv, "marker" \in DOMAIN card
             PROVE  /\ "request.psbt" \in DOMAIN card
                    /\ \E r \in Run : Chain(r, card, card["marker"])
                    /\ card["marker"] = HOST_REVEAL => ExitFile(HOST_COMMIT) \in DOMAIN card
  BY DEF MarkerAnnounces
<1>1. PICK c \in Run : CardOk(c)
  BY DEF ExchangeInv, CardInv
<1>2. /\ card["marker"] \in {1, 3} /\ {"request.psbt", "message-1"} \subseteq DOMAIN card
      /\ card["marker"] = 3 => {"message-2", "message-3", "exit-1"} \subseteq DOMAIN card
  BY <1>1 DEF CardOk, HOST_COMMIT, HOST_REVEAL
<1>3. Chain(c, card, card["marker"])
  <2>1. CASE card["marker"] = 1
    <3>1. \A n \in 1..1 : n = 1 /\ MessageFile[n] = "message-1"
      BY Names
    <3>2. 2..1 = {} /\ 3..1 = {}
      OBVIOUS
    <3> QED  BY <1>1, <1>2, <2>1, <3>1, <3>2, MessageFields DEF Chain, CardOk
  <2>2. CASE card["marker"] = 3
    <3>1. \A n \in 1..3 : \/ n = 1 /\ MessageFile[n] = "message-1"
                          \/ n = 2 /\ MessageFile[n] = "message-2"
                          \/ n = 3 /\ MessageFile[n] = "message-3"
      BY Names
    <3>2. /\ card["message-1"] = M1(c) /\ card["message-2"] = M2(c)
          /\ card["message-3"] = M3(c)
      BY <1>1, <1>2, <2>2 DEF CardOk
    <3>3. \A n \in 2..3 : n = 2 \/ n = 3
      OBVIOUS
    <3>4. \A n \in 3..3 : n = 3
      OBVIOUS
    <3> QED  BY <1>2, <2>2, <3>1, <3>2, <3>3, <3>4, MessageFields, Names DEF Chain
  <2> QED  BY <1>2, <2>1, <2>2
<1> QED  BY <1>2, <1>3, Names DEF HOST_REVEAL

LEMMA RevealFollows == ExchangeInv => RevealBacked
<1> SUFFICES ASSUME ExchangeInv
             PROVE  RevealBacked
  OBVIOUS
<1>1. ASSUME NEW r \in Run, "message-3" \in DOMAIN local[r]
      PROVE  /\ "state.json" \in DOMAIN local[r]
             /\ local[r]["state.json"].session = M3(r).session
             /\ local[r]["state.json"].rho = M3(r).rho
             /\ local[r]["state.json"].opening = M3(r).opening
  BY <1>1, MessageFields DEF ExchangeInv, LocalInv, LocalOk, StateOf
<1>2. ASSUME "message-3" \in DOMAIN card
      PROVE  \E c \in Run : card["message-3"] = M3(c) /\ "message-3" \in DOMAIN local[c]
  BY <1>2 DEF ExchangeInv, CardInv, CardOk
<1>3. \A r \in Run : "message-3" \in DOMAIN local[r] => local[r]["message-3"] = M3(r)
  BY DEF ExchangeInv, LocalInv, LocalOk
<1> QED  BY <1>1, <1>2, <1>3 DEF RevealBacked

LEMMA ReceiptFollows == ExchangeInv => ReceiptsAgree
<1> SUFFICES ASSUME ExchangeInv, NEW r \in Run, "verified-receipt" \in DOMAIN local[r]
             PROVE  /\ Chain(r, local[r], SIGNER_SIGNATURES)
                    /\ local[r]["verified-receipt"] = local[r]["message-4"]
                    /\ VerifyAntiExfil(Key, Hash, r, local[r]["message-2"].opening,
                                        local[r]["message-4"].signature)
                    /\ {"signed.psbt", "transaction.raw", "anti-exfil-receipt"} \subseteq DOMAIN local[r]
  BY DEF ReceiptsAgree
<1>1. LocalOk(r)
  BY DEF ExchangeInv, LocalInv
<1>2. /\ {"message-1", "message-2", "message-3", "message-4", "signed.psbt", "transaction.raw",
          "anti-exfil-receipt"} \subseteq DOMAIN local[r]
      /\ local[r]["message-1"] = M1(r) /\ local[r]["message-2"] = M2(r)
      /\ local[r]["message-3"] = M3(r) /\ local[r]["message-4"] = M4(r)
      /\ local[r]["verified-receipt"] = M4(r)
  BY <1>1 DEF LocalOk
<1>3. Chain(r, local[r], SIGNER_SIGNATURES)
  <2>1. \A n \in 1..4 : \/ n = 1 /\ MessageFile[n] = "message-1"
                        \/ n = 2 /\ MessageFile[n] = "message-2"
                        \/ n = 3 /\ MessageFile[n] = "message-3"
                        \/ n = 4 /\ MessageFile[n] = "message-4"
    BY Names
  <2>2. \A n \in 1..4 : MessageFile[n] \in DOMAIN local[r]
    BY <1>2, <2>1
  <2>3. \A n \in 1..4 : /\ local[r][MessageFile[n]].stage = n
                        /\ local[r][MessageFile[n]].session = r
                        /\ local[r][MessageFile[n]].commitment = HostCommit(r)
    BY <1>2, <2>1, MessageFields
  <2>4. \A n \in 2..4 : local[r][MessageFile[n]].opening = local[r][MessageFile[2]].opening
    BY <1>2, <2>1, MessageFields, Names
  <2>5. \A n \in 3..4 : HostCommit(local[r][MessageFile[n]].rho) = HostCommit(r)
    BY <1>2, <2>1, MessageFields
  <2> QED  BY <2>2, <2>3, <2>4, <2>5 DEF Chain, SIGNER_SIGNATURES
<1>4. VerifyAntiExfil(Key, Hash, r, local[r]["message-2"].opening,
                       local[r]["message-4"].signature)
  BY <1>2, MessageFields DEF VerifyAntiExfil, Sig
<1> QED  BY <1>2, <1>3, <1>4

\* However commands are killed, cards cleared and run directories mistaken, the marker never
\* asks the signer for what the card does not hold (prepare, reveal, _replace_stage_marker).
THEOREM MarkerAnnouncesAlways == Spec => []MarkerAnnounces
BY ExchangeInvariant, MarkerFollows, PTL

\* No rho is on the card or in a message 3 before the state durably holds the opening it
\* answers (host_reveal saves, then writes).
THEOREM RevealBackedAlways == Spec => []RevealBacked
BY ExchangeInvariant, RevealFollows, PTL

\* A verified receipt never stands for less than a whole, verified exchange (verify).
THEOREM ReceiptsAgreeAlways == Spec => []ReceiptsAgree
BY ExchangeInvariant, ReceiptFollows, PTL
=============================================================================
