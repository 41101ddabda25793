----------------------------- MODULE StoresProofs -----------------------------
(***************************************************************************)
(* Theorems about the stores, for any number of requests in progress, rows *)
(* and failing calls.  Each store is proved by itself; as a behaviour of   *)
(* all of them is one of each (StoresAreTheirs), what they promise         *)
(* together follows.                                                       *)
(***************************************************************************)
EXTENDS StoresProps, FiniteSetTheorems, TLAPS

-----------------------------------------------------------------------------
(* Tool records, for every limit of the settings, every length of a result *)
(* and any number of calls and of readers at a time.  The arithmetic of a  *)
(* preview.                                                                *)

Preview == [head: Nat, tail: Nat, notice: Nat]

LEMMA DigitsType == ASSUME NEW n \in Int PROVE Digits(n) \in 1..7
  BY DEF Digits, From

LEMMA DigitsGrow ==
  ASSUME NEW m \in Int, NEW n \in Int, m <= n
  PROVE  Digits(m) <= Digits(n)
  BY DEF Digits, From

LEMMA NoticeType ==
  ASSUME NEW w \in Wordings, NEW a \in Int, NEW b \in Int, NEW c \in Int
  PROVE  Notice(w, a, b, c) \in Nat
  BY DigitsType DEF Notice, Wordings

LEMMA NoticeGrows ==
  ASSUME NEW w \in Wordings, NEW a \in Int, NEW b \in Int, NEW c \in Int, NEW n \in Int, a <= n, b <= n
  PROVE  Notice(w, a, b, c) <= Notice(w, n, n, c)
<1>1. Digits(a) <= Digits(n) /\ Digits(b) <= Digits(n) BY DigitsGrow
<1>2. Digits(a) \in Int /\ Digits(b) \in Int /\ Digits(c) \in Int /\ Digits(n) \in Int BY DigitsType
<1> QED BY <1>1, <1>2 DEF Notice, Wordings

LEMMA HeadPartType == ASSUME NEW n \in Nat PROVE HeadPart(n) \in 0..n
  BY DEF HeadPart

(* A cut text is not empty of numbers below zero and stays in the limit.   *)
LEMMA CutFits ==
  ASSUME NEW limit \in Nat, NEW size \in Nat, NEW w \in Wordings, ~TooShort(w, limit, size)
  PROVE  Cut(w, limit, size) \in Preview /\ ShownLength(Cut(w, limit, size)) <= limit
<1> DEFINE payload == Payload(w, limit, size)
           head    == HeadPart(payload)
           tail    == payload - head
<1>1. Notice(w, limit, limit, size) \in Nat BY NoticeType
<1>2. payload \in Nat /\ payload <= limit /\ payload + Notice(w, limit, limit, size) = limit
  BY <1>1 DEF TooShort, Payload
<1>3. head \in Nat /\ tail \in Nat /\ head + tail = payload
  <2>1. head \in 0..payload BY <1>2, HeadPartType
  <2> QED BY <1>2, <2>1
<1>4. Notice(w, head, tail, size) \in Nat /\ Notice(w, head, tail, size) <= Notice(w, limit, limit, size)
  <2>1. head <= limit /\ tail <= limit BY <1>2, <1>3
  <2> QED BY <1>3, <2>1, NoticeType, NoticeGrows
<1>5. Cut(w, limit, size) = [head |-> head, tail |-> tail, notice |-> Notice(w, head, tail, size)]
  BY DEF Cut
<1> HIDE DEF payload, head, tail
<1> QED BY <1>1, <1>2, <1>3, <1>4, <1>5 DEF ShownLength, Preview

LEMMA WholeFits ==
  ASSUME NEW size \in Nat
  PROVE  Whole(size) \in Preview /\ ShownLength(Whole(size)) = size
  BY DEF Whole, Preview, ShownLength

LEMMA Uncut ==
  ASSUME NEW limit \in Int, NEW size \in Nat, limit <= 0 \/ size <= limit
  PROVE  Truncated(limit, size) = Whole(size)
  BY DEF Truncated

(* Whatever the limit and the length are, a preview stays in the limit.    *)
THEOREM PreviewsFit ==
  ASSUME NEW limit \in Int, NEW size \in Nat
  PROVE  /\ Truncated(limit, size) \in Preview
         /\ limit > 0 => ShownLength(Truncated(limit, size)) <= limit
<1>1. CASE limit <= 0 \/ size <= limit
  BY <1>1, Uncut, WholeFits
<1>2. CASE limit > 0 /\ size > limit /\ \A w \in Wordings : TooShort(w, limit, size)
  <2>1. Truncated(limit, size) = Whole(limit) BY <1>2 DEF Truncated
  <2> QED BY <1>2, <2>1, WholeFits
<1>3. CASE limit > 0 /\ size > limit /\ ~(\A w \in Wordings : TooShort(w, limit, size))
  <2> DEFINE Fits(w) == /\ ~TooShort(w, limit, size)
                        /\ \A v \in Wordings : v < w => TooShort(v, limit, size)
             first == CHOOSE w \in Wordings : Fits(w)
  <2>1. \E w \in Wordings : Fits(w)
    <3> DEFINE short(w) == TooShort(w, limit, size)
    <3>1. ~short(1) \/ ~short(2) \/ ~short(3) BY <1>3 DEF Wordings
    <3> HIDE DEF short
    <3>2. \E w \in 1..3 : ~short(w) /\ \A v \in 1..3 : v < w => short(v)
      <4>1. CASE ~short(1) BY <4>1
      <4>2. CASE short(1) /\ ~short(2) BY <4>2
      <4>3. CASE short(1) /\ short(2) /\ ~short(3) BY <4>3
      <4> QED BY <3>1, <4>1, <4>2, <4>3
    <3> QED BY <3>2 DEF short, Wordings
  <2>2. first \in Wordings /\ ~TooShort(first, limit, size) BY <2>1
  <2>3. Truncated(limit, size) = Cut(first, limit, size) BY <1>3 DEF Truncated
  <2> HIDE DEF first
  <2> QED BY <1>3, <2>2, <2>3, CutFits
<1> QED BY <1>1, <1>2, <1>3

-----------------------------------------------------------------------------
(* Pages.                                                                  *)

PageOf(page, total, offset) ==
    /\ page.from \in 0..total /\ page.to \in page.from..total
    /\ page.to - page.from \in 0..LargestPage
    /\ offset \in 0..total => page.from = offset
    /\ page.to = page.from => page.from = total

LEMMA PagesProceed ==
  ASSUME NEW total \in Nat, NEW offset \in Int, NEW limit \in Int
  PROVE  PageOf(Page(total, offset, limit), total, offset)
<1> DEFINE from == Start(offset, total)
           to   == Least(from + Asked(limit), total)
<1>1. from \in 0..total /\ (offset \in 0..total => from = offset)
  BY DEF Start, Least, Most
<1>2. Asked(limit) \in Int /\ 1 <= Asked(limit) /\ Asked(limit) <= 8000
  BY DEF Asked, Least, LargestPage, DefaultPage
<1>3. Page(total, offset, limit) = [from |-> from, to |-> to]
  BY DEF Page
<1> HIDE DEF from
<1>4. to \in from..total /\ to - from \in 0..LargestPage /\ (to = from => from = total)
  <2> DEFINE asked == Asked(limit)
  <2>1. asked \in Int /\ 1 <= asked /\ asked <= 8000 BY <1>2
  <2> HIDE DEF asked
  <2>2. to = IF from + asked <= total THEN from + asked ELSE total BY DEF Least, asked
  <2> HIDE DEF to
  <2> QED BY SMTT(30), <1>1, <2>1, <2>2 DEF LargestPage
<1> HIDE DEF to
<1> QED BY <1>1, <1>3, <1>4 DEF PageOf

-----------------------------------------------------------------------------
(* The inductive invariant.                                                *)

Row == [party: Parties \cup {NoParty}, by: Nat, length: Nat, full: Nat, spilled: BOOLEAN]

RecPlaces == {"idle", "spill", "record", "read", "end", "over"}

Request ==
    [pc: RecPlaces, party: Parties \cup {NoParty}, turn: BOOLEAN, call: Nat, size: Nat, preview: Preview,
     handle: Nat, got: Nat, ended: BOOLEAN, page: [id: Nat, from: Nat, to: Nat, shown: Preview]]

TypesInv ==
    /\ recMax \in Settings /\ recBegun \in 0..MaxCalls /\ recBorn \in 0..recBegun /\ recFaults \in 0..MaxRecFaults
    /\ rec \in [RecIds -> Row]
    /\ recReq \in [Readers -> Request]

(* Rows belong to a party and to a call each of their own; which is why    *)
(* there are never more rows than calls.                                   *)
RowsInv ==
    /\ \A i \in RecIds : i <= recBorn => rec[i].by \in 1..recBegun /\ rec[i].party \in Parties
    /\ \A i \in RecIds : ~(i <= recBorn) => rec[i] = NoRecord
    /\ \A i, j \in 1..recBorn : rec[i].by = rec[j].by => i = j

(* A call at work has a number of its own, and no row before it is written.*)
CallsInv ==
    /\ \A p \in Readers :
           /\ recReq[p].call <= recBegun
           /\ recReq[p].pc \in {"spill", "record"} => recReq[p].call # 0 /\ recReq[p].party \in Parties
           /\ recReq[p].pc = "spill" => recReq[p].handle = 0 /\ \A i \in 1..recBorn : rec[i].by # recReq[p].call
    /\ \A p, q \in Readers : p # q /\ recReq[p].call = recReq[q].call => recReq[p].call = 0

(* A handle leads to the whole text, of which the model has the beginning. *)
HandleInv(p) ==
    LET r == recReq[p] IN
    /\ r.handle <= recBorn
    /\ r.pc = "read" => r.handle # 0
    /\ r.handle # 0 => rec[r.handle].length = r.size
    /\ r.got <= r.size
    /\ r.ended => r.got = r.size

PageInv(p) ==
    LET r == recReq[p] IN
    /\ r.page.id <= recBorn
    /\ r.page.id # 0 => r.turn /\ rec[r.page.id].party = r.party
    /\ r.page.to - r.page.from \in 0..LargestPage
    /\ recMax > 0 => ShownLength(r.preview) <= recMax /\ ShownLength(r.page.shown) <= recMax
    /\ recMax <= 0 \/ recMax >= LargestPage => r.page.shown = Whole(r.page.to - r.page.from)

RecIInv == TypesInv /\ RowsInv /\ CallsInv /\ \A p \in Readers : HandleInv(p) /\ PageInv(p)
LEMMA InitHolds == RecInit => RecIInv
<1> SUFFICES ASSUME RecInit PROVE RecIInv OBVIOUS
<1>1. NoRecord \in Row BY DEF NoRecord, Row
<1>2. Whole(0) \in Preview /\ ShownLength(Whole(0)) = 0 BY WholeFits
<1>3. NoPage \in [id: Nat, from: Nat, to: Nat, shown: Preview] BY <1>2 DEF NoPage
<1>4. RecIdle \in Request BY <1>2, <1>3 DEF RecIdle, Request, RecPlaces
<1>5. TypesInv BY <1>1, <1>4, RecordsAssumption DEF RecInit, TypesInv, RecIds
<1>6. RowsInv BY RecordsAssumption DEF RecInit, RowsInv, RecIds
<1>7. CallsInv BY DEF RecInit, CallsInv, RecIdle
<1>8. ASSUME NEW p \in Readers PROVE HandleInv(p) /\ PageInv(p)
  <2>1. recReq[p] = RecIdle /\ recBorn = 0 BY DEF RecInit
  <2>2. HandleInv(p) BY <2>1 DEF HandleInv, RecIdle
  <2>3. recMax \in Int BY RecordsAssumption DEF RecInit
  <2>4. RecIdle.page = NoPage /\ RecIdle.preview = Whole(0) BY DEF RecIdle
  <2>5. NoPage.id = 0 /\ NoPage.shown = Whole(0) BY DEF NoPage
  <2>6. NoPage.to - NoPage.from = 0 /\ 0 \in 0..LargestPage BY DEF NoPage, LargestPage
  <2>7. PageInv(p) BY <1>2, <2>1, <2>3, <2>4, <2>5, <2>6 DEF PageInv
  <2> QED BY <2>2, <2>7
<1> QED BY <1>5, <1>6, <1>7, <1>8 DEF RecIInv

-----------------------------------------------------------------------------
LEMMA CountUpTo == ASSUME NEW n \in Nat PROVE IsFiniteSet(1..n) /\ Cardinality(1..n) = n
  BY FS_Interval

(* There is room for the row of a call that has none: fewer rows than      *)
(* calls, by the pigeonhole principle.                                     *)
LEMMA RoomForOne ==
  ASSUME RecIInv, NEW c \in 1..recBegun, \A i \in 1..recBorn : rec[i].by # c
  PROVE  recBorn + 1 \in RecIds /\ recBorn + 1 <= recBegun
<1> DEFINE f      == [i \in 1..recBorn |-> rec[i].by]
           others == (1..recBegun) \ {c}
<1>1. recBorn \in Nat /\ recBegun \in Nat /\ recBorn <= recBegun /\ recBegun <= MaxCalls /\ MaxCalls \in Nat
  BY RecordsAssumption DEF RecIInv, TypesInv
<1>2. \A i \in 1..recBorn : i \in RecIds /\ rec[i].by \in 1..recBegun
  BY <1>1 DEF RecIInv, RowsInv, RecIds
<1>3. f \in [1..recBorn -> others] BY <1>2
<1>4. \A i, j \in 1..recBorn : f[i] = f[j] => i = j BY DEF RecIInv, RowsInv
<1>5. f \in Injection(1..recBorn, others) BY <1>3, <1>4 DEF Injection, IsInjective
<1>6. IsFiniteSet(1..recBegun) /\ Cardinality(1..recBegun) = recBegun /\ Cardinality(1..recBorn) = recBorn
  BY <1>1, CountUpTo
<1>7. IsFiniteSet(others) /\ Cardinality(others) = recBegun - 1
  BY <1>6, FS_RemoveElement
<1>8. recBorn <= recBegun - 1
  <2> HIDE DEF f, others
  <2> QED BY <1>5, <1>6, <1>7, FS_Injection
<1> QED BY <1>1, <1>8 DEF RecIds

(* What an insert does: the new row is whole and its call's own, the old   *)
(* ones are as before.                                                     *)
LEMMA InsertAdds ==
  ASSUME RecIInv, NEW p \in Readers, NEW length \in Nat, NEW spilled \in BOOLEAN,
         recReq[p].pc \in {"spill", "record"},
         \A i \in 1..recBorn : rec[i].by # recReq[p].call,
         RecInsert(p, length, spilled), recBegun' = recBegun
  PROVE  /\ recBorn' = recBorn + 1 /\ recBorn' <= recBegun /\ recBorn' \in RecIds
         /\ rec' \in [RecIds -> Row] /\ RowsInv'
         /\ rec'[recBorn + 1] = RecRow(p, length, spilled)
         /\ \A i \in 1..recBorn : rec'[i] = rec[i]
<1> DEFINE r == recReq[p]
           new == RecRow(p, length, spilled)
<1>1. r \in Request /\ r.call \in 1..recBegun /\ r.party \in Parties
  BY DEF RecIInv, TypesInv, CallsInv, Request
<1>2. recBorn + 1 \in RecIds /\ recBorn + 1 <= recBegun BY <1>1, RoomForOne
<1>3. recBorn \in Nat BY DEF RecIInv, TypesInv
<1>4. new \in Row /\ new.by = r.call /\ new.party = r.party BY <1>1 DEF RecRow, Row, Request
<1>5. rec \in [RecIds -> Row] BY DEF RecIInv, TypesInv
<1>6. rec' = [rec EXCEPT ![recBorn + 1] = new] /\ recBorn' = recBorn + 1 BY DEF RecInsert
<1> HIDE DEF new
<1>7. rec' \in [RecIds -> Row] /\ rec'[recBorn + 1] = new BY <1>2, <1>4, <1>5, <1>6
<1>8. \A i \in RecIds : i # recBorn + 1 => rec'[i] = rec[i] BY <1>5, <1>6
<1>9. \A i \in 1..recBorn : i \in RecIds /\ i # recBorn + 1 BY <1>2, <1>3, RecordsAssumption DEF RecIds
<1>10. RowsInv'
  <2>1. ASSUME NEW i \in RecIds, i <= recBorn + 1
        PROVE  rec'[i].by \in 1..recBegun /\ rec'[i].party \in Parties
    <3>1. CASE i = recBorn + 1 BY <1>1, <1>4, <1>7, <3>1
    <3>2. CASE i # recBorn + 1
      <4>1. i <= recBorn BY <1>3, <2>1, <3>2 DEF RecIds
      <4> QED BY <1>8, <3>2, <4>1 DEF RecIInv, RowsInv
    <3> QED BY <3>1, <3>2
  <2>2. ASSUME NEW i \in RecIds, ~(i <= recBorn + 1) PROVE rec'[i] = NoRecord
    <3>1. ~(i <= recBorn) /\ i # recBorn + 1 BY <1>3, <2>2 DEF RecIds
    <3> QED BY <1>8, <3>1 DEF RecIInv, RowsInv
  <2>3. ASSUME NEW i \in 1..(recBorn + 1), NEW j \in 1..(recBorn + 1), rec'[i].by = rec'[j].by PROVE i = j
    <3>1. ASSUME NEW k \in 1..(recBorn + 1), k # recBorn + 1
          PROVE  k \in 1..recBorn /\ rec'[k].by = rec[k].by /\ rec[k].by # r.call
      <4>1. k \in 1..recBorn BY <1>3, <3>1
      <4> QED BY <1>8, <1>9, <4>1
    <3>2. rec'[recBorn + 1].by = r.call BY <1>4, <1>7
    <3>3. CASE i # recBorn + 1 /\ j # recBorn + 1 BY <2>3, <3>1, <3>3 DEF RecIInv, RowsInv
    <3>4. CASE i = recBorn + 1 \/ j = recBorn + 1 BY <2>3, <3>1, <3>2, <3>4
    <3> QED BY <3>3, <3>4
  <2> QED BY <1>6, <2>1, <2>2, <2>3 DEF RowsInv
<1> QED BY <1>2, <1>6, <1>7, <1>8, <1>9, <1>10 DEF new

-----------------------------------------------------------------------------
(* What is left to show of a step of one reader: its own part.             *)
LEMMA OneReader ==
  ASSUME RecIInv, NEW p \in Readers, NEW r \in Request, RecPut(p, r), recMax' = recMax,
         recFaults' \in 0..MaxRecFaults,
         recBegun' \in recBegun..MaxCalls, recBorn' \in recBorn..recBegun',
         rec' \in [RecIds -> Row], RowsInv',
         \A i \in 1..recBorn : rec'[i] = rec[i],
         \A i \in 1..recBorn' : ~(i <= recBorn) => rec'[i].by = r.call,
         r.call <= recBegun',
         \A q \in Readers : q # p /\ recReq[q].call = r.call => r.call = 0,
         r.pc \in {"spill", "record"} => r.call # 0 /\ r.party \in Parties,
         r.pc = "spill" => r.handle = 0 /\ \A i \in 1..recBorn' : rec'[i].by # r.call,
         HandleInv(p)', PageInv(p)'
  PROVE  RecIInv'
<1>1. recReq' = [recReq EXCEPT ![p] = r] BY DEF RecPut
<1>2. recReq \in [Readers -> Request] /\ recBorn \in Nat /\ recBegun \in Nat /\ MaxCalls \in Nat
      /\ recMax \in Settings
  BY RecordsAssumption DEF RecIInv, TypesInv
<1>3. recReq' \in [Readers -> Request] /\ recReq'[p] = r /\ \A q \in Readers : q # p => recReq'[q] = recReq[q]
  BY <1>1, <1>2
<1>4. TypesInv' BY <1>2, <1>3 DEF TypesInv
<1>5. \A q \in Readers : recReq[q].call \in Nat /\ recReq[q].handle \in Nat /\ recReq[q].page.id \in Nat
  BY <1>2 DEF Request
<1>6. CallsInv'
  <2>1. ASSUME NEW q \in Readers
        PROVE  /\ recReq'[q].call <= recBegun'
               /\ recReq'[q].pc \in {"spill", "record"} => recReq'[q].call # 0 /\ recReq'[q].party \in Parties
               /\ recReq'[q].pc = "spill" =>
                      recReq'[q].handle = 0 /\ \A i \in 1..recBorn' : rec'[i].by # recReq'[q].call
    <3>1. CASE q = p BY <1>3, <3>1
    <3>2. CASE q # p
      <4>1. recReq'[q] = recReq[q] BY <1>3, <3>2
      <4>2. recReq[q].call <= recBegun' BY <1>2, <1>5 DEF RecIInv, CallsInv
      <4>3. recReq[q].pc \in {"spill", "record"} => recReq[q].call # 0 /\ recReq[q].party \in Parties
        BY DEF RecIInv, CallsInv
      <4>4. ASSUME recReq[q].pc = "spill", NEW i \in 1..recBorn' PROVE rec'[i].by # recReq[q].call
        <5>1. CASE i <= recBorn
          <6>1. i \in 1..recBorn BY <1>2, <5>1
          <6> QED BY <4>4, <6>1 DEF RecIInv, CallsInv
        <5>2. CASE ~(i <= recBorn) BY <3>2, <4>3, <4>4, <5>2
        <5> QED BY <5>1, <5>2
      <4>5. recReq[q].pc = "spill" => recReq[q].handle = 0 BY DEF RecIInv, CallsInv
      <4> QED BY <4>1, <4>2, <4>3, <4>4, <4>5
    <3> QED BY <3>1, <3>2
  <2>2. ASSUME NEW q \in Readers, NEW s \in Readers, q # s, recReq'[q].call = recReq'[s].call
        PROVE  recReq'[q].call = 0
    <3>1. CASE q = p BY <1>3, <2>2, <3>1
    <3>2. CASE s = p BY <1>3, <2>2, <3>2
    <3>3. CASE q # p /\ s # p BY <1>3, <2>2, <3>3 DEF RecIInv, CallsInv
    <3> QED BY <3>1, <3>2, <3>3
  <2> QED BY <2>1, <2>2 DEF CallsInv
<1>7. ASSUME NEW q \in Readers, q # p PROVE HandleInv(q)' /\ PageInv(q)'
  <2>1. recReq'[q] = recReq[q] BY <1>3, <1>7
  <2>2. HandleInv(q) /\ PageInv(q) BY DEF RecIInv
  <2>3. recReq[q].handle # 0 => rec'[recReq[q].handle] = rec[recReq[q].handle]
    BY <1>2, <1>5, <2>2 DEF HandleInv
  <2>4. recReq[q].page.id # 0 => rec'[recReq[q].page.id] = rec[recReq[q].page.id]
    BY <1>2, <1>5, <2>2 DEF PageInv
  <2>5. HandleInv(q)' BY <1>2, <1>5, <2>1, <2>2, <2>3 DEF HandleInv
  <2>6. PageInv(q)' BY <1>2, <1>5, <2>1, <2>2, <2>4 DEF PageInv
  <2> QED BY <2>5, <2>6
<1> QED BY <1>4, <1>6, <1>7 DEF RecIInv

(* Nothing but the reader changes.                                         *)
LEMMA OnlyReader ==
  ASSUME RecIInv, NEW p \in Readers, NEW r \in Request, RecPut(p, r),
         UNCHANGED <<recMax, rec, recBorn, recBegun>>, recFaults' \in 0..MaxRecFaults,
         r.call = recReq[p].call \/ r.call = 0,
         r.pc \in {"spill", "record"} => r.call # 0 /\ r.party \in Parties,
         r.pc # "spill",
         HandleInv(p)', PageInv(p)'
  PROVE  RecIInv'
<1>1. TypesInv /\ RowsInv /\ CallsInv BY DEF RecIInv
<1>2. recBegun' \in recBegun..MaxCalls /\ recBorn' \in recBorn..recBegun' /\ rec' \in [RecIds -> Row]
  BY <1>1, RecordsAssumption DEF TypesInv
<1>3. RowsInv' BY <1>1 DEF RowsInv
<1>4. r.call <= recBegun' BY <1>1 DEF CallsInv, TypesInv
<1>5. \A q \in Readers : q # p /\ recReq[q].call = r.call => r.call = 0 BY <1>1 DEF CallsInv
<1> QED BY <1>2, <1>3, <1>4, <1>5, OneReader DEF TypesInv

-----------------------------------------------------------------------------
(* The steps.                                                              *)

LEMMA CallKeeps ==
  ASSUME RecIInv, NEW p \in Readers, RecCall(p)
  PROVE  RecIInv'
<1>1. PICK party \in Parties, turn \in BOOLEAN, failed \in BOOLEAN, n \in Sizes :
        RecPut(p, [RecIdle EXCEPT !.pc = IF failed \/ Truncated(recMax, n) = Whole(n) THEN "record" ELSE "spill",
                                  !.party = party, !.turn = turn, !.call = recBegun + 1, !.size = n,
                                  !.preview = Truncated(recMax, n)])
  BY DEF RecCall
<1> DEFINE preview == Truncated(recMax, n)
           place   == IF failed \/ preview = Whole(n) THEN "record" ELSE "spill"
           r       == [RecIdle EXCEPT !.pc = place, !.party = party, !.turn = turn, !.call = recBegun + 1,
                                      !.size = n, !.preview = preview]
<1>2. UNCHANGED <<recMax, rec, recBorn, recFaults>> /\ recBegun' = recBegun + 1 /\ recBegun < MaxCalls
  BY DEF RecCall
<1>3. TypesInv /\ RowsInv /\ CallsInv BY DEF RecIInv
<1>4. recBegun \in Nat /\ recBorn \in Nat /\ recBorn <= recBegun /\ MaxCalls \in Nat /\ recMax \in Int /\ n \in Nat
  BY <1>3, RecordsAssumption DEF TypesInv
<1>5. preview \in Preview /\ (recMax > 0 => ShownLength(preview) <= recMax) BY <1>4, PreviewsFit
<1>6. Whole(0) \in Preview /\ ShownLength(Whole(0)) = 0 BY WholeFits
<1>7. place \in {"record", "spill"} OBVIOUS
<1>8. RecPut(p, r) BY <1>1
<1> HIDE DEF preview, place
<1>9. NoPage \in [id: Nat, from: Nat, to: Nat, shown: Preview] BY <1>6 DEF NoPage
<1>10. r.pc = place /\ r.party = party /\ r.turn = turn /\ r.call = recBegun + 1 /\ r.size = n
      /\ r.preview = preview /\ r.handle = 0 /\ r.got = 0 /\ r.ended = FALSE /\ r.page = NoPage
  BY DEF RecIdle
<1>11. r \in Request
  <2>1. RecIdle \in Request BY <1>6, <1>9 DEF RecIdle, Request, RecPlaces
  <2>2. recBegun + 1 \in Nat /\ party \in Parties \cup {NoParty} /\ turn \in BOOLEAN /\ place \in RecPlaces
    BY <1>4, <1>7 DEF RecPlaces
  <2> QED BY <1>4, <1>5, <2>1, <2>2 DEF Request
<1>12. recReq'[p] = r BY <1>3, <1>8 DEF TypesInv, RecPut
<1> HIDE DEF r
<1>13. HandleInv(p)' BY <1>2, <1>4, <1>7, <1>10, <1>12 DEF HandleInv
<1>14. PageInv(p)'
  <2>1. NoPage.id = 0 /\ NoPage.from = 0 /\ NoPage.to = 0 /\ NoPage.shown = Whole(0) BY DEF NoPage
  <2>2. recMax > 0 => ShownLength(preview) <= recMax /\ ShownLength(NoPage.shown) <= recMax BY <1>4, <1>5, <1>6, <2>1
  <2>3. NoPage.to - NoPage.from = 0 /\ 0 \in 0..LargestPage BY <2>1 DEF LargestPage
  <2> QED BY <1>2, <1>4, <1>10, <1>12, <2>1, <2>2, <2>3 DEF PageInv
<1>15. RowsInv'
  <2>1. \A i \in RecIds : i <= recBorn => rec[i].by \in 1..(recBegun + 1) /\ rec[i].party \in Parties
    BY <1>3, <1>4 DEF RowsInv
  <2> QED BY <1>2, <1>3, <2>1 DEF RowsInv
<1>16. \A q \in Readers : recReq[q].call # r.call
  <2>1. \A q \in Readers : recReq[q].call \in Nat /\ recReq[q].call <= recBegun
    BY <1>3 DEF TypesInv, CallsInv, Request
  <2>2. r.call = recBegun + 1 BY <1>10
  <2>3. ASSUME NEW q \in Readers PROVE recReq[q].call # recBegun + 1
    <3> DEFINE c == recReq[q].call
    <3>1. c \in Nat /\ c <= recBegun BY <2>1
    <3> HIDE DEF c
    <3>2. c # recBegun + 1 BY <1>4, <3>1
    <3> QED BY <3>2 DEF c
  <2> QED BY <2>2, <2>3
<1>17. \A i \in 1..recBorn : rec[i].by # r.call
  <2>1. \A i \in 1..recBorn : rec[i].by \in 1..recBegun BY <1>3, <1>4 DEF RowsInv, RecIds, TypesInv
  <2> QED BY <1>4, <1>10, <2>1
<1>18. recBegun' \in recBegun..MaxCalls /\ recBorn' \in recBorn..recBegun' /\ r.call <= recBegun'
  BY <1>2, <1>4, <1>10
<1>19. \A i \in 1..recBorn' : i <= recBorn BY <1>2, <1>4
<1>20. r.pc \in {"spill", "record"} => r.call # 0 /\ r.party \in Parties BY <1>4, <1>10
<1>21. r.handle = 0 BY <1>10
<1>22. rec' \in [RecIds -> Row] /\ recFaults' \in 0..MaxRecFaults BY <1>2, <1>3 DEF TypesInv
<1> QED BY <1>2, <1>8, <1>11, <1>13, <1>14, <1>15, <1>16, <1>17, <1>18, <1>19, <1>20, <1>21, <1>22, OneReader

(* The reader goes on from a place of the executor with its page and what  *)
(* it has got as before, and its row written or not.                       *)
LEMMA GoesOn ==
  ASSUME RecIInv, NEW p \in Readers, recReq[p].pc \in {"spill", "record"},
         NEW place \in {"record", "read", "end"}, NEW handle \in Nat,
         RecPut(p, [recReq[p] EXCEPT !.pc = place, !.handle = handle]),
         UNCHANGED <<recMax, recBegun>>, recFaults' \in 0..MaxRecFaults,
         \/ UNCHANGED <<rec, recBorn>>
         \/ \E length \in Nat, spilled \in BOOLEAN :
                /\ \A i \in 1..recBorn : rec[i].by # recReq[p].call
                /\ RecInsert(p, length, spilled),
         handle <= recBorn', place = "read" => handle # 0,
         handle # 0 => rec'[handle].length = recReq[p].size
  PROVE  RecIInv'
<1> DEFINE r == [recReq[p] EXCEPT !.pc = place, !.handle = handle]
<1>1. TypesInv /\ RowsInv /\ CallsInv /\ HandleInv(p) /\ PageInv(p) BY DEF RecIInv
<1>2. recReq[p] \in Request /\ recBorn \in Nat /\ recBegun \in Nat /\ MaxCalls \in Nat
      /\ recBorn <= recBegun /\ recBegun <= MaxCalls
  BY <1>1, RecordsAssumption DEF TypesInv
<1>3. r \in Request /\ r.pc = place /\ r.handle = handle
      /\ r.party = recReq[p].party /\ r.turn = recReq[p].turn /\ r.call = recReq[p].call /\ r.size = recReq[p].size
      /\ r.preview = recReq[p].preview /\ r.got = recReq[p].got /\ r.ended = recReq[p].ended
      /\ r.page = recReq[p].page
  BY <1>2 DEF Request, RecPlaces
<1>4. RecPut(p, r) OBVIOUS
<1> HIDE DEF r
<1>5. recReq'[p] = r BY <1>1, <1>4 DEF TypesInv, RecPut
<1>6. /\ recBorn' \in recBorn..recBegun' /\ rec' \in [RecIds -> Row] /\ RowsInv'
      /\ \A i \in 1..recBorn : rec'[i] = rec[i]
      /\ \A i \in 1..recBorn' : ~(i <= recBorn) => rec'[i].by = r.call
  <2>1. CASE UNCHANGED <<rec, recBorn>>
    <3>1. recBorn' \in recBorn..recBegun' /\ rec' \in [RecIds -> Row] /\ \A i \in 1..recBorn' : i <= recBorn
      BY <1>1, <1>2, <2>1 DEF TypesInv
    <3>2. RowsInv' BY <1>1, <2>1 DEF RowsInv
    <3> QED BY <2>1, <3>1, <3>2
  <2>2. ASSUME NEW length \in Nat, NEW spilled \in BOOLEAN, RecInsert(p, length, spilled),
               \A i \in 1..recBorn : rec[i].by # recReq[p].call
        PROVE  <1>6
    <3>1. /\ recBorn' = recBorn + 1 /\ recBorn' <= recBegun
          /\ rec' \in [RecIds -> Row] /\ RowsInv'
          /\ rec'[recBorn + 1] = RecRow(p, length, spilled)
          /\ \A i \in 1..recBorn : rec'[i] = rec[i]
      BY <2>2, InsertAdds
    <3>2. RecRow(p, length, spilled).by = r.call BY <1>3 DEF RecRow
    <3>3. \A i \in 1..recBorn' : ~(i <= recBorn) => i = recBorn + 1 BY <1>2, <3>1
    <3>4. recBorn' \in recBorn..recBegun' BY <1>2, <3>1
    <3> QED BY <3>1, <3>2, <3>3, <3>4
  <2> QED BY <2>1, <2>2
<1>7. HandleInv(p)' BY <1>1, <1>3, <1>5 DEF HandleInv
<1>8. PageInv(p)'
  <2>1. recReq[p].page.id \in Nat BY <1>2 DEF Request
  <2>2. recReq[p].page.id # 0 => rec'[recReq[p].page.id] = rec[recReq[p].page.id]
    BY <1>1, <1>2, <1>6, <2>1 DEF PageInv
  <2>3. recReq[p].page.id <= recBorn' BY <1>1, <1>2, <1>6, <2>1 DEF PageInv
  <2> QED BY <1>1, <1>3, <1>5, <2>2, <2>3 DEF PageInv
<1>9. r.call <= recBegun' /\ r.call # 0 /\ r.party \in Parties BY <1>1, <1>3 DEF CallsInv
<1>10. \A q \in Readers : q # p /\ recReq[q].call = r.call => r.call = 0 BY <1>1, <1>3 DEF CallsInv
<1>11. r.pc # "spill" BY <1>3
<1>12. recBegun' \in recBegun..MaxCalls BY <1>2
<1> QED BY <1>3, <1>4, <1>6, <1>7, <1>8, <1>9, <1>10, <1>11, <1>12, OneReader

LEMMA FaultCounted ==
  ASSUME RecIInv, RecFault \/ UNCHANGED recFaults
  PROVE  recFaults' \in 0..MaxRecFaults
  BY RecordsAssumption DEF RecIInv, TypesInv, RecFault

LEMMA SpillKeeps ==
  ASSUME RecIInv, NEW p \in Readers, RecSpill(p)
  PROVE  RecIInv'
<1> DEFINE r  == recReq[p]
           on == [r EXCEPT !.pc = "record"]
           To(handle) == [r EXCEPT !.pc = "record", !.handle = handle]
<1>1. r.pc = "spill" /\ UNCHANGED <<recMax, recBegun>> BY DEF RecSpill, RecAt
<1>2. r \in Request /\ recBorn \in Nat /\ r.size \in Nat BY DEF RecIInv, TypesInv, Request
<1>3. r.handle = 0 /\ \A i \in 1..recBorn : rec[i].by # r.call BY <1>1 DEF RecIInv, CallsInv
<1>4. on = To(0) BY <1>2, <1>3 DEF Request
<1>5. [on EXCEPT !.handle = recBorn + 1] = To(recBorn + 1) BY <1>2 DEF Request
<1>6. recFaults' \in 0..MaxRecFaults
  <2>1. RecFault \/ UNCHANGED recFaults BY DEF RecSpill
  <2> QED BY <2>1, FaultCounted
<1>7. CASE RecInsert(p, r.size, TRUE) /\ RecPut(p, [on EXCEPT !.handle = recBorn + 1])
  <2>1. recBorn' = recBorn + 1 /\ rec'[recBorn + 1] = RecRow(p, r.size, TRUE)
    BY <1>1, <1>2, <1>3, <1>7, InsertAdds
  <2>2. rec'[recBorn + 1].length = r.size BY <2>1 DEF RecRow
  <2>3. RecPut(p, To(recBorn + 1)) BY <1>5, <1>7
  <2> HIDE DEF on
  <2>4. \E length \in Nat, spilled \in BOOLEAN :
           (\A i \in 1..recBorn : rec[i].by # r.call) /\ RecInsert(p, length, spilled)
    BY <1>2, <1>3, <1>7
  <2>5. recBorn + 1 \in Nat /\ recBorn + 1 <= recBorn' /\ "record" # "read" BY <1>2, <2>1
  <2> QED BY <1>1, <1>6, <2>2, <2>3, <2>4, <2>5, GoesOn
<1>8. CASE RecPut(p, on) /\ (RecInsert(p, r.size, TRUE) \/ UNCHANGED <<rec, recBorn>>)
  <2>1. RecPut(p, To(0)) BY <1>4, <1>8
  <2>2. \/ UNCHANGED <<rec, recBorn>>
        \/ \E length \in Nat, spilled \in BOOLEAN :
              (\A i \in 1..recBorn : rec[i].by # r.call) /\ RecInsert(p, length, spilled)
    BY <1>2, <1>3, <1>8
  <2>3. recBorn' = recBorn \/ recBorn' = recBorn + 1 BY <2>2 DEF RecInsert
  <2>4. 0 <= recBorn' /\ 0 \in Nat /\ "record" # "read" BY <1>2, <2>3
  <2> QED BY <1>1, <1>6, <2>1, <2>2, <2>4, GoesOn
<1> QED BY <1>7, <1>8 DEF RecSpill

LEMMA UpsertKeeps ==
  ASSUME RecIInv, NEW p \in Readers, RecUpsert(p)
  PROVE  RecIInv'
<1> DEFINE r     == recReq[p]
           place == IF r.handle = 0 THEN "end" ELSE "read"
           shown == ShownLength(r.preview)
<1>1. r.pc = "record" /\ UNCHANGED <<recMax, recBegun>> BY DEF RecUpsert, RecAt
<1>2. r \in Request /\ recBorn \in Nat /\ recBorn <= recBegun /\ recBegun <= MaxCalls /\ MaxCalls \in Nat
      /\ recBegun \in Nat
  BY RecordsAssumption DEF RecIInv, TypesInv
<1>3. r.handle \in Nat /\ r.size \in Nat /\ shown \in Nat BY <1>2 DEF Request, Preview, ShownLength
<1>4. HandleInv(p) BY DEF RecIInv
<1>5. [r EXCEPT !.pc = place] = [r EXCEPT !.pc = place, !.handle = r.handle] BY <1>2 DEF Request
<1>6. RecPut(p, [r EXCEPT !.pc = place]) BY DEF RecUpsert
<1>7. RecPut(p, [r EXCEPT !.pc = place, !.handle = r.handle]) BY <1>5, <1>6
<1>8. recFaults' \in 0..MaxRecFaults
  <2>1. RecFault \/ UNCHANGED recFaults BY DEF RecUpsert
  <2> QED BY <2>1, FaultCounted
<1>9. place \in {"record", "read", "end"} /\ (place = "read" => r.handle # 0) OBVIOUS
<1>10. CASE UNCHANGED <<rec, recBorn>>
  <2>1. r.handle <= recBorn' /\ (r.handle # 0 => rec'[r.handle].length = r.size) BY <1>4, <1>10 DEF HandleInv
  <2> HIDE DEF place
  <2> QED BY <1>1, <1>3, <1>7, <1>8, <1>9, <1>10, <2>1, GoesOn
<1>11. CASE RecordsOf(p) = {} /\ RecInsert(p, shown, FALSE)
  <2>1. \A i \in 1..recBorn : rec[i].by # r.call
    <3>1. \A i \in 1..recBorn : i \in RecIds BY <1>2 DEF RecIds
    <3> QED BY <1>11, <3>1 DEF RecordsOf
  <2>2. recBorn' = recBorn + 1 /\ \A i \in 1..recBorn : rec'[i] = rec[i]
    <3> HIDE DEF shown
    <3> QED BY <1>1, <1>3, <1>11, <2>1, InsertAdds
  <2>3. r.handle <= recBorn' /\ (r.handle # 0 => rec'[r.handle].length = r.size)
    BY <1>2, <1>3, <1>4, <2>2 DEF HandleInv
  <2> HIDE DEF place, shown
  <2> QED BY <1>1, <1>3, <1>7, <1>8, <1>9, <1>11, <2>1, <2>3, GoesOn
<1> QED BY <1>10, <1>11 DEF RecUpsert, Completed

(* A page of a row, as the model sees it.                                  *)
LEMMA ReadIsPage ==
  ASSUME RecIInv, NEW p \in Readers, NEW i \in 1..recBorn, NEW offset \in Int, NEW limit \in Int
  PROVE  LET read  == Read(p, i, offset, limit)
             total == rec[i].length
         IN  /\ read \in [id: Nat, from: Nat, to: Nat, shown: Preview] /\ read.id = i
             /\ read.from \in 0..total /\ read.to \in read.from..total /\ total \in Nat
             /\ read.to - read.from \in 0..LargestPage
             /\ offset \in 0..total => read.from = offset
             /\ read.to = read.from => read.from = total
             /\ recMax > 0 => ShownLength(read.shown) <= recMax
             /\ recMax <= 0 \/ recMax >= LargestPage => read.shown = Whole(read.to - read.from)
<1> DEFINE total == rec[i].length
           page  == Page(total, offset, limit)
           size  == page.to - page.from
<1>1. recMax \in Int /\ i \in RecIds BY RecordsAssumption DEF RecIInv, TypesInv, RecIds
<1>2. total \in Nat BY <1>1 DEF RecIInv, TypesInv, Row
<1> HIDE DEF total
<1>3. /\ page.from \in 0..total /\ page.to \in page.from..total
      /\ size \in 0..LargestPage
      /\ offset \in 0..total => page.from = offset
      /\ page.to = page.from => page.from = total
  <2>1. PageOf(page, total, offset)
    <3>1. total \in Nat /\ offset \in Int /\ limit \in Int BY <1>2
    <3> QED BY <3>1, PagesProceed
  <2> HIDE DEF page
  <2> QED BY <2>1 DEF PageOf
<1>4. Read(p, i, offset, limit) = [id |-> i, from |-> page.from, to |-> page.to, shown |-> Truncated(recMax, size)]
  BY DEF Read, total
<1> HIDE DEF page, size
<1>5. size \in Nat /\ size <= LargestPage BY <1>3 DEF LargestPage
<1>6. Truncated(recMax, size) \in Preview /\ (recMax > 0 => ShownLength(Truncated(recMax, size)) <= recMax)
  BY <1>1, <1>5, PreviewsFit
<1>7. recMax <= 0 \/ recMax >= LargestPage => Truncated(recMax, size) = Whole(size)
  BY <1>1, <1>5, Uncut DEF LargestPage
<1>8. i \in Nat /\ page.from \in Nat /\ page.to \in Nat BY <1>2, <1>3
<1> QED BY <1>2, <1>3, <1>4, <1>6, <1>7, <1>8 DEF size, total

LEMMA ReadOnKeeps ==
  ASSUME RecIInv, NEW p \in Readers, RecReadOn(p)
  PROVE  RecIInv'
<1> DEFINE r == recReq[p]
<1>1. PICK limit \in Limits :
         LET page == Read(p, r.handle, r.got, limit)
         IN  /\ MayRead(p, r.handle)
             /\ RecPut(p, [r EXCEPT !.page = page, !.got = @ + (page.to - page.from), !.ended = page.to = page.from])
  BY DEF RecReadOn
<1> DEFINE page == Read(p, r.handle, r.got, limit)
           got  == r.got + (page.to - page.from)
           next == [r EXCEPT !.page = page, !.got = got, !.ended = page.to = page.from]
<1>2. r.pc = "read" /\ UNCHANGED <<recMax, rec, recBorn, recBegun, recFaults>> BY DEF RecReadOn, RecAt
<1>3. TypesInv /\ CallsInv /\ HandleInv(p) /\ PageInv(p) BY DEF RecIInv
<1>4. r \in Request /\ r.handle \in 1..recBorn /\ r.got \in 0..r.size /\ r.size \in Nat
  BY <1>2, <1>3 DEF TypesInv, HandleInv, Request
<1>5. rec[r.handle].length = r.size BY <1>3, <1>4 DEF HandleInv
<1>6. /\ page \in [id: Nat, from: Nat, to: Nat, shown: Preview] /\ page.id = r.handle
      /\ page.from = r.got /\ page.to \in r.got..r.size
      /\ page.to - page.from \in 0..LargestPage
      /\ page.to = page.from => r.got = r.size
      /\ recMax > 0 => ShownLength(page.shown) <= recMax
      /\ recMax <= 0 \/ recMax >= LargestPage => page.shown = Whole(page.to - page.from)
  <2>1. limit \in Int /\ r.got \in Int BY <1>4, RecordsAssumption
  <2> QED BY <1>4, <1>5, <2>1, ReadIsPage
<1>7. r.turn /\ rec[r.handle].party = r.party BY <1>1 DEF MayRead
<1>8. RecPut(p, next) BY <1>1
<1> HIDE DEF page
<1>9. got = page.to BY <1>4, <1>6
<1>10. next \in Request /\ next.pc = r.pc /\ next.party = r.party /\ next.turn = r.turn /\ next.call = r.call
       /\ next.size = r.size /\ next.preview = r.preview /\ next.handle = r.handle
       /\ next.got = page.to /\ next.ended = (page.to = page.from) /\ next.page = page
  BY <1>4, <1>6, <1>9 DEF Request
<1> HIDE DEF next
<1>11. recReq'[p] = next BY <1>3, <1>8 DEF TypesInv, RecPut
<1>12. HandleInv(p)'
  <2>1. page.to <= r.size /\ (page.to = page.from => page.to = r.size) BY <1>4, <1>6
  <2>2. r.handle <= recBorn /\ r.handle # 0 BY <1>3, <1>4 DEF HandleInv
  <2> QED BY <1>2, <1>5, <1>10, <1>11, <2>1, <2>2 DEF HandleInv
<1>13. PageInv(p)'
  <2>1. r.handle <= recBorn BY <1>3 DEF HandleInv
  <2>2. recMax > 0 => ShownLength(r.preview) <= recMax BY <1>3 DEF PageInv
  <2> QED BY <1>2, <1>6, <1>7, <1>10, <1>11, <2>1, <2>2 DEF PageInv
<1>14. next.pc \notin {"spill", "record"} BY <1>2, <1>10
<1>15. recFaults' \in 0..MaxRecFaults BY <1>2, FaultCounted
<1> QED BY <1>2, <1>8, <1>10, <1>12, <1>13, <1>14, <1>15, OnlyReader

LEMMA ReadAnyKeeps ==
  ASSUME RecIInv, NEW p \in Readers, RecReadAny(p)
  PROVE  RecIInv'
<1> DEFINE r == recReq[p]
<1>1. PICK i \in 1..recBorn, limit \in Limits :
         /\ MayRead(p, i)
         /\ \E offset \in Offsets(i) : RecPut(p, [r EXCEPT !.pc = "over", !.page = Read(p, i, offset, limit)])
  BY DEF RecReadAny
<1>2. PICK offset \in Offsets(i) : RecPut(p, [r EXCEPT !.pc = "over", !.page = Read(p, i, offset, limit)])
  BY <1>1
<1> DEFINE page == Read(p, i, offset, limit)
           next == [r EXCEPT !.pc = "over", !.page = page]
<1>3. UNCHANGED <<recMax, rec, recBorn, recBegun, recFaults>> BY DEF RecReadAny
<1>4. TypesInv /\ CallsInv /\ HandleInv(p) /\ PageInv(p) BY DEF RecIInv
<1>5. r \in Request /\ recBorn \in Nat BY <1>4 DEF TypesInv
<1>6. /\ page \in [id: Nat, from: Nat, to: Nat, shown: Preview] /\ page.id = i
      /\ page.to - page.from \in 0..LargestPage
      /\ recMax > 0 => ShownLength(page.shown) <= recMax
      /\ recMax <= 0 \/ recMax >= LargestPage => page.shown = Whole(page.to - page.from)
  <2>1. rec[i].length \in Nat
    <3>1. i \in RecIds BY <1>4, RecordsAssumption DEF TypesInv, RecIds
    <3> QED BY <1>4, <3>1 DEF TypesInv, Row
  <2>2. limit \in Int /\ offset \in Int BY <2>1, RecordsAssumption DEF Offsets
  <2> QED BY <2>2, ReadIsPage
<1>7. r.turn /\ rec[i].party = r.party BY <1>1 DEF MayRead
<1>8. RecPut(p, next) BY <1>2
<1> HIDE DEF page
<1>9. next \in Request /\ next.pc = "over" /\ next.party = r.party /\ next.turn = r.turn /\ next.call = r.call
      /\ next.size = r.size /\ next.preview = r.preview /\ next.handle = r.handle
      /\ next.got = r.got /\ next.ended = r.ended /\ next.page = page
  BY <1>5, <1>6 DEF Request, RecPlaces
<1> HIDE DEF next
<1>10. recReq'[p] = next BY <1>4, <1>8 DEF TypesInv, RecPut
<1>11. HandleInv(p)' BY <1>3, <1>4, <1>9, <1>10 DEF HandleInv
<1>12. PageInv(p)'
  <2>1. i <= recBorn BY <1>5
  <2>2. recMax > 0 => ShownLength(r.preview) <= recMax BY <1>4 DEF PageInv
  <2> QED BY <1>3, <1>6, <1>7, <1>9, <1>10, <2>1, <2>2 DEF PageInv
<1>13. recFaults' \in 0..MaxRecFaults BY <1>3, FaultCounted
<1>14. next.pc \notin {"spill", "record"} BY <1>9
<1> QED BY <1>3, <1>8, <1>9, <1>11, <1>12, <1>13, <1>14, OnlyReader

LEMMA EndKeeps ==
  ASSUME RecIInv, NEW p \in Readers, RecEnd(p)
  PROVE  RecIInv'
<1>1. RecPut(p, RecIdle) /\ UNCHANGED <<recMax, rec, recBorn, recBegun, recFaults>> BY DEF RecEnd
<1>2. TypesInv BY DEF RecIInv
<1>3. Whole(0) \in Preview /\ ShownLength(Whole(0)) = 0 BY WholeFits
<1>4. NoPage \in [id: Nat, from: Nat, to: Nat, shown: Preview] BY <1>3 DEF NoPage
<1>5. RecIdle \in Request BY <1>3, <1>4 DEF RecIdle, Request, RecPlaces
<1>6. recReq'[p] = RecIdle BY <1>1, <1>2 DEF TypesInv, RecPut
<1>7. recBorn \in Nat /\ recMax \in Int BY <1>2, RecordsAssumption DEF TypesInv
<1>8. HandleInv(p)' BY <1>1, <1>6, <1>7 DEF HandleInv, RecIdle
<1>9. PageInv(p)'
  <2>1. RecIdle.page = NoPage /\ RecIdle.preview = Whole(0) BY DEF RecIdle
  <2>2. NoPage.id = 0 /\ NoPage.shown = Whole(0) BY DEF NoPage
  <2>3. NoPage.to - NoPage.from = 0 /\ 0 \in 0..LargestPage BY DEF NoPage, LargestPage
  <2> QED BY <1>1, <1>3, <1>6, <1>7, <2>1, <2>2, <2>3 DEF PageInv
<1>10. recFaults' \in 0..MaxRecFaults BY <1>1, FaultCounted
<1>11. RecIdle.call = 0 /\ RecIdle.pc \notin {"spill", "record"} BY DEF RecIdle
<1> QED BY <1>1, <1>5, <1>8, <1>9, <1>10, <1>11, OnlyReader

LEMMA NextKeeps == RecIInv /\ [RecNext]_recVars => RecIInv'
<1> SUFFICES ASSUME RecIInv, [RecNext]_recVars PROVE RecIInv' OBVIOUS
<1>1. ASSUME NEW p \in Readers, RecStep(p) PROVE RecIInv'
  <2>1. CASE RecCall(p) BY <2>1, CallKeeps
  <2>2. CASE RecSpill(p) BY <2>2, SpillKeeps
  <2>3. CASE RecUpsert(p) BY <2>3, UpsertKeeps
  <2>4. CASE RecReadOn(p) BY <2>4, ReadOnKeeps
  <2>5. CASE RecReadAny(p) BY <2>5, ReadAnyKeeps
  <2>6. CASE RecEnd(p) BY <2>6, EndKeeps
  <2> QED BY <1>1, <2>1, <2>2, <2>3, <2>4, <2>5, <2>6 DEF RecStep
<1>2. CASE UNCHANGED recVars
  BY <1>2 DEF recVars, RecIInv, TypesInv, RowsInv, CallsInv, HandleInv, PageInv
<1> QED BY <1>1, <1>2 DEF RecNext

LEMMA Invariant == RecSpec => []RecIInv
<1>1. RecInit => RecIInv BY InitHolds
<1>2. RecIInv /\ [RecNext]_recVars => RecIInv' BY NextKeeps
<1> QED BY <1>1, <1>2, PTL DEF RecSpec

-----------------------------------------------------------------------------
(* Rows are whole, there is never one too many, and no page starts behind  *)
(* the end of its text.                                                    *)
THEOREM RecordsTypeCorrect == RecSpec => []RecTypeOK
<1>1. RecIInv => RecTypeOK
  <2> SUFFICES ASSUME RecIInv PROVE RecTypeOK OBVIOUS
  <2>1. recBorn \in Nat /\ recBegun \in Nat /\ recBorn <= recBegun /\ recBegun <= MaxCalls /\ MaxCalls \in Nat
    BY RecordsAssumption DEF RecIInv, TypesInv
  <2>2. ASSUME NEW i \in RecIds PROVE i <= recBorn <=> rec[i] # NoRecord
    <3>1. i <= recBorn => rec[i].by \in 1..recBegun BY DEF RecIInv, RowsInv
    <3>2. NoRecord.by = 0 BY DEF NoRecord
    <3>3. ~(i <= recBorn) => rec[i] = NoRecord BY DEF RecIInv, RowsInv
    <3> QED BY <2>1, <3>1, <3>2, <3>3
  <2>3. ASSUME NEW i \in 1..recBorn PROVE rec[i].party \in Parties /\ rec[i].length >= 0
    <3>1. i \in RecIds /\ i <= recBorn BY <2>1 DEF RecIds
    <3>2. rec[i].length \in Nat BY <3>1 DEF RecIInv, TypesInv, Row
    <3> QED BY <3>1, <3>2 DEF RecIInv, RowsInv
  <2>4. ASSUME NEW p \in Readers
        PROVE  /\ recReq[p].handle \in 0..recBorn /\ recReq[p].page.id \in 0..recBorn
               /\ recReq[p].page.to - recReq[p].page.from \in 0..LargestPage
    <3>1. recReq[p].handle \in Nat /\ recReq[p].page.id \in Nat BY DEF RecIInv, TypesInv, Request
    <3>2. HandleInv(p) /\ PageInv(p) BY DEF RecIInv
    <3> QED BY <2>1, <3>1, <3>2 DEF HandleInv, PageInv
  <2> QED BY <2>2, <2>3, <2>4 DEF RecTypeOK, RecIInv, TypesInv
<1> QED BY <1>1, Invariant, PTL

(* What the model is shown of a result or of a page stays in the limit of  *)
(* the settings, the notice of what is left out included.                  *)
THEOREM PreviewsStayFit == RecSpec => []PreviewFits
<1>1. RecIInv => PreviewFits BY DEF RecIInv, PageInv, PreviewFits
<1> QED BY <1>1, Invariant, PTL

(* Who has paged through a handle to its end has got the whole result.     *)
THEOREM PagesMakeTheWhole == RecSpec => []PagesAreTheWhole
<1>1. RecIInv => PagesAreTheWhole BY DEF RecIInv, HandleInv, PageInv, PagesAreTheWhole
<1> QED BY <1>1, Invariant, PTL

(* Only the session and user of a call read what it has produced.          *)
THEOREM ReadsStayOwn == RecSpec => []ReadsAreOwn
<1>1. RecIInv => ReadsAreOwn BY DEF RecIInv, PageInv, ReadsAreOwn
<1> QED BY <1>1, Invariant, PTL

-----------------------------------------------------------------------------
(* Skills.  What a request carries from its first step to the later ones.  *)

SkillRow == [name : Names, owner : Owners, channels : Published, text : [of : Metas, full : BOOLEAN], meta : Metas]
Opt(S)   == {Keep} \cup {Give(x) : x \in S}

SkillRequests ==
    [pc : {"idle", "insert", "update", "delete", "index", "files"},
     as : Owners \cup {Nobody}, place : Places \cup {Nobody}, id : Nat,
     row : SkillRow \cup {NoSkill} \cup {[NoSkill EXCEPT !.name = n] : n \in Names}, names : SUBSET Names,
     text : Opt(Metas), meta : Opt(Metas), channels : Opt(Published), files : Opt(SUBSET Paths)]

SkillTypes ==
    /\ skill \in [SkillIds -> SkillRow \cup {NoSkill}] /\ skillBorn \in 0..MaxSkills
    /\ \A i \in SkillIds : Kept(i) => i <= skillBorn
    /\ skillFiles \in [SkillIds -> SUBSET Paths] /\ edited \subseteq SkillIds
    /\ skillBegun \in 0..MaxSkillRequests /\ ask \in [Askers -> SkillRequests]
    /\ skillSeen \subseteq (Owners \cup {Nobody}) \X Owners \X BOOLEAN

(* A row to be created mirrors its text; a request to change or delete has *)
(* an id, and while that row is there it is the login's; files are read of *)
(* a row that was visible.                                                 *)
SkillHeld(r) ==
    /\ r.pc = "insert" => r.row \in SkillRow /\ r.row.meta = r.row.text.of /\ r.files # Keep
    /\ r.pc \in {"update", "delete"} =>
           /\ r.as \in Owners /\ r.id \in SkillIds /\ r.id <= skillBorn
           /\ Kept(r.id) => skill[r.id].owner = r.as
    /\ r.pc = "files" => r.row \in SkillRow /\ Visible(r.row, r.as, r.place)

SkillInv ==
    /\ SkillTypes /\ \A p \in Askers : SkillHeld(ask[p])
    /\ ColumnsMirrorText /\ SeenWasVisible

LEMMA SkillNumbers ==
    /\ MaxSkills \in Nat /\ MaxSkillRequests \in Nat /\ \A i \in SkillIds : i \in Nat \ {0} /\ i <= MaxSkills
    /\ Nobody \notin Owners /\ Nobody \notin Names /\ Nobody \notin Metas
BY SkillAssumption DEF SkillIds, Nobody

LEMMA SkillRowIsThere == \A r \in SkillRow : r # NoSkill
BY SkillNumbers DEF SkillRow, NoSkill

(* A field that is not given stays.                                        *)
LEMMA GivenType == ASSUME NEW S, NEW f \in Opt(S), NEW old \in S PROVE Given(f, old) \in S
BY DEF Opt, Give, Given

LEMMA GivenTo == ASSUME NEW S, NEW f \in Opt(S), f # Keep PROVE f.to \in S
BY DEF Opt, Give

(* What the requests that come in hold.                                    *)
LEMMA NoAskHeld == NoAsk \in SkillRequests /\ SkillHeld(NoAsk)
BY DEF NoAsk, SkillRequests, SkillHeld, Opt

LEMMA InsertHeld ==
    ASSUME NEW o \in Owners, NEW n \in Names, NEW c \in Published, NEW m \in Metas, NEW full \in BOOLEAN, NEW f \in SUBSET Paths,
           NEW r, r = [NoAsk EXCEPT !.pc = "insert", !.as = o, !.row = NewRow(n, o, c, m, full), !.files = Give(f)]
    PROVE  r \in SkillRequests /\ SkillHeld(r)
<1>1. NewRow(n, o, c, m, full) \in SkillRow /\ NewRow(n, o, c, m, full).meta = NewRow(n, o, c, m, full).text.of
      BY DEF NewRow, SkillRow
<1>2. Give(f) \in Opt(SUBSET Paths) /\ Give(f) # Keep
      BY DEF Opt, Give, Keep
<1>3. r \in SkillRequests
      BY <1>1, <1>2 DEF NoAsk, SkillRequests, Opt
<1>4. r.pc = "insert" /\ r.row = NewRow(n, o, c, m, full) /\ r.files = Give(f)
      BY DEF NoAsk
<1> QED BY <1>1, <1>2, <1>3, <1>4 DEF SkillHeld

LEMMA Sought ==
    ASSUME SkillInv, NEW n \in Names, NEW i \in Named(n)
    PROVE  /\ i \in SkillIds /\ i \in Nat /\ i <= skillBorn /\ Kept(i) /\ skill[i] \in SkillRow
           /\ [NoSkill EXCEPT !.name = skill[i].name] \in {[NoSkill EXCEPT !.name = x] : x \in Names}
<1>1. i \in SkillIds /\ i \in Nat /\ skill[i].name = n /\ Kept(i) /\ i <= skillBorn /\ skill[i] \in SkillRow
      BY SkillNumbers DEF Named, SkillInv, SkillTypes, Kept, NoSkill
<1> QED BY <1>1

LEMMA UpdateHeld ==
    ASSUME NEW o \in Owners, NEW i \in SkillIds, i <= skillBorn, skill[i].owner = o,
           NEW row \in {[NoSkill EXCEPT !.name = x] : x \in Names},
           NEW t \in Opt(Metas), NEW m \in Opt(Metas), NEW c \in Opt(Published), NEW f \in Opt(SUBSET Paths),
           NEW r, r = [NoAsk EXCEPT !.pc = "update", !.as = o, !.id = i, !.row = row,
                                    !.text = t, !.meta = m, !.channels = c, !.files = f]
    PROVE  r \in SkillRequests /\ SkillHeld(r)
<1>1. r \in SkillRequests
      BY SkillNumbers DEF NoAsk, SkillRequests
<1>2. r.pc = "update" /\ r.as = o /\ r.id = i
      BY DEF NoAsk
<1> QED BY <1>1, <1>2 DEF SkillHeld

LEMMA DropHeld ==
    ASSUME NEW o \in Owners, NEW i \in SkillIds, i <= skillBorn, skill[i].owner = o,
           NEW row \in {[NoSkill EXCEPT !.name = x] : x \in Names},
           NEW r, r = [NoAsk EXCEPT !.pc = "delete", !.as = o, !.id = i, !.row = row]
    PROVE  r \in SkillRequests /\ SkillHeld(r)
<1>1. r \in SkillRequests
      BY SkillNumbers DEF NoAsk, SkillRequests, Opt
<1>2. r.pc = "delete" /\ r.as = o /\ r.id = i
      BY DEF NoAsk
<1> QED BY <1>1, <1>2 DEF SkillHeld

LEMMA IndexHeld ==
    ASSUME NEW o \in Owners \cup {Nobody}, NEW c \in Places, NEW names \in SUBSET Names,
           NEW r, r = [NoAsk EXCEPT !.pc = "index", !.as = o, !.place = c, !.names = names]
    PROVE  r \in SkillRequests /\ SkillHeld(r)
<1>1. r \in SkillRequests
      BY DEF NoAsk, SkillRequests, Opt
<1>2. r.pc = "index"
      BY DEF NoAsk
<1> QED BY <1>1, <1>2 DEF SkillHeld

LEMMA FilesHeld ==
    ASSUME NEW o \in Owners \cup {Nobody}, NEW c \in Places, NEW i \in SkillIds, NEW row \in SkillRow, Visible(row, o, c),
           NEW r, r = [NoAsk EXCEPT !.pc = "files", !.as = o, !.place = c, !.id = i, !.row = row]
    PROVE  r \in SkillRequests /\ SkillHeld(r)
<1>1. r \in SkillRequests
      BY SkillNumbers DEF NoAsk, SkillRequests, Opt
<1>2. r.pc = "files" /\ r.as = o /\ r.place = c /\ r.row = row
      BY DEF NoAsk
<1> QED BY <1>1, <1>2 DEF SkillHeld

(* Every step leaves its request as one of these, judged by the rows the   *)
(* step began with.                                                        *)
AskGoes(p) == \E r \in SkillRequests : AskPut(p, r) /\ SkillHeld(r)

LEMMA AskEnding == ASSUME NEW p \in Askers, AskEnds(p) PROVE AskGoes(p)
BY NoAskHeld DEF AskEnds, AskGoes

LEMMA AskBegins ==
    ASSUME SkillInv, NEW p \in Askers, SkillPost(p) \/ SkillImport(p) \/ SkillPut(p) \/ SkillDrop(p)
    PROVE  AskGoes(p)
<1>1. CASE SkillPost(p)
  <2>1. PICK o \in Owners, n \in Names, c \in Published, m \in Metas, f \in SUBSET Paths :
             AskPut(p, [NoAsk EXCEPT !.pc = "insert", !.as = o, !.row = NewRow(n, o, c, m, TRUE), !.files = Give(f)])
        BY <1>1 DEF SkillPost
  <2> DEFINE r == [NoAsk EXCEPT !.pc = "insert", !.as = o, !.row = NewRow(n, o, c, m, TRUE), !.files = Give(f)]
  <2>2. r \in SkillRequests /\ SkillHeld(r)
        BY InsertHeld
  <2> QED BY <2>1, <2>2 DEF AskGoes
<1>2. CASE SkillImport(p)
  <2>1. PICK o \in Owners, n \in Names, c \in Published, m \in Metas :
             AskPut(p, [NoAsk EXCEPT !.pc = "insert", !.as = o, !.row = NewRow(n, o, c, m, FALSE), !.files = Give({})])
        BY <1>2 DEF SkillImport, Imported
  <2> DEFINE r == [NoAsk EXCEPT !.pc = "insert", !.as = o, !.row = NewRow(n, o, c, m, FALSE), !.files = Give({})]
  <2>2. {} \in SUBSET Paths
        OBVIOUS
  <2>3. r \in SkillRequests /\ SkillHeld(r)
        BY <2>2, InsertHeld
  <2> QED BY <2>1, <2>3 DEF AskGoes
<1>3. CASE SkillPut(p)
  <2>1. PICK o \in Owners, n \in Names, m \in {Keep} \cup {Give(x) : x \in Metas},
             t \in {Keep} \cup {Give(x) : x \in Metas}, c \in {Keep} \cup {Give(x) : x \in Published},
             f \in {Keep} \cup {Give(x) : x \in SUBSET Paths} :
             \E i \in Named(n) :
             /\ skill[i].owner = o
             /\ AskPut(p, [NoAsk EXCEPT !.pc = "update", !.as = o, !.id = i, !.row = [NoSkill EXCEPT !.name = skill[i].name],
                                        !.text = t, !.meta = m, !.channels = c, !.files = f])
        BY ZenonT(40), <1>3 DEF SkillPut
  <2>o. m \in Opt(Metas) /\ t \in Opt(Metas) /\ c \in Opt(Published) /\ f \in Opt(SUBSET Paths)
        BY DEF Opt
  <2> PICK i \in Named(n) :
             /\ skill[i].owner = o
             /\ AskPut(p, [NoAsk EXCEPT !.pc = "update", !.as = o, !.id = i, !.row = [NoSkill EXCEPT !.name = skill[i].name],
                                        !.text = t, !.meta = m, !.channels = c, !.files = f])
        BY <2>1
  <2> DEFINE row == [NoSkill EXCEPT !.name = skill[i].name]
             r == [NoAsk EXCEPT !.pc = "update", !.as = o, !.id = i, !.row = row,
                                !.text = t, !.meta = m, !.channels = c, !.files = f]
  <2>2. AskPut(p, r)
        OBVIOUS
  <2>3. i \in SkillIds /\ i <= skillBorn /\ row \in {[NoSkill EXCEPT !.name = x] : x \in Names}
        BY Sought
  <2> HIDE DEF row
  <2>4. r \in SkillRequests /\ SkillHeld(r)
        BY ZenonT(40), <2>o, <2>3, UpdateHeld
  <2> QED BY <2>2, <2>4 DEF AskGoes
<1>4. CASE SkillDrop(p)
  <2>1. PICK o \in Owners, n \in Names : \E i \in Named(n) :
             /\ skill[i].owner = o
             /\ AskPut(p, [NoAsk EXCEPT !.pc = "delete", !.as = o, !.id = i, !.row = [NoSkill EXCEPT !.name = skill[i].name]])
        BY <1>4 DEF SkillDrop
  <2> PICK i \in Named(n) :
             /\ skill[i].owner = o
             /\ AskPut(p, [NoAsk EXCEPT !.pc = "delete", !.as = o, !.id = i, !.row = [NoSkill EXCEPT !.name = skill[i].name]])
        BY <2>1
  <2> DEFINE row == [NoSkill EXCEPT !.name = skill[i].name]
             r == [NoAsk EXCEPT !.pc = "delete", !.as = o, !.id = i, !.row = row]
  <2>2. AskPut(p, r)
        OBVIOUS
  <2>3. i \in SkillIds /\ i <= skillBorn /\ row \in {[NoSkill EXCEPT !.name = x] : x \in Names}
        BY Sought
  <2> HIDE DEF row
  <2>4. r \in SkillRequests /\ SkillHeld(r)
        BY <2>3, DropHeld
  <2> QED BY <2>2, <2>4 DEF AskGoes
<1> QED BY <1>1, <1>2, <1>3, <1>4

LEMMA AskReads ==
    ASSUME SkillInv, NEW p \in Askers, SkillList(p) \/ SkillIndex(p) \/ SkillLoad(p)
    PROVE  AskGoes(p)
<1>1. CASE SkillList(p)
  <2>1. PICK o \in Owners \cup {Nobody}, c \in Places :
             LET rows == {skill[i] : i \in ListedFor(o, c)} IN
             AskPut(p, IF rows = {} THEN NoAsk
                       ELSE [NoAsk EXCEPT !.pc = "index", !.as = o, !.place = c, !.names = {r.name : r \in rows}])
        BY <1>1 DEF SkillList
  <2> DEFINE names == {r.name : r \in {skill[i] : i \in ListedFor(o, c)}}
             asked == [NoAsk EXCEPT !.pc = "index", !.as = o, !.place = c, !.names = names]
  <2>2. AskPut(p, NoAsk) \/ AskPut(p, asked)
        BY <2>1
  <2>3. names \in SUBSET Names
    <3>1. \A i \in ListedFor(o, c) : skill[i].name \in Names
          BY DEF ListedFor, SkillInv, SkillTypes, Kept, SkillRow
    <3> QED BY <3>1
  <2> HIDE DEF names
  <2>4. asked \in SkillRequests /\ SkillHeld(asked)
        BY <2>3, IndexHeld
  <2> HIDE DEF asked
  <2> QED BY <2>2, <2>4, NoAskHeld DEF AskGoes
<1>2. CASE SkillIndex(p)
  <2>1. PICK n \in ask[p].names :
             AskAt(p, "index") /\ (AskEnds(p) \/ AskPut(p, [ask[p] EXCEPT !.names = ask[p].names \ {n}]))
        BY <1>2 DEF SkillIndex
  <2> DEFINE r == [ask[p] EXCEPT !.names = ask[p].names \ {n}]
  <2>2. ask[p] \in SkillRequests
        BY DEF SkillInv, SkillTypes
  <2>3. r \in SkillRequests /\ r.pc = "index"
        BY <2>1, <2>2 DEF SkillRequests, AskAt
  <2>4. SkillHeld(r)
        BY <2>3 DEF SkillHeld
  <2> QED BY <2>1, <2>3, <2>4, AskEnding DEF AskGoes
<1>3. CASE SkillLoad(p)
  <2>1. PICK o \in Owners \cup {Nobody}, c \in Places, n \in Names : \E i \in Named(n) :
             /\ Visible(skill[i], o, c)
             /\ AskPut(p, [NoAsk EXCEPT !.pc = "files", !.as = o, !.place = c, !.id = i, !.row = skill[i]])
        BY <1>3 DEF SkillLoad
  <2> PICK i \in Named(n) :
             /\ Visible(skill[i], o, c)
             /\ AskPut(p, [NoAsk EXCEPT !.pc = "files", !.as = o, !.place = c, !.id = i, !.row = skill[i]])
        BY <2>1
  <2>2. i \in SkillIds /\ skill[i] \in SkillRow
        BY SkillNumbers DEF Named, SkillInv, SkillTypes, NoSkill
  <2> DEFINE r == [NoAsk EXCEPT !.pc = "files", !.as = o, !.place = c, !.id = i, !.row = skill[i]]
  <2>3. r \in SkillRequests /\ SkillHeld(r)
        BY <2>2, FilesHeld
  <2> QED BY <2>3 DEF AskGoes
<1> QED BY <1>1, <1>2, <1>3

LEMMA AskSteps == ASSUME SkillInv, NEW p \in Askers, SkillStep(p) PROVE AskGoes(p)
<1>1. CASE SkillInsert(p) \/ SkillUpdate(p) \/ SkillDelete(p) \/ SkillReadFiles(p)
      BY <1>1, AskEnding DEF SkillInsert, SkillUpdate, SkillDelete, SkillReadFiles
<1> QED BY <1>1, AskBegins, AskReads DEF SkillStep

-----------------------------------------------------------------------------
(* Skills.  What the steps do to the rows: no step gives a row to somebody *)
(* else, and ids are never used again.                                     *)

OwnersStay ==
    /\ skillBorn' \in skillBorn..MaxSkills
    /\ \A i \in SkillIds : i <= skillBorn /\ Kept(i)' => Kept(i) /\ skill'[i].owner = skill[i].owner

SkillRows ==
    /\ skill \in [SkillIds -> SkillRow \cup {NoSkill}] /\ \A i \in SkillIds : Kept(i) => i <= skillBorn
    /\ skillFiles \in [SkillIds -> SUBSET Paths] /\ edited \subseteq SkillIds
    /\ skillBegun \in 0..MaxSkillRequests

(* Who changes a row has it in hand and owns it.                           *)
ChangerOwns(p) ==
    \A i \in SkillIds : Kept(i) /\ skill'[i] # skill[i] =>
        ask[p].pc \in {"update", "delete"} /\ ask[p].as = skill[i].owner /\ ask'[p] = NoAsk

RowsGo(p) == SkillRows' /\ OwnersStay /\ ColumnsMirrorText' /\ ChangerOwns(p)

LEMMA HeldStays ==
    ASSUME SkillTypes, OwnersStay, NEW r \in SkillRequests, SkillHeld(r)
    PROVE  SkillHeld(r)'
<1>1. skillBorn \in Int /\ skillBorn' \in Int /\ skillBorn <= skillBorn'
      BY SkillNumbers DEF OwnersStay, SkillTypes
<1>2. r.id \in Nat
      BY DEF SkillRequests
<1> QED BY <1>1, <1>2, SkillNumbers DEF SkillHeld, OwnersStay, Visible

LEMMA SkillCounted == ASSUME SkillInv, SkillBegins \/ UNCHANGED skillBegun PROVE skillBegun' \in 0..MaxSkillRequests
BY SkillNumbers DEF SkillInv, SkillTypes, SkillBegins

LEMMA RowsRest ==
    ASSUME SkillInv, NEW p \in Askers, UNCHANGED <<skill, skillBorn, skillFiles, edited>>, SkillBegins \/ UNCHANGED skillBegun
    PROVE  RowsGo(p)
<1>1. skillBegun' \in 0..MaxSkillRequests
      BY SkillCounted
<1>2. SkillRows'
      BY <1>1 DEF SkillInv, SkillTypes, SkillRows, Kept
<1>3. OwnersStay
      BY SkillNumbers DEF OwnersStay, SkillInv, SkillTypes, Kept
<1>4. ColumnsMirrorText' /\ ChangerOwns(p)
      BY DEF SkillInv, ColumnsMirrorText, Kept, ChangerOwns
<1> QED BY <1>2, <1>3, <1>4 DEF RowsGo

LEMMA InsertGoes == ASSUME SkillInv, NEW p \in Askers, SkillInsert(p) PROVE RowsGo(p)
<1> DEFINE new == skillBorn + 1
           row == ask[p].row
<1>1. /\ row \in SkillRow /\ row.meta = row.text.of /\ ask[p].files # Keep
      /\ ask[p].files \in Opt(SUBSET Paths) /\ skillBorn \in Nat
  <2>1. ask[p].pc = "insert"
        BY DEF SkillInsert, AskAt
  <2>2. ask[p] \in SkillRequests /\ SkillHeld(ask[p]) /\ skillBorn \in Nat
        BY SkillNumbers DEF SkillInv, SkillTypes
  <2>3. ask[p].files \in Opt(SUBSET Paths)
        BY <2>2 DEF SkillRequests
  <2> QED BY <2>1, <2>2, <2>3 DEF SkillHeld
<1>2. ask[p].files.to \in SUBSET Paths
      BY <1>1, GivenTo
<1>3. skillBegun' \in 0..MaxSkillRequests
      BY SkillCounted DEF SkillInsert, SkillFault
<1>4. CASE /\ skillBorn < MaxSkills /\ skillBorn' = skillBorn + 1 /\ skill' = [skill EXCEPT ![new] = row]
           /\ skillFiles' = [skillFiles EXCEPT ![new] = ask[p].files.to]
  <2>1. new \in SkillIds /\ new \in Nat /\ ~Kept(new)
        BY <1>1, <1>4, SkillNumbers DEF SkillIds, SkillInv, SkillTypes
  <2>2. /\ skill'[new] = row /\ \A i \in SkillIds : i # new => skill'[i] = skill[i]
        /\ skill' \in [SkillIds -> SkillRow \cup {NoSkill}] /\ skillFiles' \in [SkillIds -> SUBSET Paths]
        BY <1>1, <1>2, <1>4, <2>1 DEF SkillInv, SkillTypes
  <2>3. edited' = edited
        BY DEF SkillInsert
  <2>4. SkillRows'
    <3>1. \A i \in SkillIds : Kept(i)' => i <= skillBorn'
          BY <1>1, <1>4, <2>2, SkillNumbers DEF SkillInv, SkillTypes, Kept
    <3> QED BY <1>3, <2>2, <2>3, <3>1 DEF SkillRows, SkillInv, SkillTypes
  <2>5. OwnersStay
        BY <1>1, <1>4, <2>2, SkillNumbers DEF OwnersStay, Kept
  <2>6. ColumnsMirrorText'
        BY <1>1, <2>2, <2>3 DEF SkillInv, ColumnsMirrorText, Kept
  <2>7. ChangerOwns(p)
        BY <2>1, <2>2 DEF ChangerOwns
  <2> QED BY <2>4, <2>5, <2>6, <2>7 DEF RowsGo
<1>5. CASE UNCHANGED <<skill, skillBorn>>
  <2>1. edited' = edited /\ skillFiles' \in [SkillIds -> SUBSET Paths]
    <3>1. edited' = edited
          BY DEF SkillInsert
    <3>2. CASE UNCHANGED skillFiles
          BY <3>1, <3>2 DEF SkillInv, SkillTypes
    <3>3. CASE \E i \in Named(row.name) : skillFiles' = [skillFiles EXCEPT ![i] = ask[p].files.to]
          BY <1>2, <3>1, <3>3 DEF SkillInv, SkillTypes, Named
    <3>4. UNCHANGED skillFiles \/ \E i \in Named(row.name) : skillFiles' = [skillFiles EXCEPT ![i] = ask[p].files.to]
          BY <1>5, <1>1 DEF SkillInsert
    <3> QED BY <3>2, <3>3, <3>4
  <2>2. SkillRows'
        BY <1>3, <1>5, <2>1 DEF SkillInv, SkillTypes, SkillRows, Kept
  <2>3. OwnersStay
        BY <1>5, SkillNumbers DEF OwnersStay, SkillInv, SkillTypes, Kept
  <2>4. ColumnsMirrorText' /\ ChangerOwns(p)
        BY <1>5, <2>1 DEF SkillInv, ColumnsMirrorText, Kept, ChangerOwns
  <2> QED BY <2>2, <2>3, <2>4 DEF RowsGo
<1>6. \/ /\ skillBorn < MaxSkills /\ skillBorn' = skillBorn + 1 /\ skill' = [skill EXCEPT ![new] = row]
         /\ skillFiles' = [skillFiles EXCEPT ![new] = ask[p].files.to]
      \/ \E i \in Named(row.name) : UNCHANGED skill /\ UNCHANGED skillBorn
      \/ UNCHANGED <<skill, skillBorn>>
      BY DEF SkillInsert, Upsert
<1> QED BY <1>4, <1>5, <1>6

(* A row that is changed or deleted is the one in hand, and the login's.   *)
LEMMA TargetIsOwn ==
    ASSUME SkillInv, NEW p \in Askers, AskAt(p, "update") \/ AskAt(p, "delete"), NEW i \in Target(p)
    PROVE  i \in SkillIds /\ Kept(i) /\ skill[i] \in SkillRow /\ i <= skillBorn /\ skill[i].owner = ask[p].as
<1>1. SkillHeld(ask[p]) /\ ask[p].pc \in {"update", "delete"}
      BY DEF AskAt, SkillInv
<1>2. i = ask[p].id /\ Kept(i)
      BY DEF Target
<1> QED BY <1>1, <1>2 DEF SkillHeld, SkillInv, SkillTypes, Kept

LEMMA UpdateGoes == ASSUME SkillInv, NEW p \in Askers, SkillUpdate(p) PROVE RowsGo(p)
<1> DEFINE r == ask[p]
<1>1. r \in SkillRequests /\ r.pc = "update" /\ skillBegun' \in 0..MaxSkillRequests /\ skillBorn' = skillBorn
      BY SkillCounted DEF SkillUpdate, SkillFault, AskAt, SkillInv, SkillTypes
<1>2. CASE UNCHANGED <<skill, skillFiles, edited>>
  <2>1. SkillRows'
        BY <1>1, <1>2 DEF SkillInv, SkillTypes, SkillRows, Kept
  <2>2. OwnersStay
        BY <1>1, <1>2, SkillNumbers DEF OwnersStay, SkillInv, SkillTypes, Kept
  <2>3. ColumnsMirrorText' /\ ChangerOwns(p)
        BY <1>2 DEF SkillInv, ColumnsMirrorText, Kept, ChangerOwns
  <2> QED BY <2>1, <2>2, <2>3 DEF RowsGo
<1>3. ASSUME NEW i \in Target(p),
             skill' = [skill EXCEPT
                 ![i].text = IF r.text = Keep THEN @ ELSE [of |-> r.text.to, full |-> TRUE],
                 ![i].meta = Columns(r, @), ![i].channels = Given(r.channels, @)],
             skillFiles' = [skillFiles EXCEPT ![i] = Given(r.files, @)],
             edited' = IF r.text # Keep THEN edited \ {i} ELSE IF r.meta # Keep THEN edited \cup {i} ELSE edited
      PROVE  RowsGo(p)
  <2>1. i \in SkillIds /\ Kept(i) /\ skill[i] \in SkillRow /\ i <= skillBorn /\ skill[i].owner = r.as
        BY <1>1, TargetIsOwn DEF AskAt
  <2>2. r.text \in Opt(Metas) /\ r.meta \in Opt(Metas) /\ r.channels \in Opt(Published) /\ r.files \in Opt(SUBSET Paths)
        BY <1>1 DEF SkillRequests
  <2> DEFINE text == IF r.text = Keep THEN skill[i].text ELSE [of |-> r.text.to, full |-> TRUE]
             meta == Columns(r, skill[i].meta)
             chan == Given(r.channels, skill[i].channels)
             one  == [skill[i] EXCEPT !.text = text]
             two  == [one EXCEPT !.meta = meta]
             row  == [two EXCEPT !.channels = chan]
  <2>3. skill' = [skill EXCEPT ![i] = row]
        BY <1>3, <2>1 DEF SkillInv, SkillTypes, SkillRow
  <2>4. text \in [of : Metas, full : BOOLEAN] /\ (r.text # Keep => text.of = r.text.to) /\ (r.text = Keep => text = skill[i].text)
    <3>1. r.text # Keep => r.text.to \in Metas
          BY <2>2, GivenTo
    <3>2. skill[i].text \in [of : Metas, full : BOOLEAN]
          BY <2>1 DEF SkillRow
    <3> QED BY <3>1, <3>2
  <2>5. meta \in Metas /\ (r.text # Keep => meta = r.text.to) /\ (r.text = Keep /\ r.meta = Keep => meta = skill[i].meta)
    <3>1. skill[i].meta \in Metas
          BY <2>1 DEF SkillRow
    <3>2. r.text # Keep => r.text.to \in Metas
          BY <2>2, GivenTo
    <3>3. Given(r.meta, skill[i].meta) \in Metas /\ (r.meta = Keep => Given(r.meta, skill[i].meta) = skill[i].meta)
          BY <2>2, <3>1, GivenType DEF Given
    <3> QED BY <3>2, <3>3 DEF Columns
  <2>6. chan \in Published
    <3>1. skill[i].channels \in Published
          BY <2>1 DEF SkillRow
    <3> QED BY <2>2, <3>1, GivenType
  <2> HIDE DEF text, meta, chan
  <2>7. one \in SkillRow /\ one.text = text /\ one.owner = skill[i].owner
        BY <2>1, <2>4 DEF SkillRow
  <2> HIDE DEF one
  <2>8. two \in SkillRow /\ two.text = text /\ two.meta = meta /\ two.owner = skill[i].owner
        BY <2>5, <2>7 DEF SkillRow
  <2> HIDE DEF two
  <2>9. row \in SkillRow /\ row.text = text /\ row.meta = meta /\ row.owner = skill[i].owner
        BY <2>6, <2>8 DEF SkillRow
  <2> HIDE DEF row
  <2>10. /\ skill' \in [SkillIds -> SkillRow \cup {NoSkill}] /\ skill'[i] = row
         /\ \A j \in SkillIds : j # i => skill'[j] = skill[j]
        BY <2>1, <2>3, <2>9 DEF SkillInv, SkillTypes
  <2>11. SkillRows'
    <3>1. \A j \in SkillIds : Kept(j)' => j <= skillBorn'
          BY <1>1, <2>1, <2>10 DEF SkillInv, SkillTypes, Kept
    <3>2. skillFiles' \in [SkillIds -> SUBSET Paths]
      <4>1. skillFiles[i] \in SUBSET Paths
            BY <2>1 DEF SkillInv, SkillTypes
      <4>2. Given(r.files, skillFiles[i]) \in SUBSET Paths
            BY <2>2, <4>1, GivenType
      <4>3. skillFiles' = [skillFiles EXCEPT ![i] = Given(r.files, skillFiles[i])]
            BY <1>3
      <4> QED BY <2>1, <4>2, <4>3 DEF SkillInv, SkillTypes
    <3>3. edited' \subseteq SkillIds
          BY <1>3, <2>1 DEF SkillInv, SkillTypes
    <3> QED BY <1>1, <2>10, <3>1, <3>2, <3>3 DEF SkillRows
  <2>12. OwnersStay
        BY <1>1, <2>1, <2>9, <2>10, SkillNumbers DEF OwnersStay, Kept, SkillInv, SkillTypes
  <2>13. ColumnsMirrorText'
    <3> SUFFICES ASSUME NEW j \in SkillIds, Kept(j)', j \notin edited' PROVE skill'[j].meta = skill'[j].text.of
          BY DEF ColumnsMirrorText
    <3>1. CASE j # i
          BY <1>3, <2>10, <3>1 DEF SkillInv, ColumnsMirrorText, Kept
    <3>2. CASE j = i /\ r.text # Keep
          BY <2>4, <2>5, <2>9, <2>10, <3>2
    <3>3. CASE j = i /\ r.text = Keep
      <4>1. r.meta = Keep /\ i \notin edited
            BY <1>3, <3>3
      <4>2. skill[i].meta = skill[i].text.of
            BY <2>1, <4>1 DEF SkillInv, ColumnsMirrorText
      <4> QED BY <2>4, <2>5, <2>9, <2>10, <3>3, <4>1, <4>2
    <3> QED BY <3>1, <3>2, <3>3
  <2>14. ChangerOwns(p)
        BY <1>1, <2>1, <2>10 DEF ChangerOwns, SkillUpdate, AskEnds, AskPut, SkillInv, SkillTypes
  <2> QED BY <2>11, <2>12, <2>13, <2>14 DEF RowsGo
<1> QED BY <1>2, <1>3 DEF SkillUpdate

LEMMA DeleteGoes == ASSUME SkillInv, NEW p \in Askers, SkillDelete(p) PROVE RowsGo(p)
<1>1. ask[p].pc = "delete" /\ skillBegun' \in 0..MaxSkillRequests /\ skillBorn' = skillBorn
      BY SkillCounted DEF SkillDelete, SkillFault, AskAt
<1>2. CASE UNCHANGED <<skill, skillFiles, edited>>
  <2>1. SkillRows'
        BY <1>1, <1>2 DEF SkillInv, SkillTypes, SkillRows, Kept
  <2>2. OwnersStay
        BY <1>1, <1>2, SkillNumbers DEF OwnersStay, SkillInv, SkillTypes, Kept
  <2>3. ColumnsMirrorText' /\ ChangerOwns(p)
        BY <1>2 DEF SkillInv, ColumnsMirrorText, Kept, ChangerOwns
  <2> QED BY <2>1, <2>2, <2>3 DEF RowsGo
<1>3. ASSUME NEW i \in Target(p), skill' = [skill EXCEPT ![i] = NoSkill], skillFiles' = [skillFiles EXCEPT ![i] = {}],
             edited' = edited \ {i}
      PROVE  RowsGo(p)
  <2>1. i \in SkillIds /\ skill[i].owner = ask[p].as
        BY <1>1, TargetIsOwn DEF AskAt
  <2>2. /\ skill' \in [SkillIds -> SkillRow \cup {NoSkill}] /\ ~Kept(i)'
        /\ \A j \in SkillIds : j # i => skill'[j] = skill[j]
        BY <1>3, <2>1 DEF SkillInv, SkillTypes, Kept
  <2>3. SkillRows'
        BY <1>1, <1>3, <2>1, <2>2 DEF SkillInv, SkillTypes, SkillRows, Kept
  <2>4. OwnersStay
        BY <1>1, <2>2, SkillNumbers DEF OwnersStay, SkillInv, SkillTypes, Kept
  <2>5. ColumnsMirrorText'
        BY <1>3, <2>2 DEF SkillInv, ColumnsMirrorText, Kept
  <2>6. ChangerOwns(p)
        BY <1>1, <2>1, <2>2 DEF ChangerOwns, SkillDelete, AskEnds, AskPut, SkillInv, SkillTypes
  <2> QED BY <2>3, <2>4, <2>5, <2>6 DEF RowsGo
<1> QED BY <1>2, <1>3 DEF SkillDelete

LEMMA RowsSteps == ASSUME SkillInv, NEW p \in Askers, SkillStep(p) PROVE RowsGo(p)
<1>1. CASE \/ SkillPost(p) \/ SkillImport(p) \/ SkillPut(p) \/ SkillDrop(p)
           \/ SkillList(p) \/ SkillIndex(p) \/ SkillLoad(p) \/ SkillReadFiles(p)
  <2>1. UNCHANGED <<skill, skillBorn, skillFiles, edited>> /\ (SkillBegins \/ UNCHANGED skillBegun)
        BY <1>1 DEF SkillPost, SkillImport, SkillPut, SkillDrop, SkillList, SkillIndex, SkillLoad, SkillReadFiles, SkillFault
  <2> QED BY <2>1, RowsRest
<1> QED BY <1>1, InsertGoes, UpdateGoes, DeleteGoes DEF SkillStep

-----------------------------------------------------------------------------
(* Skills.  What a step shows.                                             *)

SeenGo == SeenWasVisible' /\ skillSeen' \subseteq (Owners \cup {Nobody}) \X Owners \X BOOLEAN

LEMMA ShowsVisible ==
    ASSUME NEW o \in Owners \cup {Nobody}, NEW c, NEW rows \in SUBSET SkillRow, \A r \in rows : Visible(r, o, c),
           SkillShow(o, c, rows)
    PROVE  SeenGo
<1>1. \A s \in skillSeen' : \E r \in rows : s = <<o, r.owner, c \in r.channels>>
      BY DEF SkillShow
<1>2. ASSUME NEW r \in rows
      PROVE  r.owner \in Owners /\ (c \in r.channels) \in BOOLEAN /\ (o = r.owner \/ c \in r.channels)
      BY <1>2 DEF SkillRow, Visible
<1>3. ASSUME NEW s \in skillSeen'
      PROVE  s \in (Owners \cup {Nobody}) \X Owners \X BOOLEAN /\ (s[1] = s[2] \/ s[3])
  <2>1. PICK r \in rows : s = <<o, r.owner, c \in r.channels>>
        BY <1>1, <1>3
  <2> DEFINE shown == c \in r.channels
  <2>2. shown \in BOOLEAN /\ s = <<o, r.owner, shown>> /\ r.owner \in Owners /\ (o = r.owner \/ shown)
        BY <1>2, <2>1
  <2> HIDE DEF shown
  <2> QED BY <2>2
<1> QED BY <1>3 DEF SeenGo, SeenWasVisible

LEMMA SeenSteps == ASSUME SkillInv, NEW p \in Askers, SkillStep(p) PROVE SeenGo
<1>1. CASE skillSeen' = {}
      BY <1>1 DEF SeenGo, SeenWasVisible
<1>2. CASE SkillList(p)
  <2>1. PICK o \in Owners \cup {Nobody}, c \in Places : SkillShow(o, c, {skill[i] : i \in ListedFor(o, c)})
        BY <1>2 DEF SkillList
  <2>2. \A i \in ListedFor(o, c) : skill[i] \in SkillRow /\ Visible(skill[i], o, c)
        BY DEF ListedFor, SkillInv, SkillTypes, Kept
  <2> DEFINE rows == {skill[i] : i \in ListedFor(o, c)}
  <2>3. rows \in SUBSET SkillRow /\ \A r \in rows : Visible(r, o, c)
        BY <2>2
  <2>4. SkillShow(o, c, rows)
        BY <2>1
  <2> HIDE DEF rows
  <2> QED BY <2>3, <2>4, ShowsVisible
<1>3. CASE SkillIndex(p) /\ skillSeen' # {}
  <2>1. PICK n \in ask[p].names :
             SkillShow(ask[p].as, ask[p].place, {skill[i] : i \in {j \in Named(n) : Visible(skill[j], ask[p].as, ask[p].place)}})
        BY <1>3 DEF SkillIndex
  <2>2. ask[p] \in SkillRequests
        BY DEF SkillInv, SkillTypes
  <2>3. n \in Names /\ ask[p].as \in Owners \cup {Nobody}
        BY <2>2 DEF SkillRequests
  <2> DEFINE o == ask[p].as
             c == ask[p].place
             rows == {skill[i] : i \in {j \in Named(n) : Visible(skill[j], o, c)}}
  <2>4. \A i \in Named(n) : skill[i] \in SkillRow
        BY <2>3, Sought
  <2>5. rows \in SUBSET SkillRow /\ \A r \in rows : Visible(r, o, c)
        BY <2>4
  <2>6. SkillShow(o, c, rows)
        BY <2>1
  <2> HIDE DEF rows, o, c
  <2>7. o \in Owners \cup {Nobody}
        BY <2>3 DEF o
  <2> QED BY <2>5, <2>6, <2>7, ShowsVisible
<1>4. CASE SkillLoad(p)
  <2>1. PICK o \in Owners \cup {Nobody}, c \in Places, n \in Names : \E i \in Named(n) :
             Visible(skill[i], o, c) /\ SkillShow(o, c, {skill[i]})
        BY <1>4 DEF SkillLoad
  <2> PICK i \in Named(n) : Visible(skill[i], o, c) /\ SkillShow(o, c, {skill[i]})
        BY <2>1
  <2> DEFINE rows == {skill[i]}
  <2>2. rows \in SUBSET SkillRow /\ \A r \in rows : Visible(r, o, c)
        BY Sought
  <2>3. SkillShow(o, c, rows)
        OBVIOUS
  <2> HIDE DEF rows
  <2> QED BY <2>2, <2>3, ShowsVisible
<1>5. CASE SkillReadFiles(p) /\ skillSeen' # {}
  <2> DEFINE o == ask[p].as
             c == ask[p].place
             rows == FilesOf(p)
  <2>1. ask[p] \in SkillRequests /\ SkillHeld(ask[p]) /\ ask[p].pc = "files"
        BY <1>5 DEF SkillInv, SkillTypes, SkillReadFiles, AskAt
  <2>2. o \in Owners \cup {Nobody}
        BY <2>1 DEF SkillRequests
  <2>3. rows \in SUBSET SkillRow /\ \A r \in rows : Visible(r, o, c)
        BY <2>1 DEF SkillHeld, FilesOf
  <2>4. SkillShow(o, c, rows)
        BY <1>5 DEF SkillReadFiles
  <2> HIDE DEF o, c, rows
  <2> QED BY <2>2, <2>3, <2>4, ShowsVisible
<1> QED BY <1>1, <1>2, <1>3, <1>4, <1>5
        DEF SkillStep, SkillPost, SkillImport, SkillInsert, SkillPut, SkillUpdate, SkillDrop, SkillDelete

-----------------------------------------------------------------------------
(* Skills.  The invariant, and what follows from it.                       *)

LEMMA SkillBeginning == SkillInit => SkillInv
<1> SUFFICES ASSUME SkillInit PROVE SkillInv
    OBVIOUS
<1>1. skill \in [SkillIds -> SkillRow \cup {NoSkill}] /\ ask \in [Askers -> SkillRequests]
      BY NoAskHeld DEF SkillInit
<1>2. \A i \in SkillIds : ~Kept(i)
      BY DEF SkillInit, Kept
<1>3. SkillTypes
      BY <1>1, <1>2, SkillNumbers DEF SkillInit, SkillTypes
<1>4. \A p \in Askers : SkillHeld(ask[p])
      BY NoAskHeld DEF SkillInit
<1> QED BY <1>2, <1>3, <1>4 DEF SkillInit, SkillInv, ColumnsMirrorText, SeenWasVisible

LEMMA SkillSteps == SkillInv /\ [SkillNext]_skillVars => SkillInv'
<1> SUFFICES ASSUME SkillInv, [SkillNext]_skillVars PROVE SkillInv'
    OBVIOUS
<1>1. CASE UNCHANGED skillVars
      BY <1>1 DEF skillVars, SkillInv, SkillTypes, SkillHeld, ColumnsMirrorText, SeenWasVisible, Kept, Visible
<1>2. ASSUME NEW p \in Askers, SkillStep(p) PROVE SkillInv'
  <2>1. RowsGo(p) /\ SeenGo
        BY <1>2, RowsSteps, SeenSteps
  <2>2. PICK r \in SkillRequests : AskPut(p, r) /\ SkillHeld(r)
        BY <1>2, AskSteps DEF AskGoes
  <2>3. ask' \in [Askers -> SkillRequests] /\ \A q \in Askers : ask'[q] = IF q = p THEN r ELSE ask[q]
        BY <2>2 DEF AskPut, SkillInv, SkillTypes
  <2>4. SkillTypes'
        BY <2>1, <2>3, SkillNumbers DEF RowsGo, SkillRows, OwnersStay, SeenGo, SkillTypes, SkillInv
  <2>5. ASSUME NEW q \in Askers PROVE SkillHeld(ask[q])'
    <3>1. PICK s \in SkillRequests : s = ask'[q] /\ SkillHeld(s)
          BY <2>2, <2>3 DEF SkillInv, SkillTypes
    <3>2. SkillHeld(s)'
          BY <2>1, <3>1, HeldStays DEF RowsGo, SkillInv
    <3> QED BY <3>1, <3>2 DEF SkillHeld, Visible
  <2> QED BY <2>1, <2>4, <2>5 DEF SkillInv, RowsGo, SeenGo
<1> QED BY <1>1, <1>2 DEF SkillNext

LEMMA SkillKept == SkillSpec => []SkillInv
BY SkillBeginning, SkillSteps, PTL DEF SkillSpec

(* Rows, files and requests of the skills have their types, whatever       *)
(* creations, imports, changes and reads overlap.                          *)
THEOREM SkillsTypeCorrect == SkillSpec => []SkillTypeOK
<1>1. SkillInv => SkillTypeOK
      BY DEF SkillInv, SkillTypes, SkillTypeOK, SkillRow, Kept
<1> QED BY <1>1, SkillKept, PTL

(* Skills are listed, read and opened only for their owner or on a channel *)
(* they are shown on (skills_x.go:58-79, 110-171).                         *)
THEOREM SkillsShownAreVisible == SkillSpec => []SeenWasVisible
<1>1. SkillInv => SeenWasVisible
      BY DEF SkillInv
<1> QED BY <1>1, SkillKept, PTL

(* The columns of a skill say what its frontmatter said, unless a request  *)
(* set them without a text (models skills_x.go:233-255).                   *)
THEOREM SkillColumnsFollow == SkillSpec => []ColumnsMirrorText
<1>1. SkillInv => ColumnsMirrorText
      BY DEF SkillInv
<1> QED BY <1>1, SkillKept, PTL

(* Only its owner changes or deletes a skill, although the name is read in *)
(* one step and the row written in a later one (handle_skills_x.go:282).   *)
THEOREM SkillsChangeByOwners == SkillSpec => OwnSkillsChanged
<1>1. SkillInv /\ [SkillNext]_skillVars
      => [\A i \in SkillIds : Kept(i) /\ skill'[i] # skill[i] =>
              \E p \in Askers : ask[p].pc \in {"update", "delete"} /\ ask[p].as = skill[i].owner /\ ask'[p] = NoAsk]_skillVars
      BY RowsSteps DEF SkillNext, RowsGo, ChangerOwns
<1> QED BY <1>1, SkillKept, PTL DEF SkillSpec, OwnSkillsChanged

-----------------------------------------------------------------------------
(* Memory.  A row has an owner who is a user; a request works on rows that *)
(* were created, and what the embedding command has in hand are copies of  *)
(* different rows.                                                         *)

MemRow   == [owner : Users, key : Keys, content : Contents, tier : Tiers, count : Nat]
Copies   == [id : MemIds, content : Contents]
Accesses == [id : MemIds, tier : Tiers, count : Nat]

MemRequests ==
    [pc : {"idle", "write", "create", "embed", "vector", "delete", "load", "reinforce", "sync"},
     as : Users \cup {None, Cli}, key : Keys \cup {None}, content : Contents \cup {None},
     tier : Tiers \cup {None}, id : Nat, hits : SUBSET MemIds,
     rows : SUBSET (Copies \cup Accesses), done : SUBSET Copies]

MemTypes ==
    /\ mem \in [MemIds -> MemRow \cup {NoRow}] /\ memBorn \in 0..MaxMemories
    /\ \A i \in MemIds : Exists(i) => i <= memBorn
    /\ vec \in [MemIds -> SUBSET Contents] /\ memReq \in [Callers -> MemRequests]
    /\ memShown \subseteq Users \X Users /\ memFaults \in 0..MaxMemFaults /\ unembedded \subseteq MemIds

(* The rows a command has been through and those to come are different.    *)
Apart(r) ==
    /\ r.rows \subseteq Copies /\ \A m, n \in r.rows : m.id = n.id => m = n
    /\ \A m \in r.rows, n \in r.done : m.id # n.id

(* A request that works on a row works on one of those born.               *)
MemHeld(r) ==
    /\ r.pc \in {"write", "create", "embed", "vector"} => r.content \in Contents
    /\ r.pc \in {"write", "create", "delete", "load", "reinforce"} => r.as \in Users
    /\ r.pc = "create" => r.key \in Keys /\ r.tier \in Tiers
    /\ r.pc \in {"write", "embed", "vector", "delete"} => r.id \in 1..memBorn
    /\ r.pc = "reinforce" => r.rows \subseteq Accesses
    /\ r.pc = "sync" => r.as = Cli /\ Apart(r) /\ \A m \in r.rows \cup r.done : m.id <= memBorn
    /\ r.pc # "sync" => r.done = {}

(* One embedding command at a time.                                        *)
OneSync == \A p, q \in Callers : MemAt(p, "sync") /\ MemAt(q, "sync") => p = q

MemInv ==
    /\ MemTypes /\ (\A p \in Callers : MemHeld(memReq[p])) /\ OneSync
    /\ UnembeddedMemoryHasCause /\ SyncedIsFound

LEMMA MemNumbers ==
    /\ MaxMemories \in Nat /\ MaxMemFaults \in Nat /\ \A i \in MemIds : i \in Nat \ {0} /\ i <= MaxMemories
    /\ None \notin Users /\ Cli \notin Users /\ Keepers \subseteq Users
BY MemoryAssumption DEF MemIds, None, Cli

LEMMA MemRowIsThere == \A r \in MemRow : r # NoRow
BY MemNumbers DEF MemRow, NoRow

LEMMA RouteTierType == \A s : RouteTier(s) \in Tiers
BY DEF RouteTier, Tiers

LEMMA PromoteTierType == ASSUME NEW t \in Tiers, NEW n PROVE PromoteTier(t, n) \in Tiers
BY DEF PromoteTier, Tiers

LEMMA IdsOfRows == ASSUME MemInv, NEW i \in MemIds, Exists(i) PROVE i \in 1..memBorn /\ mem[i] \in MemRow
BY MemNumbers DEF MemInv, MemTypes, Exists

(* A row of the caller with a key.                                         *)
LEMMA MineIsThere ==
    ASSUME MemInv, NEW as \in Users, NEW k, NEW i \in Mine(as, k)
    PROVE  i \in MemIds /\ i \in 1..memBorn
<1>1. i \in MemIds /\ mem[i].owner \in Users
      BY DEF Mine
<1>2. Exists(i)
      BY <1>1, MemNumbers DEF Exists, NoRow
<1> QED BY <1>1, <1>2, IdsOfRows

(* What the requests that come in hold.                                    *)
LEMMA MemIdleHeld == MemIdle \in MemRequests /\ MemHeld(MemIdle)
BY DEF MemIdle, MemRequests, MemHeld

Draft(p, as, k, c, t) == [MemBegin(p, "create", as) EXCEPT !.key = k, !.content = c, !.tier = t]

IsDraft(r, as, c) == r \in MemRequests /\ MemHeld(r) /\ r.pc = "create" /\ r.as = as /\ r.content = c /\ r.done = {}

LEMMA CreateHeld ==
    ASSUME NEW p, NEW as \in Users, NEW k \in Keys, NEW c \in Contents, NEW t \in Tiers
    PROVE  IsDraft(Draft(p, as, k, c, t), as, c)
<1> DEFINE r == Draft(p, as, k, c, t)
<1> USE DEF Draft
<1>1. r \in MemRequests
      BY DEF MemBegin, MemIdle, MemRequests
<1>2. r.pc = "create" /\ r.as = as /\ r.key = k /\ r.content = c /\ r.tier = t /\ r.done = {}
      BY DEF MemBegin, MemIdle
<1> HIDE DEF r
<1>3. IsDraft(r, as, c)
      BY <1>1, <1>2 DEF MemHeld, IsDraft
<1> QED BY <1>3 DEF r

LEMMA WriteHeld ==
    ASSUME NEW r \in MemRequests, r.as \in Users, r.content \in Contents, r.done = {}, NEW i \in MemIds, i \in 1..memBorn,
           NEW s, s = [r EXCEPT !.pc = "write", !.id = i]
    PROVE  s \in MemRequests /\ MemHeld(s) /\ s.pc = "write"
<1> DEFINE mid == [r EXCEPT !.pc = "write"]
<1>1. mid \in MemRequests /\ mid.pc = "write" /\ mid.as = r.as /\ mid.content = r.content /\ mid.done = r.done
      BY DEF MemRequests
<1>2. s = [mid EXCEPT !.id = i]
      OBVIOUS
<1> HIDE DEF mid
<1>3. s \in MemRequests /\ s.pc = "write" /\ s.as = r.as /\ s.content = r.content /\ s.done = r.done /\ s.id = i
      BY <1>1, <1>2, MemNumbers DEF MemRequests
<1> QED BY <1>3 DEF MemHeld

LEMMA DeleteHeld ==
    ASSUME NEW p, NEW as \in Users, NEW i \in MemIds, i \in 1..memBorn,
           NEW r, r = [MemBegin(p, "delete", as) EXCEPT !.id = i]
    PROVE  r \in MemRequests /\ MemHeld(r)
<1>1. r \in MemRequests
      BY MemNumbers DEF MemBegin, MemIdle, MemRequests
<1>2. r.pc = "delete" /\ r.as = as /\ r.id = i /\ r.done = {}
      BY DEF MemBegin, MemIdle
<1> QED BY <1>1, <1>2 DEF MemHeld

LEMMA LoadHeld ==
    ASSUME NEW p, NEW as \in Users, NEW h \in SUBSET MemIds,
           NEW r, r = [MemBegin(p, "load", as) EXCEPT !.hits = h]
    PROVE  r \in MemRequests /\ MemHeld(r)
<1>1. r \in MemRequests
      BY DEF MemBegin, MemIdle, MemRequests
<1>2. r.pc = "load" /\ r.as = as /\ r.done = {}
      BY DEF MemBegin, MemIdle
<1> QED BY <1>1, <1>2 DEF MemHeld

LEMMA ReinforceHeld ==
    ASSUME NEW p, NEW as \in Users, NEW rows \in SUBSET Accesses,
           NEW r, r = [MemBegin(p, "reinforce", as) EXCEPT !.rows = rows]
    PROVE  r \in MemRequests /\ MemHeld(r)
<1>1. r \in MemRequests
      BY DEF MemBegin, MemIdle, MemRequests
<1>2. r.pc = "reinforce" /\ r.as = as /\ r.rows = rows /\ r.done = {}
      BY DEF MemBegin, MemIdle
<1> QED BY <1>1, <1>2 DEF MemHeld

LEMMA SyncHeld ==
    ASSUME NEW p, NEW rows \in SUBSET Copies, \A m, n \in rows : m.id = n.id => m = n, \A m \in rows : m.id <= memBorn,
           NEW r, r = [MemBegin(p, "sync", Cli) EXCEPT !.rows = rows]
    PROVE  r \in MemRequests /\ MemHeld(r)
<1>1. r \in MemRequests
      BY DEF MemBegin, MemIdle, MemRequests
<1>2. r.pc = "sync" /\ r.as = Cli /\ r.rows = rows /\ r.done = {}
      BY DEF MemBegin, MemIdle
<1> QED BY <1>1, <1>2 DEF MemHeld, Apart

-----------------------------------------------------------------------------
(* Memory.  Where a step leaves the request of p.                          *)

MemGoes(p, r) == r \in MemRequests /\ MemPut(p, r) /\ MemHeld(r)'

LEMMA MemHeldStays ==
    ASSUME MemInv, memBorn' \in memBorn..MaxMemories, NEW r \in MemRequests, MemHeld(r)
    PROVE  MemHeld(r)'
<1>1. memBorn \in Int /\ memBorn' \in Int /\ memBorn <= memBorn' /\ r.id \in Nat
      BY MemNumbers DEF MemInv, MemTypes, MemRequests
<1>2. \A m \in r.rows \cup r.done : m.id <= memBorn /\ r.pc = "sync" => m.id <= memBorn'
  <2> SUFFICES ASSUME NEW m \in r.rows \cup r.done, m.id <= memBorn, r.pc = "sync" PROVE m.id <= memBorn'
      OBVIOUS
  <2>1. m \in Copies
        BY DEF MemHeld, Apart, MemRequests
  <2>2. m.id \in Int
        BY <2>1, MemNumbers DEF Copies
  <2> QED BY <1>1, <2>2
<1> QED BY <1>1, <1>2 DEF MemHeld, Apart

LEMMA MemEnding ==
    ASSUME MemInv, NEW p \in Callers, memBorn' \in memBorn..MaxMemories, MemEnds(p)
    PROVE  MemGoes(p, MemIdle)
BY MemIdleHeld, MemHeldStays DEF MemEnds, MemGoes

LEMMA MemSameBorn == ASSUME MemInv, memBorn' = memBorn PROVE memBorn' \in memBorn..MaxMemories
BY MemNumbers DEF MemInv, MemTypes

(* A request that begins or ends, or writes no vector: what the embedding  *)
(* commands have done is untouched, and only one begins at a time.         *)
MemTakes(p) ==
    \E r : MemGoes(p, r) /\ r.done = {} /\ (r.pc = "sync" => \A o \in Callers : ~MemAt(o, "sync"))

LEMMA MemIdleTakes ==
    ASSUME MemInv, NEW p \in Callers, memBorn' = memBorn, MemEnds(p)
    PROVE  MemTakes(p)
<1>1. MemGoes(p, MemIdle)
      BY MemEnding, MemSameBorn
<1>2. MemIdle.done = {} /\ MemIdle.pc # "sync"
      BY DEF MemIdle
<1> QED BY <1>1, <1>2 DEF MemTakes

LEMMA MemNewTakes ==
    ASSUME MemInv, NEW p \in Callers, memBorn' = memBorn, NEW r \in MemRequests, MemHeld(r), r.pc # "sync", MemPut(p, r)
    PROVE  MemTakes(p)
<1>1. r.done = {}
      BY DEF MemHeld
<1>2. MemHeld(r)'
      BY MemHeldStays, MemSameBorn
<1> QED BY <1>1, <1>2 DEF MemTakes, MemGoes

LEMMA MemSyncTakes ==
    ASSUME MemInv, NEW p \in Callers, memBorn' = memBorn, NEW r \in MemRequests, MemHeld(r), r.done = {}, MemPut(p, r),
           \A o \in Callers : ~MemAt(o, "sync")
    PROVE  MemTakes(p)
<1>1. MemHeld(r)'
      BY MemHeldStays, MemSameBorn
<1> QED BY <1>1 DEF MemTakes, MemGoes

LEMMA StoreTakes == ASSUME MemInv, NEW p \in Callers, MemStore(p) \/ MemPost(p) PROVE MemTakes(p)
<1>1. memBorn' = memBorn
      BY DEF MemStore, MemPost
<1>2. CASE MemPost(p)
  <2>1. PICK as \in Users, k \in Keys, c \in Contents, t \in Tiers :
             MemPut(p, [MemBegin(p, "create", as) EXCEPT !.key = k, !.content = c, !.tier = t])
        BY <1>2 DEF MemPost
  <2> PICK r : r = Draft(p, as, k, c, t)
        OBVIOUS
  <2>2. r \in MemRequests /\ MemHeld(r) /\ r.pc = "create"
    <3>1. IsDraft(r, as, c)
          BY CreateHeld
    <3> QED BY <3>1 DEF IsDraft
  <2>3. MemPut(p, r)
        BY <2>1 DEF Draft
  <2> QED BY <1>1, <2>2, <2>3, MemNewTakes
<1>3. CASE MemStore(p)
  <2>1. PICK as \in Users, k \in Keys, c \in Contents :
             LET new == [MemBegin(p, "create", as) EXCEPT !.key = k, !.content = c, !.tier = RouteTier(Score[c])]
             IN  (\E i \in Mine(as, k) : MemPut(p, [new EXCEPT !.pc = "write", !.id = i])) \/ MemPut(p, new)
        BY <1>3 DEF MemStore
  <2>t. RouteTier(Score[c]) \in Tiers
        BY RouteTierType
  <2> PICK new : new = Draft(p, as, k, c, RouteTier(Score[c]))
        OBVIOUS
  <2>2. new \in MemRequests /\ MemHeld(new) /\ new.pc = "create" /\ new.as = as /\ new.content = c /\ new.done = {}
    <3>1. IsDraft(new, as, c)
          BY <2>t, CreateHeld
    <3> QED BY <3>1 DEF IsDraft
  <2>4. (\E i \in Mine(as, k) : MemPut(p, [new EXCEPT !.pc = "write", !.id = i])) \/ MemPut(p, new)
        BY <2>1 DEF Draft
  <2>5. ASSUME NEW i \in Mine(as, k), MemPut(p, [new EXCEPT !.pc = "write", !.id = i]) PROVE MemTakes(p)
    <3> DEFINE r == [new EXCEPT !.pc = "write", !.id = i]
    <3>1. i \in MemIds /\ i \in 1..memBorn
          BY MineIsThere
    <3>2. r \in MemRequests /\ MemHeld(r) /\ r.pc = "write"
          BY <2>2, <3>1, WriteHeld
    <3>3. MemPut(p, r)
          BY <2>5
    <3> HIDE DEF r
    <3> QED BY <1>1, <3>2, <3>3, MemNewTakes
  <2> QED BY <1>1, <2>2, <2>4, <2>5, MemNewTakes
<1> QED BY <1>2, <1>3

LEMMA ForgetTakes == ASSUME MemInv, NEW p \in Callers, MemForget(p) \/ MemDeleteRequest(p) PROVE MemTakes(p)
<1>1. memBorn' = memBorn
      BY DEF MemForget, MemDeleteRequest
<1>2. PICK as \in Users, i \in MemIds : i \in 1..memBorn /\ MemPut(p, [MemBegin(p, "delete", as) EXCEPT !.id = i])
  <2>1. CASE MemForget(p)
        BY <2>1, MineIsThere DEF MemForget
  <2>2. CASE MemDeleteRequest(p)
        BY <2>2, IdsOfRows DEF MemDeleteRequest
  <2> QED BY <2>1, <2>2
<1> DEFINE r == [MemBegin(p, "delete", as) EXCEPT !.id = i]
<1>3. r \in MemRequests /\ MemHeld(r)
      BY <1>2, DeleteHeld
<1>4. r.pc = "delete"
      BY DEF MemBegin, MemIdle
<1>5. MemPut(p, r)
      BY <1>2
<1> HIDE DEF r
<1> QED BY <1>1, <1>3, <1>4, <1>5, MemNewTakes

LEMMA RecallTakes == ASSUME MemInv, NEW p \in Callers, MemRecall(p) PROVE MemTakes(p)
<1>1. memBorn' = memBorn
      BY DEF MemRecall
<1>2. PICK as \in Users, h \in SUBSET MemIds : MemPut(p, [MemBegin(p, "load", as) EXCEPT !.hits = h])
      BY DEF MemRecall
<1> DEFINE r == [MemBegin(p, "load", as) EXCEPT !.hits = h]
<1>3. r \in MemRequests /\ MemHeld(r)
      BY LoadHeld
<1>4. r.pc = "load"
      BY DEF MemBegin, MemIdle
<1>5. MemPut(p, r)
      BY <1>2
<1> HIDE DEF r
<1> QED BY <1>1, <1>3, <1>4, <1>5, MemNewTakes

LEMMA LoadTakes == ASSUME MemInv, NEW p \in Callers, MemLoad(p) PROVE MemTakes(p)
<1> DEFINE as   == memReq[p].as
           ids  == {i \in memReq[p].hits : Exists(i) /\ mem[i].owner \in Scope(as, All, FALSE)}
           rows == {[id |-> i, tier |-> mem[i].tier, count |-> mem[i].count] : i \in ids}
           r    == [MemBegin(p, "reinforce", as) EXCEPT !.rows = rows]
<1>1. memBorn' = memBorn /\ (MemEnds(p) \/ MemPut(p, r))
      BY DEF MemLoad
<1>2. as \in Users /\ memReq[p].hits \subseteq MemIds
  <2>1. memReq[p] \in MemRequests /\ MemHeld(memReq[p]) /\ memReq[p].pc = "load"
        BY DEF MemLoad, MemAt, MemInv, MemTypes
  <2> QED BY <2>1 DEF MemHeld, MemRequests
<1>3. rows \in SUBSET Accesses
  <2> SUFFICES ASSUME NEW i \in ids PROVE [id |-> i, tier |-> mem[i].tier, count |-> mem[i].count] \in Accesses
      OBVIOUS
  <2>1. i \in MemIds /\ mem[i] \in MemRow
        BY <1>2, IdsOfRows
  <2> QED BY <2>1 DEF MemRow, Accesses
<1> HIDE DEF as, rows
<1>4. r \in MemRequests /\ MemHeld(r)
      BY <1>2, <1>3, ReinforceHeld
<1>5. r.pc = "reinforce"
      BY DEF MemBegin, MemIdle
<1> HIDE DEF r
<1> QED BY <1>1, <1>4, <1>5, MemNewTakes, MemIdleTakes

LEMMA ReinforceTakes == ASSUME MemInv, NEW p \in Callers, MemReinforce(p) PROVE MemTakes(p)
<1>1. PICK m \in memReq[p].rows :
           MemAt(p, "reinforce") /\ (MemEnds(p) \/ MemPut(p, [memReq[p] EXCEPT !.rows = memReq[p].rows \ {m}])) /\ memBorn' = memBorn
      BY DEF MemReinforce
<1> DEFINE r == [memReq[p] EXCEPT !.rows = memReq[p].rows \ {m}]
<1>2. memReq[p] \in MemRequests /\ MemHeld(memReq[p]) /\ memReq[p].pc = "reinforce"
      BY <1>1 DEF MemAt, MemInv, MemTypes
<1>3. /\ r \in MemRequests /\ r.pc = "reinforce" /\ r.as = memReq[p].as /\ r.rows \subseteq memReq[p].rows
      /\ r.done = memReq[p].done
      BY <1>2 DEF MemRequests
<1>4. MemHeld(r)
      BY <1>2, <1>3 DEF MemHeld
<1>5. MemEnds(p) \/ MemPut(p, r)
      BY <1>1
<1> HIDE DEF r
<1> QED BY <1>1, <1>3, <1>4, <1>5, MemNewTakes, MemIdleTakes

LEMMA SyncListTakes == ASSUME MemInv, NEW p \in Callers, MemSyncList(p) PROVE MemTakes(p)
<1> DEFINE rows == {[id |-> i, content |-> mem[i].content] : i \in SyncRows}
           r    == [MemBegin(p, "sync", Cli) EXCEPT !.rows = rows]
<1>1. memBorn' = memBorn /\ MemPut(p, r) /\ \A o \in Callers : memReq[o].as # Cli
      BY DEF MemSyncList
<1>2. \A i \in SyncRows : i \in MemIds /\ i \in 1..memBorn /\ mem[i] \in MemRow
      BY IdsOfRows DEF SyncRows
<1>3. /\ rows \in SUBSET Copies /\ \A m, n \in rows : m.id = n.id => m = n
      /\ \A m \in rows : m.id <= memBorn
      BY <1>2 DEF Copies, MemRow
<1> HIDE DEF rows
<1>4. r \in MemRequests /\ MemHeld(r)
      BY <1>3, SyncHeld
<1>5. r.done = {}
      BY DEF MemBegin, MemIdle
<1> HIDE DEF r
<1>6. \A o \in Callers : ~MemAt(o, "sync")
      BY <1>1 DEF MemInv, MemHeld, MemAt
<1> QED BY <1>1, <1>4, <1>5, <1>6, MemSyncTakes

-----------------------------------------------------------------------------
(* Memory.  Steps that leave every row where it is, and every vector.      *)

MemQuiet ==
    /\ memBorn' = memBorn /\ vec' = vec /\ unembedded' = unembedded
    /\ mem' \in [MemIds -> MemRow \cup {NoRow}] /\ \A i \in MemIds : Exists(i)' <=> Exists(i)

LEMMA MemSameQuiet == ASSUME MemInv, UNCHANGED <<mem, memBorn, vec, unembedded>> PROVE MemQuiet
BY DEF MemInv, MemTypes, MemQuiet, Exists

(* A row that gets other columns is still a row.                           *)
LEMMA MemRowQuiet ==
    ASSUME MemInv, UNCHANGED <<memBorn, vec, unembedded>>, NEW i \in MemIds, Exists(i), NEW row \in MemRow,
           mem' = [mem EXCEPT ![i] = row]
    PROVE  MemQuiet
<1>1. mem' \in [MemIds -> MemRow \cup {NoRow}] /\ mem'[i] = row /\ \A j \in MemIds : j # i => mem'[j] = mem[j]
      BY DEF MemInv, MemTypes
<1> QED BY <1>1, MemRowIsThere DEF MemQuiet, Exists

LEMMA WriteQuiet == ASSUME MemInv, NEW p \in Callers, MemWrite(p) PROVE MemQuiet
<1> DEFINE i == memReq[p].id
           c == memReq[p].content
<1>1. UNCHANGED <<memBorn, vec, unembedded>> /\ (UNCHANGED mem \/ (Exists(i) /\ mem' = [mem EXCEPT ![i].content = c]))
      BY DEF MemWrite
<1>2. i \in 1..memBorn /\ c \in Contents
  <2>1. MemHeld(memReq[p]) /\ memReq[p].pc = "write"
        BY DEF MemWrite, MemAt, MemInv
  <2> QED BY <2>1 DEF MemHeld
<1>3. i \in MemIds
      BY <1>2, MemNumbers DEF MemIds, MemInv, MemTypes
<1> HIDE DEF i, c
<1>4. CASE Exists(i) /\ mem' = [mem EXCEPT ![i].content = c]
  <2>1. mem[i] \in MemRow
        BY <1>3, <1>4, IdsOfRows
  <2> DEFINE row == [mem[i] EXCEPT !.content = c]
  <2>2. row \in MemRow
        BY <1>2, <2>1 DEF MemRow
  <2>3. mem' = [mem EXCEPT ![i] = row]
        BY <1>4
  <2> HIDE DEF row
  <2> QED BY <1>1, <1>3, <1>4, <2>2, <2>3, MemRowQuiet
<1> QED BY <1>1, <1>4, MemSameQuiet

LEMMA UpdateQuiet == ASSUME MemInv, MemUpdate PROVE MemQuiet
<1>1. UNCHANGED <<memBorn, vec, unembedded>>
      BY DEF MemUpdate
<1>2. PICK i \in MemIds :
           /\ Exists(i)
           /\ \/ \E c \in Contents : mem' = [mem EXCEPT ![i].content = c]
              \/ \E t \in Tiers : mem' = [mem EXCEPT ![i].tier = t]
              \/ mem' = [mem EXCEPT ![i].count = 0]
      BY DEF MemUpdate
<1>3. mem[i] \in MemRow
      BY <1>2, IdsOfRows
<1>4. ASSUME NEW c \in Contents, mem' = [mem EXCEPT ![i].content = c] PROVE MemQuiet
  <2> DEFINE row == [mem[i] EXCEPT !.content = c]
  <2>1. row \in MemRow /\ mem' = [mem EXCEPT ![i] = row]
        BY <1>3, <1>4 DEF MemRow
  <2> HIDE DEF row
  <2> QED BY <1>1, <1>2, <2>1, MemRowQuiet
<1>5. ASSUME NEW t \in Tiers, mem' = [mem EXCEPT ![i].tier = t] PROVE MemQuiet
  <2> DEFINE row == [mem[i] EXCEPT !.tier = t]
  <2>1. row \in MemRow /\ mem' = [mem EXCEPT ![i] = row]
        BY <1>3, <1>5 DEF MemRow
  <2> HIDE DEF row
  <2> QED BY <1>1, <1>2, <2>1, MemRowQuiet
<1>6. CASE mem' = [mem EXCEPT ![i].count = 0]
  <2> DEFINE row == [mem[i] EXCEPT !.count = 0]
  <2>1. row \in MemRow /\ mem' = [mem EXCEPT ![i] = row]
        BY <1>3, <1>6 DEF MemRow
  <2> HIDE DEF row
  <2> QED BY <1>1, <1>2, <2>1, MemRowQuiet
<1> QED BY <1>2, <1>4, <1>5, <1>6

LEMMA ReinforceQuiet == ASSUME MemInv, NEW p \in Callers, MemReinforce(p) PROVE MemQuiet
<1>1. PICK m \in memReq[p].rows :
           /\ MemAt(p, "reinforce") /\ UNCHANGED <<memBorn, vec, unembedded>>
           /\ \/ mem' = IF ~Exists(m.id) THEN mem
                        ELSE [mem EXCEPT ![m.id].count = m.count + 1,
                                         ![m.id].tier = LET t == PromoteTier(m.tier, m.count + 1)
                                                        IN  IF t # m.tier THEN t ELSE @]
              \/ UNCHANGED mem
      BY DEF MemReinforce
<1>2. m \in Accesses
  <2>1. MemHeld(memReq[p]) /\ memReq[p].pc = "reinforce"
        BY <1>1 DEF MemAt, MemInv
  <2> QED BY <2>1 DEF MemHeld
<1>3. m.id \in MemIds /\ m.count + 1 \in Nat /\ PromoteTier(m.tier, m.count + 1) \in Tiers
  <2>1. m.id \in MemIds /\ m.tier \in Tiers /\ m.count \in Nat
        BY <1>2 DEF Accesses
  <2> QED BY <2>1, PromoteTierType
<1>4. CASE Exists(m.id) /\ mem' = [mem EXCEPT ![m.id].count = m.count + 1,
                                       ![m.id].tier = LET t == PromoteTier(m.tier, m.count + 1)
                                                      IN  IF t # m.tier THEN t ELSE @]
  <2>1. mem[m.id] \in MemRow
        BY <1>3, <1>4, IdsOfRows
  <2> DEFINE tier == IF PromoteTier(m.tier, m.count + 1) # m.tier THEN PromoteTier(m.tier, m.count + 1) ELSE mem[m.id].tier
             more == [mem[m.id] EXCEPT !.count = m.count + 1]
             row  == [more EXCEPT !.tier = tier]
  <2>2. mem' = [mem EXCEPT ![m.id] = row]
        BY <1>3, <1>4, <2>1 DEF MemInv, MemTypes, MemRow
  <2>3. tier \in Tiers
        BY <1>3, <2>1 DEF MemRow
  <2>4. more \in MemRow
        BY <1>3, <2>1 DEF MemRow
  <2> HIDE DEF tier, more
  <2>5. row \in MemRow
        BY <2>3, <2>4 DEF MemRow
  <2> HIDE DEF row
  <2> QED BY <1>1, <1>3, <1>4, <2>2, <2>5, MemRowQuiet
<1> QED BY <1>1, <1>4, MemSameQuiet

-----------------------------------------------------------------------------
(* Memory.  What each kind of step does to the vectors.                    *)

MemDerived == OneSync /\ UnembeddedMemoryHasCause /\ SyncedIsFound

LEMMA MemRequestsMove ==
    ASSUME MemInv, NEW p \in Callers, NEW r, MemGoes(p, r)
    PROVE  /\ memReq' \in [Callers -> MemRequests] /\ memReq'[p] = r
           /\ \A q \in Callers : q # p => memReq'[q] = memReq[q]
BY DEF MemGoes, MemPut, MemInv, MemTypes

LEMMA OneSyncStays ==
    ASSUME MemInv, NEW p \in Callers, NEW r, MemGoes(p, r), r.pc # "sync" \/ MemAt(p, "sync")
    PROVE  OneSync'
<1>1. memReq'[p] = r /\ \A q \in Callers : q # p => memReq'[q] = memReq[q]
      BY MemRequestsMove
<1>2. \A q \in Callers : memReq'[q].pc = "sync" => MemAt(q, "sync")
      BY <1>1 DEF MemAt
<1> QED BY <1>2 DEF OneSync, MemAt, MemInv

LEMMA QuietDerives ==
    ASSUME MemInv, NEW p \in Callers, MemQuiet, MemTakes(p), ~MemAt(p, "embed"), ~MemAt(p, "vector")
    PROVE  MemDerived'
<1>1. PICK r : MemGoes(p, r) /\ r.done = {} /\ (r.pc = "sync" => \A o \in Callers : ~MemAt(o, "sync"))
      BY DEF MemTakes
<1>2. memReq'[p] = r /\ \A q \in Callers : q # p => memReq'[q] = memReq[q]
      BY <1>1, MemRequestsMove
<1>3. OneSync'
      BY <1>1, <1>2 DEF OneSync, MemAt, MemInv
<1>4. UnembeddedMemoryHasCause'
      BY <1>2 DEF UnembeddedMemoryHasCause, MemAt, MemInv, MemQuiet
<1>5. SyncedIsFound'
  <2> SUFFICES ASSUME NEW q \in Callers, NEW m \in memReq'[q].done, Exists(m.id)' PROVE m.content \in vec'[m.id]
      BY DEF SyncedIsFound
  <2>1. q # p /\ m \in memReq[q].done
        BY <1>1, <1>2
  <2>2. m \in Copies
        BY <2>1 DEF MemInv, MemTypes, MemRequests
  <2>3. m.id \in MemIds
        BY <2>2 DEF Copies
  <2>4. Exists(m.id)
        BY <2>3 DEF MemQuiet
  <2> QED BY <2>1, <2>4 DEF MemQuiet, MemInv, SyncedIsFound
<1> QED BY <1>3, <1>4, <1>5 DEF MemDerived

LEMMA StillDerives == ASSUME MemInv, MemQuiet, UNCHANGED memReq PROVE MemDerived'
<1>1. OneSync' /\ UnembeddedMemoryHasCause'
      BY DEF OneSync, UnembeddedMemoryHasCause, MemAt, MemInv, MemQuiet
<1>2. SyncedIsFound'
  <2> SUFFICES ASSUME NEW q \in Callers, NEW m \in memReq[q].done, Exists(m.id)' PROVE m.content \in vec'[m.id]
      BY DEF SyncedIsFound
  <2>1. m \in Copies
        BY DEF MemInv, MemTypes, MemRequests
  <2>2. m.id \in MemIds
        BY <2>1 DEF Copies
  <2>3. Exists(m.id)
        BY <2>2 DEF MemQuiet
  <2> QED BY <2>3 DEF MemQuiet, MemInv, SyncedIsFound
<1> QED BY <1>1, <1>2 DEF MemDerived

MemRowsKept ==
    /\ memBorn' \in memBorn..MaxMemories /\ mem' \in [MemIds -> MemRow \cup {NoRow}]
    /\ \A i \in MemIds : Exists(i)' => i <= memBorn'
    /\ vec' \in [MemIds -> SUBSET Contents] /\ unembedded' \subseteq MemIds

MemGood(p) == MemRowsKept /\ (\E r : MemGoes(p, r)) /\ MemDerived'

LEMMA QuietKept == ASSUME MemInv, MemQuiet PROVE MemRowsKept
BY MemNumbers, MemSameBorn DEF MemQuiet, MemRowsKept, MemInv, MemTypes

LEMMA QuietGood ==
    ASSUME MemInv, NEW p \in Callers, MemQuiet, MemTakes(p), ~MemAt(p, "embed"), ~MemAt(p, "vector")
    PROVE  MemGood(p)
BY QuietKept, QuietDerives DEF MemGood, MemTakes

(* What an embedding command has been through are rows that were born.     *)
LEMMA DoneAreBorn ==
    ASSUME MemInv, NEW q \in Callers, NEW m \in memReq[q].done
    PROVE  MemAt(q, "sync") /\ m.id \in MemIds /\ m.id <= memBorn
<1>1. memReq[q] \in MemRequests /\ MemHeld(memReq[q]) /\ memReq[q].pc = "sync"
      BY DEF MemInv, MemTypes, MemHeld
<1>2. m \in Copies
      BY <1>1 DEF MemRequests
<1> QED BY <1>1, <1>2 DEF MemAt, MemHeld, Copies

LEMMA CreateGood == ASSUME MemInv, NEW p \in Callers, MemCreate(p) PROVE MemGood(p)
<1> DEFINE old == memReq[p]
           new == memBorn + 1
           row == [owner |-> old.as, key |-> old.key, content |-> old.content, tier |-> old.tier, count |-> 0]
<1>1. old \in MemRequests /\ MemHeld(old) /\ old.pc = "create" /\ vec' = vec /\ unembedded' = unembedded
      BY DEF MemCreate, MemAt, MemInv, MemTypes
<1>2. CASE MemEnds(p) /\ UNCHANGED <<mem, memBorn>>
  <2>1. MemQuiet /\ MemTakes(p)
        BY <1>1, <1>2, MemSameQuiet, MemIdleTakes
  <2> QED BY <1>1, <2>1, QuietGood DEF MemAt
<1>3. CASE /\ memBorn < MaxMemories /\ memBorn' = new /\ mem' = [mem EXCEPT ![new] = row]
           /\ MemPut(p, [old EXCEPT !.pc = "embed", !.id = new])
  <2>1. memBorn \in Nat /\ new \in Nat /\ new \in MemIds /\ new \in 1..memBorn' /\ memBorn' \in memBorn..MaxMemories
        BY <1>3, MemNumbers DEF MemInv, MemTypes, MemIds
  <2>2. old.as \in Users /\ old.key \in Keys /\ old.content \in Contents /\ old.tier \in Tiers /\ old.done = {}
        BY <1>1 DEF MemHeld
  <2>3. row \in MemRow
        BY <2>2 DEF MemRow
  <2>4. /\ mem' \in [MemIds -> MemRow \cup {NoRow}]
        /\ mem'[new] = row /\ \A i \in MemIds : i # new => mem'[i] = mem[i]
        BY <1>3, <2>1, <2>3 DEF MemInv, MemTypes
  <2>5. MemRowsKept
    <3>1. \A i \in MemIds : Exists(i)' => i <= memBorn'
          BY <1>3, <2>1, <2>4, MemNumbers DEF MemInv, MemTypes, Exists
    <3> QED BY <1>1, <2>1, <2>4, <3>1 DEF MemRowsKept, MemInv, MemTypes
  <2>6. PICK r : r = [old EXCEPT !.pc = "embed", !.id = new]
        OBVIOUS
  <2>7. r \in MemRequests /\ r.pc = "embed" /\ r.id = new /\ r.content = old.content /\ r.done = {}
    <3> DEFINE mid == [old EXCEPT !.pc = "embed"]
    <3>1. mid \in MemRequests /\ mid.pc = "embed" /\ mid.content = old.content /\ mid.done = {}
          BY <1>1, <2>2 DEF MemRequests
    <3>2. r = [mid EXCEPT !.id = new]
          BY <2>6
    <3> HIDE DEF mid, new, old
    <3> QED BY <2>1, <3>1, <3>2 DEF MemRequests
  <2>8. MemGoes(p, r)
        BY <1>3, <2>1, <2>2, <2>6, <2>7 DEF MemGoes, MemHeld
  <2>9. memReq'[p] = r /\ \A q \in Callers : q # p => memReq'[q] = memReq[q]
        BY <2>8, MemRequestsMove
  <2>10. OneSync'
        BY <2>7, <2>9 DEF OneSync, MemAt, MemInv
  <2>11. UnembeddedMemoryHasCause'
    <3> SUFFICES ASSUME NEW i \in MemIds, Exists(i)', vec'[i] = {}
                 PROVE  i \in unembedded' \/ \E q \in Callers : memReq'[q].pc \in {"embed", "vector"} /\ memReq'[q].id = i
        BY DEF UnembeddedMemoryHasCause
    <3>1. CASE i = new
          BY <2>7, <2>9, <3>1
    <3>2. CASE i # new
      <4>1. Exists(i) /\ vec[i] = {}
            BY <1>1, <2>4, <3>2 DEF Exists
      <4>2. i \in unembedded \/ \E q \in Callers : memReq[q].pc \in {"embed", "vector"} /\ memReq[q].id = i
            BY <4>1 DEF MemInv, UnembeddedMemoryHasCause
      <4>3. ~(old.pc \in {"embed", "vector"})
            BY <1>1
      <4> QED BY <1>1, <2>9, <4>2, <4>3
    <3> QED BY <3>1, <3>2
  <2>12. SyncedIsFound'
    <3> SUFFICES ASSUME NEW q \in Callers, NEW m \in memReq'[q].done, Exists(m.id)' PROVE m.content \in vec'[m.id]
        BY DEF SyncedIsFound
    <3>1. q # p /\ m \in memReq[q].done
          BY <2>7, <2>9
    <3>2. m.id \in MemIds /\ m.id <= memBorn
          BY <3>1, DoneAreBorn
    <3>3. m.id # new
          BY <2>1, <3>2, MemNumbers
    <3>4. Exists(m.id)
          BY <2>4, <3>2, <3>3 DEF Exists
    <3> QED BY <1>1, <3>1, <3>4 DEF MemInv, SyncedIsFound
  <2> QED BY <2>5, <2>8, <2>10, <2>11, <2>12 DEF MemGood, MemDerived
<1> QED BY <1>2, <1>3 DEF MemCreate

(* The vector of a new row is made and stored, or the caller gives up.     *)
LEMMA GivingUpGood ==
    ASSUME MemInv, NEW p \in Callers, memReq[p].pc \in {"embed", "vector"}, MemGivesUp(p), UNCHANGED <<mem, memBorn, vec>>
    PROVE  MemGood(p)
<1> DEFINE i == memReq[p].id
<1>1. i \in MemIds
  <2>1. i \in 1..memBorn
        BY DEF MemInv, MemHeld
  <2> QED BY <2>1, MemNumbers DEF MemIds, MemInv, MemTypes
<1>2. MemGoes(p, MemIdle) /\ memBorn' \in memBorn..MaxMemories
      BY MemEnding, MemSameBorn DEF MemGivesUp
<1>3. MemIdle.pc = "idle" /\ MemIdle.done = {}
      BY DEF MemIdle
<1>4. memReq'[p] = MemIdle /\ \A q \in Callers : q # p => memReq'[q] = memReq[q]
      BY <1>2, MemRequestsMove
<1>5. unembedded' = unembedded \cup {i}
      BY DEF MemGivesUp
<1>6. MemRowsKept
      BY <1>1, <1>2, <1>5 DEF MemRowsKept, MemInv, MemTypes, Exists
<1>7. OneSync'
      BY <1>3, <1>4 DEF OneSync, MemAt, MemInv
<1>8. UnembeddedMemoryHasCause'
      BY <1>4, <1>5 DEF UnembeddedMemoryHasCause, MemInv, Exists
<1>9. SyncedIsFound'
      BY <1>3, <1>4 DEF SyncedIsFound, MemInv, Exists
<1> QED BY <1>2, <1>6, <1>7, <1>8, <1>9 DEF MemGood, MemDerived

LEMMA EmbedGood == ASSUME MemInv, NEW p \in Callers, MemEmbed(p) PROVE MemGood(p)
<1> DEFINE old == memReq[p]
<1>1. old \in MemRequests /\ MemHeld(old) /\ old.pc = "embed" /\ UNCHANGED <<mem, memBorn, vec>>
      BY DEF MemEmbed, MemAt, MemInv, MemTypes
<1>2. CASE MemPut(p, [old EXCEPT !.pc = "vector"]) /\ UNCHANGED unembedded
  <2> PICK r : r = [old EXCEPT !.pc = "vector"]
        OBVIOUS
  <2>1. r \in MemRequests /\ r.pc = "vector" /\ r.id = old.id /\ r.content = old.content /\ r.done = old.done
        BY <1>1 DEF MemRequests
  <2>2. MemHeld(r)
        BY <1>1, <2>1 DEF MemHeld
  <2>p. MemPut(p, r)
        BY <1>2
  <2>h. MemHeld(r)'
        BY <1>1, <2>1, <2>2, MemHeldStays, MemSameBorn
  <2>3. MemGoes(p, r)
        BY <2>1, <2>p, <2>h DEF MemGoes
  <2>4. memReq'[p] = r /\ \A q \in Callers : q # p => memReq'[q] = memReq[q]
        BY <2>3, MemRequestsMove
  <2>5. MemRowsKept
        BY <1>1, <1>2, MemSameQuiet, QuietKept
  <2>6. OneSync'
        BY <2>1, <2>3, OneSyncStays
  <2>7. UnembeddedMemoryHasCause'
    <3> SUFFICES ASSUME NEW i \in MemIds, Exists(i), vec[i] = {}
                 PROVE  i \in unembedded \/ \E q \in Callers : memReq'[q].pc \in {"embed", "vector"} /\ memReq'[q].id = i
        BY <1>1, <1>2 DEF UnembeddedMemoryHasCause, Exists
    <3>1. i \in unembedded \/ \E q \in Callers : memReq[q].pc \in {"embed", "vector"} /\ memReq[q].id = i
          BY DEF MemInv, UnembeddedMemoryHasCause
    <3> QED BY <2>1, <2>4, <3>1
  <2>8. SyncedIsFound'
    <3> SUFFICES ASSUME NEW q \in Callers, NEW m \in memReq'[q].done, Exists(m.id)' PROVE m.content \in vec'[m.id]
        BY DEF SyncedIsFound
    <3>1. m \in memReq[q].done
          BY <2>1, <2>4
    <3>2. Exists(m.id)
          BY <1>1 DEF Exists
    <3> QED BY <1>1, <3>1, <3>2 DEF MemInv, SyncedIsFound
  <2> QED BY <2>3, <2>5, <2>6, <2>7, <2>8 DEF MemGood, MemDerived
<1>3. CASE MemGivesUp(p)
      BY <1>1, <1>3, GivingUpGood
<1> QED BY <1>2, <1>3 DEF MemEmbed

LEMMA AddVectorGood == ASSUME MemInv, NEW p \in Callers, MemAddVector(p) PROVE MemGood(p)
<1> DEFINE i == memReq[p].id
           c == memReq[p].content
<1>1. memReq[p].pc = "vector" /\ MemHeld(memReq[p]) /\ UNCHANGED <<mem, memBorn>>
      BY DEF MemAddVector, MemAt, MemInv
<1>2. CASE MemGivesUp(p) /\ UNCHANGED vec
      BY <1>1, <1>2, GivingUpGood
<1>3. CASE vec' = [vec EXCEPT ![i] = @ \cup {c}] /\ MemEnds(p) /\ UNCHANGED unembedded
  <2>1. i \in MemIds /\ c \in Contents
    <3>1. i \in 1..memBorn /\ c \in Contents
          BY <1>1 DEF MemHeld
    <3> QED BY <3>1, MemNumbers DEF MemIds, MemInv, MemTypes
  <2> HIDE DEF i, c
  <2>2. /\ vec' \in [MemIds -> SUBSET Contents] /\ vec'[i] = vec[i] \cup {c}
        /\ \A j \in MemIds : j # i => vec'[j] = vec[j]
        BY <1>3, <2>1 DEF MemInv, MemTypes
  <2>3. MemGoes(p, MemIdle) /\ memBorn' \in memBorn..MaxMemories
        BY <1>1, <1>3, MemEnding, MemSameBorn
  <2>4. MemIdle.pc = "idle" /\ MemIdle.done = {}
        BY DEF MemIdle
  <2>5. memReq'[p] = MemIdle /\ \A q \in Callers : q # p => memReq'[q] = memReq[q]
        BY <2>3, MemRequestsMove
  <2>6. MemRowsKept
        BY <1>1, <1>3, <2>2, <2>3 DEF MemRowsKept, MemInv, MemTypes, Exists
  <2>7. OneSync'
        BY <2>3, <2>4, OneSyncStays
  <2>8. UnembeddedMemoryHasCause'
    <3> SUFFICES ASSUME NEW j \in MemIds, Exists(j), vec'[j] = {}
                 PROVE  j \in unembedded \/ \E q \in Callers : memReq'[q].pc \in {"embed", "vector"} /\ memReq'[q].id = j
        BY <1>1, <1>3 DEF UnembeddedMemoryHasCause, Exists
    <3>1. j # i /\ vec[j] = {}
          BY <2>2
    <3>2. j \in unembedded \/ \E q \in Callers : memReq[q].pc \in {"embed", "vector"} /\ memReq[q].id = j
          BY <3>1 DEF MemInv, UnembeddedMemoryHasCause
    <3> QED BY <2>5, <3>1, <3>2 DEF i
  <2>9. SyncedIsFound'
    <3> SUFFICES ASSUME NEW q \in Callers, NEW m \in memReq'[q].done, Exists(m.id)' PROVE m.content \in vec'[m.id]
        BY DEF SyncedIsFound
    <3>1. m \in memReq[q].done
          BY <2>4, <2>5
    <3>2. Exists(m.id) /\ m.id \in MemIds
          BY <1>1, <3>1, DoneAreBorn DEF Exists
    <3>3. m.content \in vec[m.id]
          BY <3>1, <3>2 DEF MemInv, SyncedIsFound
    <3> QED BY <2>2, <3>2, <3>3
  <2> QED BY <2>3, <2>6, <2>7, <2>8, <2>9 DEF MemGood, MemDerived
<1> QED BY <1>2, <1>3 DEF MemAddVector

(* A row goes with its vectors.                                            *)
LEMMA DeleteGood == ASSUME MemInv, NEW p \in Callers, MemDelete(p) PROVE MemGood(p)
<1> DEFINE i == memReq[p].id
<1>1. memReq[p].pc = "delete" /\ MemHeld(memReq[p]) /\ memBorn' = memBorn /\ unembedded' = unembedded /\ MemEnds(p)
      BY DEF MemDelete, MemAt, MemInv
<1>2. CASE UNCHANGED <<mem, vec>>
  <2>1. MemQuiet /\ MemTakes(p)
        BY <1>1, <1>2, MemSameQuiet, MemIdleTakes
  <2> QED BY <1>1, <2>1, QuietGood DEF MemAt
<1>3. CASE mem' = [mem EXCEPT ![i] = NoRow] /\ vec' = [vec EXCEPT ![i] = {}]
  <2>1. i \in MemIds
    <3>1. i \in 1..memBorn
          BY <1>1 DEF MemHeld
    <3> QED BY <3>1, MemNumbers DEF MemIds, MemInv, MemTypes
  <2> HIDE DEF i
  <2>2. /\ vec' \in [MemIds -> SUBSET Contents] /\ \A j \in MemIds : j # i => vec'[j] = vec[j]
        /\ mem' \in [MemIds -> MemRow \cup {NoRow}] /\ \A j \in MemIds : j # i => mem'[j] = mem[j]
        /\ mem'[i] = NoRow
        BY <1>3, <2>1 DEF MemInv, MemTypes
  <2>3. MemGoes(p, MemIdle) /\ memBorn' \in memBorn..MaxMemories
        BY <1>1, MemEnding, MemSameBorn
  <2>4. MemIdle.pc = "idle" /\ MemIdle.done = {}
        BY DEF MemIdle
  <2>5. memReq'[p] = MemIdle /\ \A q \in Callers : q # p => memReq'[q] = memReq[q]
        BY <2>3, MemRequestsMove
  <2>6. \A j \in MemIds : Exists(j)' => j # i /\ Exists(j) /\ vec'[j] = vec[j]
        BY <2>2 DEF Exists
  <2>7. MemRowsKept
        BY <1>1, <2>2, <2>3, <2>6 DEF MemRowsKept, MemInv, MemTypes
  <2>8. OneSync'
        BY <2>3, <2>4, OneSyncStays
  <2>9. UnembeddedMemoryHasCause'
    <3> SUFFICES ASSUME NEW j \in MemIds, Exists(j), vec[j] = {}
                 PROVE  j \in unembedded \/ \E q \in Callers : memReq'[q].pc \in {"embed", "vector"} /\ memReq'[q].id = j
        BY <1>1, <2>6 DEF UnembeddedMemoryHasCause
    <3>1. j \in unembedded \/ \E q \in Callers : memReq[q].pc \in {"embed", "vector"} /\ memReq[q].id = j
          BY DEF MemInv, UnembeddedMemoryHasCause
    <3> QED BY <1>1, <2>5, <3>1
  <2>10. SyncedIsFound'
    <3> SUFFICES ASSUME NEW q \in Callers, NEW m \in memReq'[q].done, Exists(m.id)' PROVE m.content \in vec'[m.id]
        BY DEF SyncedIsFound
    <3>1. m \in memReq[q].done
          BY <2>4, <2>5
    <3>2. m.id \in MemIds
          BY <3>1, DoneAreBorn
    <3>3. Exists(m.id) /\ vec'[m.id] = vec[m.id]
          BY <2>6, <3>2
    <3> QED BY <3>1, <3>3 DEF MemInv, SyncedIsFound
  <2> QED BY <2>3, <2>7, <2>8, <2>9, <2>10 DEF MemGood, MemDerived
<1> QED BY <1>2, <1>3 DEF MemDelete

(* The embedding command goes through one of its rows: the vectors of the  *)
(* others stay, and this row's have the content the command read.          *)
LEMMA SyncOneGood == ASSUME MemInv, NEW p \in Callers, MemSyncOne(p) PROVE MemGood(p)
<1> DEFINE old == memReq[p]
<1>1. PICK m \in old.rows :
           /\ MemAt(p, "sync") /\ UNCHANGED <<mem, memBorn, unembedded>>
           /\ \/ /\ Refresh(m.id, m.content) \/ vec' = [vec EXCEPT ![m.id] = @ \cup {m.content}]
                 /\ MemPut(p, [old EXCEPT !.rows = @ \ {m}, !.done = @ \cup {m}])
              \/ MemEnds(p) /\ UNCHANGED vec
      BY DEF MemSyncOne
<1>2. old \in MemRequests /\ MemHeld(old) /\ old.pc = "sync" /\ MemAt(p, "sync")
      BY <1>1 DEF MemAt, MemInv, MemTypes
<1>3. CASE MemEnds(p) /\ UNCHANGED vec
  <2>1. MemQuiet /\ MemTakes(p)
        BY <1>1, <1>3, MemSameQuiet, MemIdleTakes
  <2> QED BY <1>2, <2>1, QuietGood DEF MemAt
<1>4. CASE /\ Refresh(m.id, m.content) \/ vec' = [vec EXCEPT ![m.id] = @ \cup {m.content}]
           /\ MemPut(p, [old EXCEPT !.rows = @ \ {m}, !.done = @ \cup {m}])
  <2> DEFINE i == m.id
             c == m.content
  <2>1. m \in Copies /\ i \in MemIds /\ c \in Contents
    <3>1. m \in Copies
          BY <1>2 DEF MemHeld, Apart
    <3> QED BY <3>1 DEF Copies
  <2>2. /\ vec' \in [MemIds -> SUBSET Contents] /\ c \in vec'[i]
        /\ \A j \in MemIds : j # i => vec'[j] = vec[j]
    <3>1. vec[i] \in SUBSET Contents /\ vec \in [MemIds -> SUBSET Contents]
          BY <2>1 DEF MemInv, MemTypes
    <3> HIDE DEF i, c
    <3>2. CASE vec' = [vec EXCEPT ![i] = @ \cup {c}]
          BY <2>1, <3>1, <3>2
    <3>3. CASE vec' = [vec EXCEPT ![i] = {c}]
          BY <2>1, <3>1, <3>3
    <3>4. ASSUME NEW v \in vec[i], vec' = [vec EXCEPT ![i] = (@ \ {v}) \cup {c}]
          PROVE  vec' \in [MemIds -> SUBSET Contents] /\ c \in vec'[i] /\ \A j \in MemIds : j # i => vec'[j] = vec[j]
          BY <2>1, <3>1, <3>4
    <3>5. \/ vec' = [vec EXCEPT ![i] = @ \cup {c}] \/ vec' = [vec EXCEPT ![i] = {c}]
          \/ \E v \in vec[i] : vec' = [vec EXCEPT ![i] = (@ \ {v}) \cup {c}]
          BY <1>4 DEF Refresh, i, c
    <3> QED BY <3>2, <3>3, <3>4, <3>5
  <2> PICK r : r = [old EXCEPT !.rows = @ \ {m}, !.done = @ \cup {m}]
        OBVIOUS
  <2>3. r \in MemRequests /\ r.pc = "sync" /\ r.as = old.as /\ r.rows = old.rows \ {m} /\ r.done = old.done \cup {m}
    <3> DEFINE mid == [old EXCEPT !.rows = old.rows \ {m}]
    <3>1. mid \in MemRequests /\ mid.pc = "sync" /\ mid.as = old.as /\ mid.rows = old.rows \ {m} /\ mid.done = old.done
          BY <1>2 DEF MemRequests
    <3>2. r = [mid EXCEPT !.done = old.done \cup {m}]
          BY <1>2, <3>1 DEF MemRequests
    <3>3. old.done \cup {m} \in SUBSET Copies
          BY <1>2, <2>1 DEF MemRequests
    <3> HIDE DEF mid, old
    <3> QED BY <3>1, <3>2, <3>3 DEF MemRequests
  <2>4. MemHeld(r)
    <3>1. Apart(old) /\ old.as = Cli /\ \A n \in old.rows \cup old.done : n.id <= memBorn
          BY <1>2 DEF MemHeld
    <3>2. Apart(r) /\ \A n \in r.rows \cup r.done : n.id <= memBorn
          BY <2>3, <3>1 DEF Apart
    <3> QED BY <2>3, <3>1, <3>2 DEF MemHeld
  <2>5. MemPut(p, r)
        BY <1>4
  <2>6. MemHeld(r)'
        BY <1>1, <2>3, <2>4, MemHeldStays, MemSameBorn
  <2>7. MemGoes(p, r)
        BY <2>3, <2>5, <2>6 DEF MemGoes
  <2>8. memReq'[p] = r /\ \A q \in Callers : q # p => memReq'[q] = memReq[q]
        BY <2>7, MemRequestsMove
  <2>9. OneSync'
        BY <1>2, <2>7, OneSyncStays
  <2>10. MemRowsKept
        BY <1>1, <2>2, MemSameBorn DEF MemRowsKept, MemInv, MemTypes, Exists
  <2>11. UnembeddedMemoryHasCause'
    <3> SUFFICES ASSUME NEW j \in MemIds, Exists(j), vec'[j] = {}
                 PROVE  j \in unembedded \/ \E q \in Callers : memReq'[q].pc \in {"embed", "vector"} /\ memReq'[q].id = j
        BY <1>1 DEF UnembeddedMemoryHasCause, Exists
    <3>1. vec[j] = {}
          BY <2>2
    <3>2. j \in unembedded \/ \E q \in Callers : memReq[q].pc \in {"embed", "vector"} /\ memReq[q].id = j
          BY <3>1 DEF MemInv, UnembeddedMemoryHasCause
    <3>3. ~(old.pc \in {"embed", "vector"})
          BY <1>2
    <3> QED BY <2>8, <3>2, <3>3
  <2>12. SyncedIsFound'
    <3> SUFFICES ASSUME NEW q \in Callers, NEW n \in memReq'[q].done, Exists(n.id)' PROVE n.content \in vec'[n.id]
        BY DEF SyncedIsFound
    <3>1. CASE n = m
          BY <2>2, <3>1
    <3>2. CASE n # m
      <4>1. n \in memReq[q].done
            BY <2>3, <2>8, <3>2
      <4>2. q = p
            BY <1>1, <4>1, DoneAreBorn DEF MemInv, OneSync
      <4>3. n.id # i /\ n.id \in MemIds /\ Exists(n.id)
            BY <1>1, <1>2, <4>1, <4>2, DoneAreBorn DEF MemHeld, Apart, Exists
      <4> QED BY <2>2, <4>1, <4>3 DEF MemInv, SyncedIsFound
    <3> QED BY <3>1, <3>2
  <2> QED BY <2>7, <2>9, <2>10, <2>11, <2>12 DEF MemGood, MemDerived
<1> QED BY <1>1, <1>3, <1>4

-----------------------------------------------------------------------------
(* Memory.  What a step shows, and who deletes.                            *)

MemShowsOwn == memShown' \subseteq Users \X Users /\ OwnMemoriesSeen'

LEMMA ScopeIsOwn == ASSUME NEW as \in Users, NEW wanted, NEW own, Restricted(as) PROVE Scope(as, wanted, own) = {as}
BY DEF Scope

LEMMA ShowOwn ==
    ASSUME MemInv, NEW as \in Users, NEW ids \in SUBSET MemIds, MemShow(as, ids),
           \A i \in ids : Exists(i) /\ (Restricted(as) => mem[i].owner = as)
    PROVE  MemShowsOwn
<1>1. ASSUME NEW s \in memShown' PROVE s = <<as, as>>
      BY <1>1 DEF MemShow
<1>2. ASSUME NEW s \in memShown' PROVE s \in Users \X Users /\ s[2] = s[1]
  <2>1. s = <<as, as>>
        BY <1>1
  <2> QED BY <2>1
<1> QED BY <1>2 DEF MemShowsOwn, OwnMemoriesSeen

LEMMA MemShows == ASSUME MemInv, MemNext PROVE MemShowsOwn
<1>1. CASE memShown' = {}
      BY <1>1 DEF MemShowsOwn, OwnMemoriesSeen
<1>2. CASE MemList
  <2>1. PICK as \in Users, wanted \in Users \cup {All}, own \in BOOLEAN :
             MemShow(as, {i \in MemIds : Exists(i) /\ mem[i].owner \in Scope(as, wanted, own)})
        BY <1>2 DEF MemList
  <2> DEFINE ids == {i \in MemIds : Exists(i) /\ mem[i].owner \in Scope(as, wanted, own)}
  <2>2. ids \in SUBSET MemIds /\ \A i \in ids : Exists(i) /\ (Restricted(as) => mem[i].owner = as)
        BY ScopeIsOwn
  <2>3. MemShow(as, ids)
        BY <2>1
  <2> HIDE DEF ids
  <2> QED BY <2>2, <2>3, ShowOwn
<1>3. CASE MemGet
  <2>1. PICK as \in Users, i \in MemIds : Exists(i) /\ Allowed(as, mem[i].owner) /\ MemShow(as, {i})
        BY <1>3 DEF MemGet
  <2> DEFINE ids == {i}
  <2>2. ids \in SUBSET MemIds /\ \A j \in ids : Exists(j) /\ (Restricted(as) => mem[j].owner = as)
        BY <2>1 DEF Allowed
  <2>3. MemShow(as, ids)
        BY <2>1
  <2> HIDE DEF ids
  <2> QED BY <2>2, <2>3, ShowOwn
<1>4. ASSUME NEW p \in Callers, MemLoad(p), memShown' # {} PROVE MemShowsOwn
  <2> PICK as : as = memReq[p].as
        OBVIOUS
  <2> DEFINE ids == {i \in memReq[p].hits : Exists(i) /\ mem[i].owner \in Scope(as, All, FALSE)}
  <2>1. MemShow(as, ids)
        BY <1>4 DEF MemLoad
  <2>2. memReq[p] \in MemRequests /\ MemHeld(memReq[p]) /\ memReq[p].pc = "load"
        BY <1>4 DEF MemLoad, MemAt, MemInv, MemTypes
  <2>3. as \in Users /\ memReq[p].hits \in SUBSET MemIds
        BY <2>2 DEF MemHeld, MemRequests
  <2>4. ids \in SUBSET MemIds /\ \A i \in ids : Exists(i) /\ (Restricted(as) => mem[i].owner = as)
        BY <2>3, ScopeIsOwn
  <2> HIDE DEF ids
  <2> QED BY <2>1, <2>3, <2>4, ShowOwn
<1>5. ASSUME NEW p \in Callers, MemStep(p) PROVE MemLoad(p) \/ memShown' = {}
      BY <1>5 DEF MemStep, MemStore, MemWrite, MemPost, MemCreate, MemEmbed, MemAddVector, MemForget, MemDeleteRequest,
                  MemDelete, MemRecall, MemReinforce, MemSyncList, MemSyncOne, MemSyncEnd
<1>6. MemUpdate => memShown' = {}
      BY DEF MemUpdate
<1> QED BY <1>1, <1>2, <1>3, <1>4, <1>5, <1>6 DEF MemNext

LEMMA MemCounted == ASSUME MemInv, MemNext PROVE memFaults' \in 0..MaxMemFaults
<1>1. MemFault \/ memFaults' = memFaults
  <2>1. ASSUME NEW p \in Callers, MemStep(p) PROVE MemFault \/ memFaults' = memFaults
        BY <2>1 DEF MemStep, MemStore, MemWrite, MemPost, MemCreate, MemEmbed, MemAddVector, MemForget, MemDeleteRequest,
                    MemDelete, MemRecall, MemLoad, MemReinforce, MemSyncList, MemSyncOne, MemSyncEnd
  <2> QED BY <2>1 DEF MemNext, MemUpdate, MemList, MemGet
<1> QED BY <1>1, MemNumbers DEF MemFault, MemInv, MemTypes

LEMMA MemStepGood == ASSUME MemInv, NEW p \in Callers, MemStep(p) PROVE MemGood(p)
<1>1. CASE MemCreate(p) \/ MemEmbed(p) \/ MemAddVector(p) \/ MemDelete(p) \/ MemSyncOne(p)
      BY <1>1, CreateGood, EmbedGood, AddVectorGood, DeleteGood, SyncOneGood
<1>2. CASE MemStore(p) \/ MemPost(p) \/ MemForget(p) \/ MemDeleteRequest(p) \/ MemRecall(p) \/ MemLoad(p) \/ MemSyncList(p)
  <2>1. UNCHANGED <<mem, memBorn, vec, unembedded>> /\ ~MemAt(p, "embed") /\ ~MemAt(p, "vector")
        BY <1>2 DEF MemStore, MemPost, MemForget, MemDeleteRequest, MemRecall, MemLoad, MemSyncList, MemAt
  <2>2. MemTakes(p)
        BY <1>2, StoreTakes, ForgetTakes, RecallTakes, LoadTakes, SyncListTakes
  <2> QED BY <2>1, <2>2, MemSameQuiet, QuietGood
<1>3. CASE MemSyncEnd(p)
  <2>1. UNCHANGED <<mem, memBorn, vec, unembedded>> /\ ~MemAt(p, "embed") /\ ~MemAt(p, "vector") /\ MemEnds(p)
        BY <1>3 DEF MemSyncEnd, MemAt
  <2> QED BY <2>1, MemIdleTakes, MemSameQuiet, QuietGood
<1>4. CASE MemWrite(p)
  <2>1. memBorn' = memBorn /\ ~MemAt(p, "embed") /\ ~MemAt(p, "vector") /\ MemEnds(p)
        BY <1>4 DEF MemWrite, MemAt
  <2> QED BY <1>4, <2>1, MemIdleTakes, WriteQuiet, QuietGood
<1>5. CASE MemReinforce(p)
  <2>1. ~MemAt(p, "embed") /\ ~MemAt(p, "vector")
        BY <1>5 DEF MemReinforce, MemAt
  <2> QED BY <1>5, <2>1, ReinforceTakes, ReinforceQuiet, QuietGood
<1> QED BY <1>1, <1>2, <1>3, <1>4, <1>5 DEF MemStep

-----------------------------------------------------------------------------
(* Memory.  The invariant, and what follows from it.                       *)

LEMMA MemBeginning == MemInit => MemInv /\ OwnMemoriesSeen
<1> SUFFICES ASSUME MemInit PROVE MemInv /\ OwnMemoriesSeen
    OBVIOUS
<1>1. mem \in [MemIds -> MemRow \cup {NoRow}] /\ memReq \in [Callers -> MemRequests] /\ vec \in [MemIds -> SUBSET Contents]
      BY MemIdleHeld DEF MemInit
<1>2. \A i \in MemIds : ~Exists(i)
      BY DEF MemInit, Exists
<1>3. MemTypes
      BY <1>1, <1>2, MemNumbers DEF MemInit, MemTypes
<1>4. \A p \in Callers : memReq[p] = MemIdle /\ MemIdle.pc = "idle" /\ MemIdle.done = {}
      BY DEF MemInit, MemIdle
<1>5. OneSync /\ SyncedIsFound
      BY <1>4 DEF OneSync, MemAt, SyncedIsFound
<1> QED BY <1>2, <1>3, <1>4, <1>5, MemIdleHeld DEF MemInv, UnembeddedMemoryHasCause, OwnMemoriesSeen, MemInit

LEMMA MemSteps == MemInv /\ OwnMemoriesSeen /\ [MemNext]_memVars => (MemInv /\ OwnMemoriesSeen)'
<1> SUFFICES ASSUME MemInv, OwnMemoriesSeen, [MemNext]_memVars PROVE (MemInv /\ OwnMemoriesSeen)'
    OBVIOUS
<1>1. CASE UNCHANGED memVars
      BY <1>1 DEF memVars, MemInv, MemTypes, MemHeld, Apart, OneSync, MemAt, UnembeddedMemoryHasCause, SyncedIsFound, Exists,
                  OwnMemoriesSeen
<1>2. CASE MemNext
  <2>1. MemShowsOwn /\ memFaults' \in 0..MaxMemFaults
        BY <1>2, MemShows, MemCounted
  <2>2. ASSUME NEW p \in Callers, MemStep(p) PROVE MemInv'
    <3>1. MemGood(p)
          BY <2>2, MemStepGood
    <3>2. PICK r : MemGoes(p, r)
          BY <3>1 DEF MemGood
    <3>3. /\ memReq' \in [Callers -> MemRequests] /\ memReq'[p] = r
          /\ \A q \in Callers : q # p => memReq'[q] = memReq[q]
          BY <3>2, MemRequestsMove
    <3>4. MemTypes'
      <4>1. memBorn' \in 0..MaxMemories
        <5>1. memBorn' \in memBorn..MaxMemories
              BY <3>1 DEF MemGood, MemRowsKept
        <5>2. memBorn \in Nat
              BY DEF MemInv, MemTypes
        <5> QED BY <5>1, <5>2, MemNumbers
      <4> QED BY <2>1, <3>1, <3>3, <4>1 DEF MemGood, MemRowsKept, MemTypes, MemShowsOwn
    <3>5. ASSUME NEW q \in Callers PROVE MemHeld(memReq[q])'
      <4>1. PICK s \in MemRequests : s = memReq'[q] /\ MemHeld(s)'
        <5>1. CASE q = p
              BY <3>2, <3>3, <5>1 DEF MemGoes
        <5>2. CASE q # p
          <6>1. memReq[q] \in MemRequests /\ MemHeld(memReq[q])
                BY DEF MemInv, MemTypes
          <6> PICK s \in MemRequests : s = memReq[q] /\ MemHeld(s)
                BY <6>1
          <6>2. MemHeld(s)'
                BY <3>1, MemHeldStays DEF MemGood, MemRowsKept
          <6> QED BY <3>3, <5>2, <6>2
        <5> QED BY <5>1, <5>2
      <4> QED BY <4>1 DEF MemHeld, Apart
    <3> QED BY <3>1, <3>4, <3>5 DEF MemGood, MemDerived, MemInv
  <2>3. CASE MemUpdate \/ MemList \/ MemGet
    <3>1. UNCHANGED memReq /\ MemQuiet
      <4>1. CASE MemUpdate
            BY <4>1, UpdateQuiet DEF MemUpdate
      <4>2. CASE MemList \/ MemGet
            BY <4>2, MemSameQuiet DEF MemList, MemGet
      <4> QED BY <2>3, <4>1, <4>2
    <3>2. MemRowsKept /\ MemDerived'
          BY <3>1, QuietKept, StillDerives
    <3>3. memBorn' \in 0..MaxMemories
          BY <3>2, MemNumbers DEF MemRowsKept, MemInv, MemTypes
    <3>4. MemTypes'
          BY <2>1, <3>1, <3>2, <3>3 DEF MemRowsKept, MemShowsOwn, MemInv, MemTypes
    <3>5. \A q \in Callers : MemHeld(memReq[q])'
          BY <3>1 DEF MemQuiet, MemInv, MemHeld, Apart
    <3> QED BY <2>1, <3>2, <3>4, <3>5 DEF MemDerived, MemInv, MemShowsOwn
  <2> QED BY <1>2, <2>1, <2>2, <2>3 DEF MemNext, MemShowsOwn
<1> QED BY <1>1, <1>2

LEMMA MemKept == MemSpec => [](MemInv /\ OwnMemoriesSeen)
BY MemBeginning, MemSteps, PTL DEF MemSpec

(* Rows, vectors and requests of the memories have their types, whatever   *)
(* stores, recalls, deletions and embedding commands overlap.              *)
THEOREM MemoriesTypeCorrect == MemSpec => []MemTypeOK
<1>1. MemInv => MemTypeOK
  <2> SUFFICES ASSUME MemInv PROVE MemTypeOK
      OBVIOUS
  <2>1. ASSUME NEW i \in MemIds, Exists(i)
        PROVE  /\ i <= memBorn /\ mem[i].owner \in Users /\ mem[i].key \in Keys
               /\ mem[i].content \in Contents /\ mem[i].tier \in Tiers /\ mem[i].count \in Nat
    <3>1. mem[i] \in MemRow /\ i <= memBorn
          BY <2>1, IdsOfRows DEF MemInv, MemTypes
    <3> QED BY <3>1 DEF MemRow
  <2> QED BY <2>1 DEF MemTypeOK, MemInv, MemTypes
<1> QED BY <1>1, MemKept, PTL

(* An ordinary user is shown only memories of the user, although the       *)
(* vectors searched are those of everybody (convo_x.go:244-267, 682-687).  *)
THEOREM MemoriesSeenAreOwn == MemSpec => []OwnMemoriesSeen
BY MemKept, PTL

(* A memory no recall can find is being created, or its creator could not  *)
(* embed it (convo_x.go:213-236, 671-680).                                 *)
THEOREM UnembeddedIsExplained == MemSpec => []UnembeddedMemoryHasCause
<1>1. MemInv => UnembeddedMemoryHasCause
      BY DEF MemInv
<1> QED BY <1>1, MemKept, PTL

(* What the embedding command has been through can be found by the content *)
(* it read (convo_x.go:365-402).                                           *)
THEOREM SyncedStaysFound == MemSpec => []SyncedIsFound
<1>1. MemInv => SyncedIsFound
      BY DEF MemInv
<1> QED BY <1>1, MemKept, PTL

(* A memory disappears only by a request of its owner or of a keeper that  *)
(* named it (convo_x.go:577-604, 672-680).                                 *)
THEOREM MemoriesGoByOwners == MemSpec => OwnMemoriesDeleted
<1>1. ASSUME MemInv, MemNext, NEW i \in MemIds, Exists(i), mem'[i] = NoRow
      PROVE  \E p \in Callers : MemAt(p, "delete") /\ memReq[p].id = i /\ memReq[p].as \in Keepers \cup {mem[i].owner}
  <2>1. ASSUME NEW p \in Callers, MemDelete(p)
        PROVE  MemAt(p, "delete") /\ memReq[p].id = i /\ memReq[p].as \in Keepers \cup {mem[i].owner}
    <3>1. MemAt(p, "delete") /\ memReq[p].as \in Users
      <4>1. MemAt(p, "delete") /\ memReq[p].pc = "delete"
            BY <2>1 DEF MemDelete, MemAt
      <4>2. MemHeld(memReq[p])
            BY <1>1 DEF MemInv
      <4> QED BY <4>1, <4>2 DEF MemHeld
    <3>2. Allowed(memReq[p].as, mem[memReq[p].id].owner) /\ mem' = [mem EXCEPT ![memReq[p].id] = NoRow]
          BY <1>1, <2>1 DEF MemDelete, Exists
    <3>3. memReq[p].id = i
          BY <1>1, <3>2 DEF MemInv, MemTypes, Exists
    <3> QED BY <3>1, <3>2, <3>3, MemNumbers DEF Allowed, Restricted
  <2>2. ASSUME NEW p \in Callers, MemStep(p), ~MemDelete(p) PROVE Exists(i)'
    <3>1. CASE MemCreate(p)
      <4>1. UNCHANGED mem \/ \E row \in MemRow : mem' = [mem EXCEPT ![memBorn + 1] = row]
        <5>1. MemHeld(memReq[p]) /\ memReq[p].pc = "create"
              BY <1>1, <3>1 DEF MemCreate, MemAt, MemInv
        <5>2. [owner |-> memReq[p].as, key |-> memReq[p].key, content |-> memReq[p].content, tier |-> memReq[p].tier,
               count |-> 0] \in MemRow
              BY <5>1 DEF MemHeld, MemRow
        <5> QED BY <3>1, <5>2 DEF MemCreate
      <4> QED BY <1>1, <4>1, MemRowIsThere DEF MemInv, MemTypes, Exists
    <3>2. CASE MemWrite(p) \/ MemReinforce(p)
          BY <1>1, <3>2, WriteQuiet, ReinforceQuiet DEF MemQuiet
    <3>3. CASE UNCHANGED mem
          BY <1>1, <3>3 DEF Exists
    <3> QED BY <2>2, <3>1, <3>2, <3>3 DEF MemStep, MemStore, MemPost, MemEmbed, MemAddVector, MemForget, MemDeleteRequest,
               MemRecall, MemLoad, MemSyncList, MemSyncOne, MemSyncEnd
  <2>3. CASE MemUpdate \/ MemList \/ MemGet
        BY <1>1, <2>3, UpdateQuiet DEF MemQuiet, MemList, MemGet, Exists
  <2> QED BY <1>1, <2>1, <2>2, <2>3 DEF MemNext, Exists
<1>2. MemInv /\ [MemNext]_memVars
      => [\A i \in MemIds : Exists(i) /\ mem'[i] = NoRow =>
              \E p \in Callers : MemAt(p, "delete") /\ memReq[p].id = i /\ memReq[p].as \in Keepers \cup {mem[i].owner}]_memVars
      BY <1>1
<1> QED BY <1>2, MemKept, PTL DEF MemSpec, OwnMemoriesDeleted

-----------------------------------------------------------------------------
(* Capabilities.  A row that one task alone has had in hand since it read  *)
(* it is still there and as the task knows it; that no other task has had  *)
(* it in hand is what contested says.                                      *)

CapRow    == [op : Operations, subject : Subjects, missed : BOOLEAN]
CapCopies == [id : CapIds, subject : Subjects]

TaskRecords ==
    [pc : {"idle", "import", "entry", "created", "changed", "mark", "marked", "clean", "sync", "load", "rerank", "shown"},
     doc : Documents \cup {<<>>}, left : SUBSET Operations, prefix : SUBSET Operations, op : Operations \cup {NoOp},
     id : Nat, subject : Subjects \cup {""}, rows : SUBSET CapCopies, query : Subjects \cup {""},
     hits : SUBSET CapIds, found : SUBSET CapIds]

CapTypes ==
    /\ cap \in [CapIds -> CapRow \cup {NoCap}] /\ capBorn \in Nat
    /\ \A i \in CapIds : Listed(i) => i <= capBorn
    /\ capVec \in [CapIds -> SUBSET Subjects] /\ task \in [Tasks -> TaskRecords]
    /\ rcache \in [Subjects -> SUBSET CapIds] /\ contested \subseteq CapIds /\ outdated \subseteq CapIds
    /\ capFaults \in 0..MaxCapFaults

Hand(r) == {r.id} \cup {m.id : m \in r.rows}

(* While it is not contested, the row is there with that subject.          *)
KnownAs(i, s) == i \notin contested => Listed(i) /\ cap[i].subject = s

(* What a task holds: of a document, an operation it has; rows born; of a  *)
(* row that was missed, that it still is; and candidates.                  *)
CapHeld(r) ==
    /\ r.id <= capBorn /\ \A m \in r.rows : m.id <= capBorn /\ KnownAs(m.id, m.subject)
    /\ \A m, n \in r.rows : m.id = n.id => m = n
    /\ r.pc \in {"import", "entry", "created", "changed"} => r.doc \in Documents /\ r.left \subseteq DOMAIN r.doc /\ r.rows = {}
    /\ r.pc \in {"import", "mark", "clean", "sync", "load", "rerank"} => r.id = 0
    /\ r.pc \in {"load", "rerank"} => r.rows = {}
    /\ r.pc = "entry" =>
           /\ r.op \in DOMAIN r.doc
           /\ r.id # 0 => r.id \in CapIds /\ (Listed(r.id) => cap[r.id].op = r.op)
    /\ r.pc \in {"created", "changed", "marked"} => r.id \in CapIds /\ r.subject \in Subjects /\ KnownAs(r.id, r.subject)
    /\ r.pc = "clean" => \A m \in r.rows : Listed(m.id) => cap[m.id].missed
    /\ r.pc = "rerank" => r.hits # {}
    /\ r.pc = "shown" => r.found # {} /\ r.found \subseteq r.hits /\ Cardinality(r.found) <= CapLimit

(* A row two tasks have in hand is contested.                              *)
Exclusive == \A t, u \in Tasks : \A i \in Hand(task[t]) \cap Hand(task[u]) : t # u /\ i # 0 => i \in contested

Follows(i) ==
    /\ Listed(i) /\ ~Rewritten(i) /\ i \notin contested \cup outdated => capVec[i] = {cap[i].subject}
    /\ ~Listed(i) /\ i \notin contested => capVec[i] = {}

CapInv == CapTypes /\ (\A t \in Tasks : CapHeld(task[t])) /\ Exclusive /\ \A i \in CapIds : Follows(i)

LEMMA CapNumbers ==
    /\ {MaxCaps, MaxCapRequests, MaxCapFaults} \subseteq Nat /\ CapLimit \in Nat \ {0} /\ NoOp \notin Operations
    /\ \A i \in CapIds : i \in Nat \ {0} /\ i <= MaxCaps
    /\ \A x \in Prefixes : x \subseteq Operations
    /\ \A d \in Documents : DOMAIN d \subseteq Operations /\ \A o \in DOMAIN d : d[o].subject \in Subjects \cup {""}
<1>1. {MaxCaps, MaxCapRequests, MaxCapFaults} \subseteq Nat /\ CapLimit \in Nat \ {0} /\ NoOp \notin Operations
      BY CapabilityAssumption DEF NoOp
<1>2. \A i \in CapIds : i \in Nat \ {0} /\ i <= MaxCaps
      BY <1>1 DEF CapIds
<1>3. \A x \in Prefixes : x \subseteq Operations
      BY CapabilityAssumption
<1>4. \A d \in Documents : DOMAIN d \subseteq Operations /\ \A o \in DOMAIN d : d[o].subject \in Subjects \cup {""}
      BY CapabilityAssumption
<1> QED BY <1>1, <1>2, <1>3, <1>4

LEMMA CapIdsNat == {0} \cup CapIds \subseteq Nat
BY DEF CapIds

LEMMA CapRowIsThere == \A r \in CapRow : r # NoCap
<1>1. NoCap.op = NoOp /\ \A r \in CapRow : r.op \in Operations
      BY DEF CapRow, NoCap
<1> QED BY <1>1, CapNumbers

LEMMA ListedRow == ASSUME CapInv, NEW i \in CapIds, Listed(i) PROVE cap[i] \in CapRow /\ i \in 1..capBorn /\ i <= capBorn
<1>1. cap[i] \in CapRow /\ i <= capBorn /\ capBorn \in Nat
      BY DEF CapInv, CapTypes, Listed
<1>2. i \in Nat \ {0}
      BY CapNumbers
<1> QED BY <1>1, <1>2

LEMMA NamedIsListed == ASSUME CapInv, NEW i \in CapIds, cap[i].op \in Operations \/ cap[i].missed PROVE Listed(i)
<1>1. NoCap.op = NoOp /\ NoCap.missed = FALSE
      BY DEF NoCap
<1> QED BY <1>1, CapNumbers DEF Listed

LEMMA RestingTyped == Resting \in TaskRecords
BY DEF Resting, TaskRecords, NoOp

-----------------------------------------------------------------------------
(* Capabilities.  What a step of a task leaves to the other tasks: the     *)
(* rows the task has not in hand are as they were, and no row comes back.  *)

RowsKept(t) ==
    /\ cap' \in [CapIds -> CapRow \cup {NoCap}] /\ capBorn' \in Nat /\ capBorn <= capBorn'
    /\ contested \subseteq contested' /\ contested' \subseteq CapIds
    /\ \A i \in CapIds : Listed(i)' => i <= capBorn'
    /\ \A i \in CapIds : i <= capBorn =>
           /\ Listed(i)' => Listed(i) /\ cap'[i].op = cap[i].op /\ (cap[i].missed => cap'[i].missed)
           /\ i \notin Hand(task[t]) => cap'[i] = cap[i]

(* A row the task takes in hand is new, or contested if another has it.    *)
HandGoes(t, r) ==
    \A i \in Hand(r) : \/ i = 0 \/ i \in Hand(task[t]) \/ i > capBorn
                       \/ \A u \in Tasks \ {t} : i \in Hand(task[u]) => i \in contested'

TaskGoes(t) == RowsKept(t) /\ \E r \in TaskRecords : TaskPut(t, r) /\ CapHeld(r)' /\ HandGoes(t, r)

LEMMA CapRowsRest ==
    ASSUME CapInv, NEW t \in Tasks, UNCHANGED <<cap, capBorn>>, contested \subseteq contested', contested' \subseteq CapIds
    PROVE  RowsKept(t)
BY DEF CapInv, CapTypes, RowsKept, Listed

LEMMA OthersHold ==
    ASSUME CapInv, NEW t \in Tasks, RowsKept(t), NEW u \in Tasks \ {t}, NEW r, r = task[u]
    PROVE  CapHeld(r)'
<1>1. CapHeld(r) /\ r \in TaskRecords
      BY DEF CapInv, CapTypes
<1>2. \A i \in CapIds : i \in Hand(r) /\ i \in Hand(task[t]) => i \in contested
      BY CapNumbers DEF CapInv, Exclusive
<1>3. ASSUME NEW i \in CapIds, i \in Hand(r), i <= capBorn, NEW s, KnownAs(i, s) PROVE KnownAs(i, s)'
  <2>1. SUFFICES ASSUME i \notin contested' PROVE Listed(i)' /\ cap'[i].subject = s
        BY DEF KnownAs
  <2>2. i \notin contested /\ cap'[i] = cap[i]
        BY <1>2, <1>3, <2>1 DEF RowsKept
  <2> QED BY <1>3, <2>2 DEF KnownAs, Listed
<1>4. capBorn \in Nat /\ capBorn' \in Nat /\ capBorn <= capBorn'
      BY DEF CapInv, CapTypes, RowsKept
<1>5. r.id <= capBorn' /\ \A m \in r.rows : m.id <= capBorn' /\ KnownAs(m.id, m.subject)'
  <2>1. r.id \in Nat /\ r.id <= capBorn
        BY <1>1 DEF CapHeld, TaskRecords
  <2>2. ASSUME NEW m \in r.rows PROVE m.id <= capBorn' /\ KnownAs(m.id, m.subject)'
    <3>1. m.id \in CapIds /\ m.id \in Hand(r)
      <4>1. r.rows \subseteq CapCopies
            BY <1>1 DEF TaskRecords
      <4> QED BY <2>2, <4>1 DEF CapCopies, Hand
    <3>2. m.id <= capBorn /\ KnownAs(m.id, m.subject)
          BY <1>1, <2>2 DEF CapHeld
    <3>3. m.id <= capBorn'
      <4>1. m.id \in Nat
            BY <3>1, CapNumbers
      <4> QED BY <1>4, <3>2, <4>1
    <3> QED BY <1>3, <3>1, <3>2, <3>3 DEF KnownAs, Listed
  <2> QED BY <1>4, <2>1, <2>2
<1>6. r.pc = "entry" =>
          /\ r.op \in DOMAIN r.doc
          /\ r.id # 0 => r.id \in CapIds /\ (Listed(r.id)' => cap'[r.id].op = r.op)
      BY <1>1 DEF CapHeld, RowsKept
<1>7. r.pc \in {"created", "changed", "marked"} => r.id \in CapIds /\ r.subject \in Subjects /\ KnownAs(r.id, r.subject)'
  <2>1. r.id \in Hand(r)
        BY DEF Hand
  <2>2. r.pc \in {"created", "changed", "marked"}
        => r.id \in CapIds /\ r.subject \in Subjects /\ KnownAs(r.id, r.subject) /\ r.id <= capBorn
        BY <1>1 DEF CapHeld
  <2> QED BY <1>3, <2>1, <2>2
<1>8. r.pc = "clean" => \A m \in r.rows : Listed(m.id)' => cap'[m.id].missed
  <2> SUFFICES ASSUME r.pc = "clean", NEW m \in r.rows, Listed(m.id)' PROVE cap'[m.id].missed
      OBVIOUS
  <2>1. m.id \in CapIds /\ m.id <= capBorn /\ (Listed(m.id) => cap[m.id].missed)
        BY <1>1 DEF TaskRecords, CapCopies, CapHeld
  <2> QED BY <2>1 DEF RowsKept
<1> QED BY <1>1, <1>5, <1>6, <1>7, <1>8 DEF CapHeld

LEMMA StaysExclusive ==
    ASSUME CapInv, NEW t \in Tasks, RowsKept(t), NEW r, TaskPut(t, r), HandGoes(t, r)
    PROVE  Exclusive'
<1>1. \A u \in Tasks : \A i \in Hand(task[u]) : i \in Nat /\ i <= capBorn
  <2> SUFFICES ASSUME NEW u \in Tasks, NEW i \in Hand(task[u]) PROVE i \in Nat /\ i <= capBorn
      OBVIOUS
  <2> PICK k : k = task[u]
      OBVIOUS
  <2>1. k \in TaskRecords /\ CapHeld(k)
        BY DEF CapInv, CapTypes
  <2>2. k.id \in Nat /\ k.id <= capBorn /\ \A m \in k.rows : m.id \in CapIds /\ m.id <= capBorn
        BY <2>1 DEF TaskRecords, CapCopies, CapHeld
  <2> QED BY <2>2, CapNumbers DEF Hand
<1>2. task'[t] = r /\ \A u \in Tasks \ {t} : task'[u] = task[u]
      BY DEF CapInv, CapTypes, TaskPut
<1>3. ASSUME NEW u \in Tasks \ {t}, NEW i \in Hand(r), i \in Hand(task[u]), i # 0 PROVE i \in contested'
  <2>1. CASE i \in Hand(task[t])
        BY <1>3, <2>1 DEF CapInv, Exclusive, RowsKept
  <2>2. ~(i > capBorn)
        BY <1>1, <1>3 DEF CapInv, CapTypes
  <2> QED BY <1>3, <2>1, <2>2 DEF HandGoes
<1>4. ASSUME NEW u \in Tasks, NEW v \in Tasks, NEW i \in Hand(task'[u]) \cap Hand(task'[v]), u # v, i # 0
      PROVE  i \in contested'
  <2>1. CASE u # t /\ v # t
        BY <1>2, <1>4, <2>1 DEF CapInv, Exclusive, RowsKept
  <2>2. CASE u = t
        BY <1>2, <1>3, <1>4, <2>2
  <2>3. CASE v = t
        BY <1>2, <1>3, <1>4, <2>3
  <2> QED BY <2>1, <2>2, <2>3
<1> QED BY <1>4 DEF Exclusive, Hand

(* Tasks that have nothing in hand.                                        *)
Plain(r) ==
    /\ r \in TaskRecords /\ r.id = 0 /\ r.rows = {} /\ r.pc \in {"idle", "import", "load", "rerank", "shown"}
    /\ r.pc = "import" => r.doc \in Documents /\ r.left \subseteq DOMAIN r.doc
    /\ r.pc = "rerank" => r.hits # {}
    /\ r.pc = "shown" => r.found # {} /\ r.found \subseteq r.hits /\ Cardinality(r.found) <= CapLimit

LEMMA PlainGoes ==
    ASSUME CapInv, NEW t \in Tasks, RowsKept(t), NEW r, Plain(r), TaskPut(t, r)
    PROVE  TaskGoes(t)
<1>1. HandGoes(t, r)
      BY DEF Plain, HandGoes, Hand
<1>2. 0 <= capBorn'
      BY DEF RowsKept
<1>3. CapHeld(r)'
      BY <1>2 DEF Plain, CapHeld
<1> QED BY <1>1, <1>3 DEF Plain, TaskGoes

LEMMA EndingGoes == ASSUME CapInv, NEW t \in Tasks, RowsKept(t), TaskEnds(t) PROVE TaskGoes(t)
<1>1. Plain(Resting)
      BY RestingTyped DEF Plain, Resting
<1> QED BY <1>1, PlainGoes DEF TaskEnds

LEMMA NextEntryPlain ==
    ASSUME NEW k \in TaskRecords, k.pc \in {"entry", "created", "changed"}, k.doc \in Documents,
           k.left \subseteq DOMAIN k.doc, k.rows = {}, NEW S \in SUBSET k.left, NEW r,
           r = [k EXCEPT !.pc = "import", !.left = S, !.op = NoOp, !.id = 0]
    PROVE  Plain(r)
<1>1. k.left \subseteq Operations
      BY DEF TaskRecords
<1>2. r \in TaskRecords
      BY <1>1 DEF TaskRecords
<1>3. r.id = 0 /\ r.rows = {} /\ r.pc = "import" /\ r.doc = k.doc /\ r.left = S
      BY DEF TaskRecords
<1> QED BY <1>2, <1>3 DEF Plain

LEMMA NextEntryGoes ==
    ASSUME CapInv, NEW t \in Tasks, RowsKept(t), task[t].pc \in {"entry", "created", "changed"}, NextEntry(t)
    PROVE  TaskGoes(t)
<1> PICK k : k = task[t]
    OBVIOUS
<1>1. k \in TaskRecords /\ CapHeld(k)
      BY DEF CapInv, CapTypes
<1>2. k.doc \in Documents /\ k.left \subseteq DOMAIN k.doc /\ k.rows = {}
      BY <1>1 DEF CapHeld
<1> PICK r : r = [k EXCEPT !.pc = "import", !.left = k.left \ {k.op}, !.op = NoOp, !.id = 0]
    OBVIOUS
<1>3. Plain(r)
      BY <1>1, <1>2, NextEntryPlain
<1>4. TaskPut(t, r)
      BY <1>1 DEF NextEntry, TaskRecords
<1> QED BY <1>3, <1>4, PlainGoes

LEMMA BeginsGoes == ASSUME CapInv, NEW t \in Tasks, ImportBegins(t) PROVE TaskGoes(t)
<1>1. RowsKept(t)
      BY CapRowsRest DEF ImportBegins, CapInv, CapTypes
<1>2. PICK d \in Documents, x \in Prefixes :
           TaskPut(t, [Resting EXCEPT !.pc = "import", !.doc = d, !.left = DOMAIN d, !.prefix = x])
      BY DEF ImportBegins
<1> PICK r : r = [Resting EXCEPT !.pc = "import", !.doc = d, !.left = DOMAIN d, !.prefix = x]
    OBVIOUS
<1>3. r \in TaskRecords /\ r.id = 0 /\ r.rows = {} /\ r.pc = "import" /\ r.doc = d /\ r.left = DOMAIN d
  <2>1. DOMAIN d \subseteq Operations /\ x \subseteq Operations
        BY CapNumbers
  <2> QED BY <2>1, RestingTyped DEF Resting, TaskRecords
<1>4. Plain(r)
      BY <1>3 DEF Plain
<1> QED BY <1>1, <1>2, <1>4, PlainGoes

Looked(k, o, i) == [k EXCEPT !.pc = "entry", !.op = o, !.id = i]

LEMMA EntryHeld ==
    ASSUME NEW k \in TaskRecords, k.pc = "import", CapHeld(k), NEW o \in k.left,
           NEW i \in {0} \cup CapIds, i # 0 => i <= capBorn /\ cap[i].op = o, NEW r, r = Looked(k, o, i)
    PROVE  r \in TaskRecords /\ CapHeld(r) /\ Hand(r) = {i}
<1>1. k.left \subseteq Operations
      BY DEF TaskRecords
<1>2. i \in Nat
      BY CapIdsNat
<1>3. r \in TaskRecords
      BY <1>1, <1>2 DEF TaskRecords, Looked
<1>4. r.id = i /\ r.rows = k.rows /\ r.pc = "entry" /\ r.doc = k.doc /\ r.left = k.left /\ r.op = o
  <2>1. {"pc", "op", "id", "rows", "doc", "left"} \subseteq DOMAIN k
        BY DEF TaskRecords
  <2> QED BY <2>1 DEF Looked
<1>5. k.rows = {} /\ k.doc \in Documents /\ k.left \subseteq DOMAIN k.doc /\ k.id <= capBorn /\ k.id = 0
      BY DEF CapHeld
<1>6. i <= capBorn
      BY <1>5
<1> QED BY <1>3, <1>4, <1>5, <1>6 DEF CapHeld, Hand

(* A task that only reads holds what it held.                              *)
LEMMA HeldStill ==
    ASSUME UNCHANGED <<cap, capBorn>>, contested \subseteq contested', NEW r, CapHeld(r)
    PROVE  CapHeld(r)'
BY DEF CapHeld, KnownAs, Listed

LEMMA LookGoes == ASSUME CapInv, NEW t \in Tasks, ImportLook(t) PROVE TaskGoes(t)
<1> PICK k : k = task[t]
    OBVIOUS
<1>1. k \in TaskRecords /\ CapHeld(k) /\ k.pc = "import"
      BY DEF CapInv, CapTypes, ImportLook, TaskAt
<1>2. UNCHANGED <<cap, capBorn>>
      BY DEF ImportLook
<1>3. PICK o \in k.left :
           \/ \E i \in CapIds : cap[i].op = o /\ Contest(t, i) /\ TaskPut(t, Looked(k, o, i))
           \/ UNCHANGED contested /\ TaskPut(t, Looked(k, o, 0))
           \/ UNCHANGED contested /\ TaskPut(t, [k EXCEPT !.left = k.left \ {o}])
      BY DEF ImportLook, Looked
<1>4. o \in Operations
      BY <1>1 DEF TaskRecords
<1>5. ASSUME NEW i \in CapIds, cap[i].op = o, Contest(t, i), TaskPut(t, Looked(k, o, i))
      PROVE  TaskGoes(t)
  <2>1. i <= capBorn
    <3>1. cap[i].op \in Operations
          BY <1>4, <1>5
    <3>2. Listed(i)
          BY <3>1, NamedIsListed
    <3> QED BY <3>2, ListedRow
  <2> PICK r : r = Looked(k, o, i)
      OBVIOUS
  <2>2. r \in TaskRecords /\ CapHeld(r) /\ Hand(r) = {i}
        BY <1>1, <1>5, <2>1, EntryHeld
  <2>3. contested \subseteq contested' /\ contested' \subseteq CapIds
        BY <1>5 DEF Contest, CapInv, CapTypes
  <2>4. HandGoes(t, r)
    <3>1. ASSUME NEW u \in Tasks \ {t}, i \in Hand(task[u]) PROVE i \in contested'
          BY <1>5, <3>1 DEF Contest, InHand, Hand
    <3> QED BY <2>2, <3>1 DEF HandGoes
  <2>5. RowsKept(t) /\ CapHeld(r)'
        BY <1>2, <2>2, <2>3, CapRowsRest, HeldStill
  <2> QED BY <1>5, <2>2, <2>4, <2>5 DEF TaskGoes
<1>6. CASE UNCHANGED contested /\ TaskPut(t, Looked(k, o, 0))
  <2> PICK r : r = Looked(k, o, 0)
      OBVIOUS
  <2>1. r \in TaskRecords /\ CapHeld(r) /\ Hand(r) = {0}
    <3>1. 0 \in {0} \cup CapIds /\ (0 # 0 => 0 <= capBorn /\ cap[0].op = o)
          OBVIOUS
    <3> QED BY <1>1, <3>1, EntryHeld
  <2>2. HandGoes(t, r)
        BY <2>1 DEF HandGoes
  <2>3. RowsKept(t) /\ CapHeld(r)'
        BY <1>2, <1>6, <2>1, CapRowsRest, HeldStill DEF CapInv, CapTypes
  <2> QED BY <1>6, <2>1, <2>2, <2>3 DEF TaskGoes
<1>7. CASE UNCHANGED contested /\ TaskPut(t, [k EXCEPT !.left = k.left \ {o}])
  <2> PICK r : r = [k EXCEPT !.left = k.left \ {o}]
      OBVIOUS
  <2>1. r \in TaskRecords /\ r.pc = "import" /\ r.left = k.left \ {o} /\ r.doc = k.doc /\ r.rows = k.rows /\ r.id = k.id
        BY <1>1 DEF TaskRecords
  <2>2. Plain(r)
        BY <1>1, <2>1 DEF CapHeld, Plain
  <2> QED BY <1>2, <1>7, <2>2, CapRowsRest, PlainGoes DEF CapInv, CapTypes
<1> QED BY <1>3, <1>5, <1>6, <1>7

(* A task changes or removes a row it has in hand.                         *)
RowChange(t, i, row) ==
    /\ UNCHANGED <<capBorn, contested>> /\ i \in Hand(task[t]) /\ Listed(i)
    /\ row \in CapRow \cup {NoCap} /\ cap' = [cap EXCEPT ![i] = row]
    /\ row \in CapRow => row.op = cap[i].op /\ (cap[i].missed => row.missed)

LEMMA RowChanges ==
    ASSUME CapInv, NEW t \in Tasks, NEW i \in CapIds, NEW row, RowChange(t, i, row)
    PROVE  RowsKept(t) /\ cap'[i] = row /\ \A j \in CapIds \ {i} : cap'[j] = cap[j]
<1> USE DEF RowChange
<1>1. cap' \in [CapIds -> CapRow \cup {NoCap}] /\ cap'[i] = row /\ \A j \in CapIds \ {i} : cap'[j] = cap[j]
      BY DEF CapInv, CapTypes
<1>2. i <= capBorn
      BY ListedRow
<1>3. ASSUME NEW j \in CapIds, j <= capBorn
      PROVE  /\ Listed(j)' => Listed(j) /\ cap'[j].op = cap[j].op /\ (cap[j].missed => cap'[j].missed)
             /\ j \notin Hand(task[t]) => cap'[j] = cap[j]
  <2>1. CASE j = i
        BY <1>1, <2>1 DEF Listed
  <2>2. CASE j # i
        BY <1>1, <2>2 DEF Listed
  <2> QED BY <2>1, <2>2
<1>4. \A j \in CapIds : Listed(j)' => j <= capBorn'
      BY <1>1, <1>2 DEF Listed, CapInv, CapTypes
<1>5. capBorn' \in Nat /\ capBorn <= capBorn' /\ contested \subseteq contested' /\ contested' \subseteq CapIds
      BY DEF CapInv, CapTypes
<1> QED BY <1>1, <1>3, <1>4, <1>5 DEF RowsKept

LEMMA SkipsGoes == ASSUME CapInv, NEW t \in Tasks, ImportSkips(t) PROVE TaskGoes(t)
<1> PICK k : k = task[t]
    OBVIOUS
<1>1. k \in TaskRecords /\ CapHeld(k) /\ k.pc = "entry" /\ NextEntry(t) /\ UNCHANGED <<capBorn, contested>>
      BY DEF CapInv, CapTypes, ImportSkips, TaskAt
<1>2. CASE UNCHANGED cap
      BY <1>1, <1>2, CapRowsRest, NextEntryGoes DEF CapInv, CapTypes
<1>3. CASE k.id # 0 /\ Listed(k.id) /\ cap' = [cap EXCEPT ![k.id] = NoCap]
  <2>1. k.id \in CapIds /\ k.id \in Hand(task[t])
        BY <1>1, <1>3 DEF CapHeld, Hand
  <2>2. NoCap \notin CapRow
        BY CapRowIsThere
  <2>3. RowChange(t, k.id, NoCap)
        BY <1>1, <1>3, <2>1, <2>2 DEF RowChange
  <2>4. RowsKept(t)
        BY <2>1, <2>3, RowChanges
  <2> QED BY <1>1, <2>4, NextEntryGoes
<1> QED BY <1>2, <1>3 DEF ImportSkips, Removed

(* What the document says of an operation that is wanted.                  *)
LEMMA WantedSubject ==
    ASSUME CapInv, NEW t \in Tasks, TaskAt(t, "entry"), ~NotWanted(Entry(t))
    PROVE  Entry(t).subject \in Subjects /\ task[t].op \in Operations
<1> PICK k : k = task[t]
    OBVIOUS
<1>1. k \in TaskRecords /\ CapHeld(k) /\ k.pc = "entry"
      BY DEF CapInv, CapTypes, TaskAt
<1>2. k.doc \in Documents /\ k.op \in DOMAIN k.doc
      BY <1>1 DEF CapHeld
<1>3. k.doc[k.op].subject \in Subjects \cup {""} /\ k.op \in Operations
      BY <1>2, CapNumbers
<1> QED BY <1>3 DEF Entry, NotWanted

(* Tasks that have written a row.                                          *)
Wrote(k, pc, i, s) == [k EXCEPT !.pc = pc, !.id = i, !.subject = s]

LEMMA WroteHeld ==
    ASSUME NEW k \in TaskRecords, k.doc \in Documents, k.left \subseteq DOMAIN k.doc, k.rows = {},
           NEW pc \in {"created", "changed"}, NEW i \in CapIds, NEW s \in Subjects,
           NEW r, r = Wrote(k, pc, i, s)
    PROVE  /\ r \in TaskRecords /\ r.pc = pc /\ r.id = i /\ r.subject = s /\ Hand(r) = {i}
           /\ r.doc \in Documents /\ r.left \subseteq DOMAIN r.doc /\ r.rows = {}
<1>1. i \in Nat
      BY CapIdsNat
<1>2. r \in TaskRecords
      BY <1>1 DEF TaskRecords, Wrote
<1>3. r.id = i /\ r.rows = k.rows /\ r.pc = pc /\ r.doc = k.doc /\ r.left = k.left /\ r.subject = s
  <2>1. {"pc", "id", "subject", "rows", "doc", "left"} \subseteq DOMAIN k
        BY DEF TaskRecords
  <2> QED BY <2>1 DEF Wrote
<1> QED BY <1>2, <1>3 DEF Hand

LEMMA WroteGoes ==
    ASSUME CapInv, NEW t \in Tasks, RowsKept(t), task[t].pc = "entry", NEW pc \in {"created", "changed"},
           NEW i \in CapIds, i \in Hand(task[t]) \/ i > capBorn, i <= capBorn', NEW s \in Subjects,
           Listed(i)', cap'[i].subject = s,
           TaskPut(t, Wrote(task[t], pc, i, s))
    PROVE  TaskGoes(t)
<1> PICK k : k = task[t]
    OBVIOUS
<1>1. k \in TaskRecords /\ CapHeld(k)
      BY DEF CapInv, CapTypes
<1>2. k.doc \in Documents /\ k.left \subseteq DOMAIN k.doc /\ k.rows = {}
      BY <1>1 DEF CapHeld
<1> PICK r : r = Wrote(k, pc, i, s)
    OBVIOUS
<1>3. /\ r \in TaskRecords /\ r.pc = pc /\ r.id = i /\ r.subject = s /\ Hand(r) = {i}
      /\ r.doc \in Documents /\ r.left \subseteq DOMAIN r.doc /\ r.rows = {}
      BY <1>1, <1>2, WroteHeld
<1>4. CapHeld(r)'
      BY <1>3 DEF CapHeld, KnownAs, Listed
<1>5. HandGoes(t, r)
      BY <1>3 DEF HandGoes
<1>6. TaskPut(t, r)
      OBVIOUS
<1> QED BY <1>3, <1>4, <1>5, <1>6 DEF TaskGoes

LEMMA UpdatesGoes == ASSUME CapInv, NEW t \in Tasks, ImportUpdates(t) PROVE TaskGoes(t)
<1> PICK i, s : i = task[t].id /\ s = Entry(t).subject
    OBVIOUS
<1>1. task[t].pc = "entry" /\ TaskAt(t, "entry") /\ i # 0 /\ UNCHANGED <<capBorn, contested>> /\ s \in Subjects
      BY WantedSubject DEF ImportUpdates, TaskAt
<1>2. i \in CapIds /\ i \in Hand(task[t])
      BY <1>1 DEF CapInv, CapHeld, Hand
<1>3. CASE NextEntry(t) /\ UNCHANGED cap
      BY <1>1, <1>3, CapRowsRest, NextEntryGoes DEF CapInv, CapTypes
<1>4. ASSUME Listed(i), cap' = [cap EXCEPT ![i].subject = s], TaskPut(t, Wrote(task[t], "changed", i, s)) PROVE TaskGoes(t)
  <2>1. cap[i] \in CapRow /\ i <= capBorn
        BY <1>2, <1>4, ListedRow
  <2>2. PICK row \in CapRow :
             row.op = cap[i].op /\ row.missed = cap[i].missed /\ row.subject = s /\ cap' = [cap EXCEPT ![i] = row]
    <3> DEFINE new == [cap[i] EXCEPT !.subject = s]
    <3>1. new \in CapRow /\ new.op = cap[i].op /\ new.missed = cap[i].missed /\ new.subject = s
          BY <1>1, <2>1 DEF CapRow
    <3>2. cap' = [cap EXCEPT ![i] = new]
          BY <1>4
    <3> HIDE DEF new
    <3> QED BY <3>1, <3>2
  <2>4. RowsKept(t) /\ cap'[i] = row
    <3>1. RowChange(t, i, row)
          BY <1>1, <1>2, <1>4, <2>2 DEF RowChange
    <3> QED BY <1>2, <3>1, RowChanges
  <2>5. Listed(i)' /\ cap'[i].subject = s
        BY <2>2, <2>4, CapRowIsThere DEF Listed
  <2>6. i <= capBorn'
        BY <1>1, <2>1
  <2> QED BY <1>1, <1>2, <1>4, <2>4, <2>5, <2>6, WroteGoes
<1>5. \/ NextEntry(t) /\ UNCHANGED cap
      \/ Listed(i) /\ cap' = [cap EXCEPT ![i].subject = s] /\ TaskPut(t, [task[t] EXCEPT !.pc = "changed", !.subject = s])
      BY DEF ImportUpdates
<1>6. [task[t] EXCEPT !.pc = "changed", !.subject = s] = Wrote(task[t], "changed", i, s)
  <2> PICK k : k = task[t]
      OBVIOUS
  <2>1. k \in TaskRecords
        BY DEF CapInv, CapTypes
  <2> PICK changed : changed = [k EXCEPT !.pc = "changed"]
      OBVIOUS
  <2>2. changed \in TaskRecords /\ changed.id = i
        BY <2>1 DEF TaskRecords
  <2>3. [changed EXCEPT !.id = i] = changed
        BY <2>2 DEF TaskRecords
  <2> QED BY <2>3 DEF Wrote
<1> QED BY <1>3, <1>4, <1>5, <1>6

LEMMA CreatesGoes == ASSUME CapInv, NEW t \in Tasks, ImportCreates(t) PROVE TaskGoes(t)
<1> PICK i, s, o : i = capBorn + 1 /\ s = Entry(t).subject /\ o = task[t].op
    OBVIOUS
<1>1. task[t].pc = "entry" /\ TaskAt(t, "entry") /\ s \in Subjects /\ o \in Operations /\ UNCHANGED contested
      BY WantedSubject DEF ImportCreates, TaskAt
<1>2. CASE NextEntry(t) /\ UNCHANGED <<cap, capBorn>>
      BY <1>1, <1>2, CapRowsRest, NextEntryGoes DEF CapInv, CapTypes
<1>3. ASSUME capBorn < MaxCaps, capBorn' = i, cap' = [cap EXCEPT ![i] = [op |-> o, subject |-> s, missed |-> FALSE]],
             TaskPut(t, Wrote(task[t], "created", i, s))
      PROVE  TaskGoes(t)
  <2> PICK row : row = [op |-> o, subject |-> s, missed |-> FALSE]
      OBVIOUS
  <2>1. row \in CapRow /\ row.subject = s
        BY <1>1 DEF CapRow
  <2>2. capBorn \in Nat /\ i \in CapIds /\ i > capBorn /\ capBorn <= i
    <3>1. MaxCaps \in Nat /\ capBorn \in Nat
          BY CapNumbers DEF CapInv, CapTypes
    <3> QED BY <1>3, <3>1 DEF CapIds
  <2>3. cap' \in [CapIds -> CapRow \cup {NoCap}] /\ cap'[i] = row /\ \A j \in CapIds \ {i} : cap'[j] = cap[j]
        BY <1>3, <2>1, <2>2 DEF CapInv, CapTypes
  <2>4. ASSUME NEW j \in CapIds, Listed(j)' PROVE j <= capBorn'
    <3>1. CASE j = i
          BY <1>3, <2>2, <3>1
    <3>2. CASE j # i
      <4>1. j <= capBorn /\ j \in Nat
        <5>1. Listed(j)
              BY <2>3, <2>4, <3>2 DEF Listed
        <5> QED BY <5>1, ListedRow
      <4> QED BY <1>3, <2>2, <4>1
    <3> QED BY <3>1, <3>2
  <2>5. ASSUME NEW j \in CapIds, j <= capBorn PROVE cap'[j] = cap[j]
    <3>1. j \in Nat
          BY CapIdsNat
    <3> QED BY <2>2, <2>3, <2>5, <3>1
  <2>6. RowsKept(t)
    <3>1. capBorn' \in Nat /\ capBorn <= capBorn' /\ contested \subseteq contested' /\ contested' \subseteq CapIds
          BY <1>1, <1>3, <2>2 DEF CapInv, CapTypes
    <3>2. \A j \in CapIds : j <= capBorn =>
             /\ Listed(j)' => Listed(j) /\ cap'[j].op = cap[j].op /\ (cap[j].missed => cap'[j].missed)
             /\ j \notin Hand(task[t]) => cap'[j] = cap[j]
          BY <2>5 DEF Listed
    <3> QED BY <2>3, <2>4, <3>1, <3>2 DEF RowsKept
  <2>7. Listed(i)' /\ cap'[i].subject = s /\ i <= capBorn'
    <3>1. row # NoCap
          BY <2>1, CapRowIsThere
    <3>2. i <= capBorn'
          BY <1>3, <2>2
    <3> QED BY <2>1, <2>3, <3>1, <3>2 DEF Listed
  <2> QED BY <1>1, <1>3, <2>2, <2>6, <2>7, WroteGoes
<1>4. \/ NextEntry(t) /\ UNCHANGED <<cap, capBorn>>
      \/ /\ capBorn < MaxCaps /\ capBorn' = i /\ cap' = [cap EXCEPT ![i] = [op |-> o, subject |-> s, missed |-> FALSE]]
         /\ TaskPut(t, Wrote(task[t], "created", i, s))
      BY DEF ImportCreates, Wrote
<1> QED BY <1>2, <1>3, <1>4

LEMMA EmbedsGoes == ASSUME CapInv, NEW t \in Tasks, ImportEmbeds(t) PROVE TaskGoes(t)
<1>1. task[t].pc \in {"created", "changed"} /\ NextEntry(t) /\ UNCHANGED <<cap, capBorn, contested>>
      BY DEF ImportEmbeds, TaskAt, VectorCreated, VectorUpdated
<1> QED BY <1>1, CapRowsRest, NextEntryGoes DEF CapInv, CapTypes

(* Tasks that go through copies of rows.                                   *)
Copied(ids) == {[id |-> i, subject |-> cap[i].subject] : i \in ids}

Taking(pc, rows) == [Resting EXCEPT !.pc = pc, !.rows = rows]

LEMMA TakingTyped ==
    ASSUME NEW pc \in {"mark", "clean", "sync"}, NEW rows \in SUBSET CapCopies, NEW r, r = Taking(pc, rows)
    PROVE  r \in TaskRecords /\ r.pc = pc /\ r.rows = rows /\ r.id = 0
<1>1. r \in TaskRecords
      BY RestingTyped DEF TaskRecords, Taking
<1>2. r.pc = pc /\ r.rows = rows /\ r.id = 0
      BY DEF Resting, Taking
<1> QED BY <1>1, <1>2

LEMMA CopiesGo ==
    ASSUME CapInv, NEW t \in Tasks, UNCHANGED <<cap, capBorn>>, NEW ids \in SUBSET CapIds, \A i \in ids : Listed(i),
           NEW pc \in {"mark", "clean", "sync"}, pc = "clean" => \A i \in ids : cap[i].missed,
           TaskPut(t, Taking(pc, Copied(ids))),
           contested' = contested \cup {i \in ids : \E u \in Tasks \ {t} : i \in InHand(u)}
    PROVE  TaskGoes(t)
<1> PICK rows : rows = Copied(ids)
    OBVIOUS
<1>1. \A i \in ids : cap[i] \in CapRow /\ i <= capBorn /\ cap[i].subject \in Subjects
  <2> SUFFICES ASSUME NEW i \in ids PROVE cap[i] \in CapRow /\ i <= capBorn /\ cap[i].subject \in Subjects
      OBVIOUS
  <2>1. cap[i] \in CapRow /\ i <= capBorn
        BY ListedRow
  <2> QED BY <2>1 DEF CapRow
<1>2. \A m \in rows : m.id \in ids /\ m.subject = cap[m.id].subject /\ m \in CapCopies
      BY <1>1 DEF Copied, CapCopies
<1>3. \A m, n \in rows : m.id = n.id => m = n
      BY DEF Copied
<1> PICK r : r = Taking(pc, rows)
    OBVIOUS
<1>4. r \in TaskRecords /\ r.pc = pc /\ r.rows = rows /\ r.id = 0
      BY <1>2, TakingTyped
<1>5. contested \subseteq contested' /\ contested' \subseteq CapIds
      BY DEF CapInv, CapTypes
<1>6. RowsKept(t)
      BY <1>5, CapRowsRest
<1>7. CapHeld(r)
      BY <1>1, <1>2, <1>3, <1>4 DEF CapHeld, KnownAs, CapInv, CapTypes
<1>8. CapHeld(r)'
      BY <1>5, <1>7, HeldStill
<1>9. HandGoes(t, r)
      BY <1>2, <1>4 DEF HandGoes, Hand, InHand
<1> QED BY <1>4, <1>6, <1>8, <1>9 DEF TaskGoes

LEMMA EndsGoes == ASSUME CapInv, NEW t \in Tasks, ImportEnds(t) PROVE TaskGoes(t)
<1> PICK gone : gone = {i \in CapIds : cap[i].op \in task[t].prefix \ DOMAIN task[t].doc}
    OBVIOUS
<1>1. UNCHANGED <<cap, capBorn>>
      BY DEF ImportEnds
<1>2. CASE TaskEnds(t) /\ UNCHANGED contested
      BY <1>1, <1>2, CapRowsRest, EndingGoes DEF CapInv, CapTypes
<1>3. CASE /\ TaskPut(t, Taking("mark", Copied(gone)))
           /\ contested' = contested \cup {i \in gone : \E u \in Tasks \ {t} : i \in InHand(u)}
  <2>1. task[t].prefix \subseteq Operations
        BY DEF CapInv, CapTypes, TaskRecords
  <2>2. gone \in SUBSET CapIds /\ \A i \in gone : Listed(i)
        BY <2>1, NamedIsListed
  <2> QED BY <1>1, <1>3, <2>2, CopiesGo
<1> QED BY <1>2, <1>3 DEF ImportEnds, Taking, Copied

LEMMA TakeGoes ==
    ASSUME CapInv, NEW t \in Tasks, NEW pc \in {"mark", "clean", "sync"}, NEW ids \in SUBSET CapIds,
           \A i \in ids : Listed(i), pc = "clean" => \A i \in ids : cap[i].missed, TakeRows(t, pc, ids)
    PROVE  TaskGoes(t)
<1>1. /\ UNCHANGED <<cap, capBorn>> /\ TaskPut(t, Taking(pc, Copied(ids)))
      /\ contested' = contested \cup {i \in ids : \E u \in Tasks \ {t} : i \in InHand(u)}
      BY DEF TakeRows, Taking, Copied
<1> QED BY <1>1, CopiesGo

LEMMA CleanupBeginsGoes == ASSUME CapInv, NEW t \in Tasks, CleanupBegins(t) PROVE TaskGoes(t)
<1>1. PICK x \in Prefixes \cup {Operations} : TakeRows(t, "clean", {i \in CapIds : cap[i].missed /\ cap[i].op \in x})
      BY DEF CleanupBegins
<1> PICK ids : ids = {i \in CapIds : cap[i].missed /\ cap[i].op \in x}
    OBVIOUS
<1>2. ids \in SUBSET CapIds /\ (\A i \in ids : Listed(i)) /\ \A i \in ids : cap[i].missed
      BY NamedIsListed
<1> QED BY <1>1, <1>2, TakeGoes

LEMMA SyncBeginsGoes == ASSUME CapInv, NEW t \in Tasks, SyncBegins(t) PROVE TaskGoes(t)
<1> PICK ids : ids = {i \in CapIds : Listed(i)}
    OBVIOUS
<1>1. ids \in SUBSET CapIds /\ \A i \in ids : Listed(i)
      OBVIOUS
<1>2. TakeRows(t, "sync", ids)
      BY DEF SyncBegins
<1> QED BY <1>1, <1>2, TakeGoes

(* A task goes on with some of its copies, of rows that are as it knows.   *)
LEMMA FewerGo ==
    ASSUME CapInv, NEW t \in Tasks, RowsKept(t), NEW r \in TaskRecords, r.rows \subseteq task[t].rows, r.id = 0,
           r.pc \in {"mark", "clean", "sync"}, r.pc = "clean" => task[t].pc = "clean",
           \A m \in r.rows : m.id \notin contested => Listed(m.id)' /\ cap'[m.id].subject = m.subject,
           TaskPut(t, r)
    PROVE  TaskGoes(t)
<1> PICK k : k = task[t]
    OBVIOUS
<1>1. k \in TaskRecords /\ CapHeld(k) /\ capBorn \in Nat
      BY DEF CapInv, CapTypes
<1>2. capBorn' \in Nat /\ capBorn <= capBorn' /\ contested \subseteq contested'
      BY DEF RowsKept
<1>3. ASSUME NEW m \in r.rows PROVE m.id \in CapIds /\ m.id \in Nat /\ m.id <= capBorn /\ m \in k.rows
  <2>1. m \in k.rows /\ m \in CapCopies
        BY <1>1, <1>3 DEF TaskRecords
  <2>2. m.id \in CapIds /\ m.id <= capBorn
        BY <1>1, <2>1 DEF CapCopies, CapHeld
  <2> QED BY <2>1, <2>2, CapIdsNat
<1>4. \A m \in r.rows : m.id <= capBorn' /\ KnownAs(m.id, m.subject)'
      BY <1>1, <1>2, <1>3 DEF KnownAs, Listed
<1>5. r.pc = "clean" => \A m \in r.rows : Listed(m.id)' => cap'[m.id].missed
  <2> SUFFICES ASSUME r.pc = "clean", NEW m \in r.rows, Listed(m.id)' PROVE cap'[m.id].missed
      OBVIOUS
  <2>1. m.id \in CapIds /\ m.id <= capBorn /\ (Listed(m.id) => cap[m.id].missed)
        BY <1>1, <1>3 DEF CapHeld
  <2> QED BY <2>1 DEF RowsKept
<1>6. \A m, n \in r.rows : m.id = n.id => m = n
      BY <1>1 DEF CapHeld
<1>7. CapHeld(r)'
  <2>1. r.id <= capBorn' /\ r.id = 0
        BY <1>2
  <2> QED BY <1>4, <1>5, <1>6, <2>1 DEF CapHeld
<1>8. HandGoes(t, r)
      BY DEF HandGoes, Hand
<1> QED BY <1>7, <1>8 DEF TaskGoes

(* The copies a task has and the rows, when it touches no other row.       *)
LEMMA CopiesKnown ==
    ASSUME CapInv, NEW t \in Tasks, NEW m \in task[t].rows
    PROVE  /\ m.id \in CapIds /\ m.subject \in Subjects /\ m.id \in Hand(task[t])
           /\ m.id \notin contested => Listed(m.id) /\ cap[m.id].subject = m.subject
           /\ \A n \in task[t].rows : n.id = m.id => n = m
<1> PICK k : k = task[t]
    OBVIOUS
<1>1. k \in TaskRecords /\ CapHeld(k)
      BY DEF CapInv, CapTypes
<1>2. m \in CapCopies
      BY <1>1 DEF TaskRecords
<1>3. KnownAs(m.id, m.subject) /\ \A n \in k.rows : n.id = m.id => n = m
      BY <1>1 DEF CapHeld
<1> QED BY <1>2, <1>3 DEF CapCopies, KnownAs, Hand

(* A task that takes one of its copies off, or all but one of them.        *)
LEMMA RestGoes ==
    ASSUME CapInv, NEW t \in Tasks, RowsKept(t), task[t].pc \in {"mark", "clean", "sync"},
           NEW rest \in SUBSET task[t].rows,
           \A m \in rest : m.id \notin contested => Listed(m.id)' /\ cap'[m.id].subject = m.subject,
           TaskPut(t, [task[t] EXCEPT !.rows = rest])
    PROVE  TaskGoes(t)
<1> PICK k : k = task[t]
    OBVIOUS
<1>1. k \in TaskRecords /\ CapHeld(k)
      BY DEF CapInv, CapTypes
<1>2. k.id = 0
      BY <1>1 DEF CapHeld
<1> PICK r : r = [k EXCEPT !.rows = rest]
    OBVIOUS
<1>3. r \in TaskRecords /\ r.rows = rest /\ r.id = k.id /\ r.pc = k.pc
      BY <1>1 DEF TaskRecords
<1>4. TaskPut(t, r)
      OBVIOUS
<1> QED BY <1>2, <1>3, <1>4, FewerGo

NextMark(k, rest) == [k EXCEPT !.pc = "mark", !.rows = rest, !.id = 0]

LEMMA NextMarkTyped ==
    ASSUME NEW k \in TaskRecords, NEW rest \in SUBSET k.rows, NEW r, r = NextMark(k, rest)
    PROVE  r \in TaskRecords /\ r.pc = "mark" /\ r.rows = rest /\ r.id = 0
<1>1. k.rows \subseteq CapCopies
      BY DEF TaskRecords
<1>2. r \in TaskRecords
      BY <1>1 DEF TaskRecords, NextMark
<1>3. {"pc", "rows", "id"} \subseteq DOMAIN k
      BY DEF TaskRecords
<1>4. r.pc = "mark" /\ r.rows = rest /\ r.id = 0
      BY <1>3 DEF NextMark
<1> QED BY <1>2, <1>4

LEMMA MarkedGoes == ASSUME CapInv, NEW t \in Tasks, ImportMarked(t) PROVE TaskGoes(t)
<1>1. RowsKept(t) /\ cap' = cap
      BY CapRowsRest DEF ImportMarked, CapInv, CapTypes
<1>2. CASE TaskEnds(t)
      BY <1>1, <1>2, EndingGoes
<1>3. CASE NextRow(t, "mark") /\ ~TaskEnds(t)
  <2> PICK k, rest : k = task[t] /\ rest = {m \in task[t].rows : m.id # task[t].id}
      OBVIOUS
  <2>1. TaskPut(t, NextMark(k, rest))
        BY <1>3 DEF NextRow, NextMark
  <2> PICK r : r = NextMark(k, rest)
      OBVIOUS
  <2>2. r \in TaskRecords /\ r.pc = "mark" /\ r.rows = rest /\ r.id = 0 /\ rest \subseteq task[t].rows
    <3>1. k \in TaskRecords /\ rest \in SUBSET k.rows
          BY DEF CapInv, CapTypes
    <3> QED BY <3>1, NextMarkTyped
  <2>3. \A m \in r.rows : m.id \notin contested => Listed(m.id)' /\ cap'[m.id].subject = m.subject
    <3> SUFFICES ASSUME NEW m \in r.rows, m.id \notin contested PROVE Listed(m.id)' /\ cap'[m.id].subject = m.subject
        OBVIOUS
    <3>1. Listed(m.id) /\ cap[m.id].subject = m.subject
          BY <2>2, CopiesKnown
    <3> QED BY <1>1, <3>1 DEF Listed
  <2>4. TaskPut(t, r)
        BY <2>1
  <2> QED BY <1>1, <2>2, <2>3, <2>4, FewerGo
<1> QED BY <1>2, <1>3 DEF ImportMarked, VectorUpdated

LEMMA RestKnown ==
    ASSUME CapInv, NEW t \in Tasks, NEW m \in task[t].rows,
           \A i \in CapIds \ {m.id} : cap'[i] = cap[i]
    PROVE  \A n \in task[t].rows \ {m} : n.id \notin contested => Listed(n.id)' /\ cap'[n.id].subject = n.subject
<1> SUFFICES ASSUME NEW n \in task[t].rows \ {m}, n.id \notin contested
             PROVE  Listed(n.id)' /\ cap'[n.id].subject = n.subject
    OBVIOUS
<1>1. n.id \in CapIds \ {m.id} /\ Listed(n.id) /\ cap[n.id].subject = n.subject
      BY CopiesKnown
<1> QED BY <1>1 DEF Listed

(* A mark leaves everything else of the row.                               *)
LEMMA MarkChanges ==
    ASSUME CapInv, NEW t \in Tasks, UNCHANGED <<capBorn, contested>>, NEW i \in CapIds, i \in Hand(task[t]), Listed(i),
           cap' = [cap EXCEPT ![i].missed = TRUE]
    PROVE  RowsKept(t) /\ \A j \in CapIds : (Listed(j)' <=> Listed(j)) /\ cap'[j].subject = cap[j].subject
<1>1. cap[i] \in CapRow
      BY ListedRow
<1>2. PICK row \in CapRow :
           row.op = cap[i].op /\ row.missed /\ row.subject = cap[i].subject /\ cap' = [cap EXCEPT ![i] = row]
  <2> DEFINE new == [cap[i] EXCEPT !.missed = TRUE]
  <2>1. new \in CapRow /\ new.op = cap[i].op /\ new.missed /\ new.subject = cap[i].subject
        BY <1>1 DEF CapRow
  <2>2. cap' = [cap EXCEPT ![i] = new]
        OBVIOUS
  <2> HIDE DEF new
  <2> QED BY <2>1, <2>2
<1>3. RowChange(t, i, row)
      BY <1>2 DEF RowChange
<1>4. RowsKept(t) /\ cap'[i] = row /\ \A j \in CapIds \ {i} : cap'[j] = cap[j]
      BY <1>3, RowChanges
<1>5. row # NoCap
      BY CapRowIsThere
<1> QED BY <1>2, <1>4, <1>5 DEF Listed

Marked(k, i, s) == [k EXCEPT !.pc = "marked", !.id = i, !.subject = s]

LEMMA MarkedTyped ==
    ASSUME NEW k \in TaskRecords, NEW i \in CapIds, NEW s \in Subjects, NEW r, r = Marked(k, i, s)
    PROVE  r \in TaskRecords /\ r.pc = "marked" /\ r.rows = k.rows /\ r.id = i /\ r.subject = s
<1>1. i \in Nat
      BY CapIdsNat
<1>2. r \in TaskRecords
      BY <1>1 DEF TaskRecords, Marked
<1>3. {"pc", "rows", "id", "subject"} \subseteq DOMAIN k
      BY DEF TaskRecords
<1>4. r.pc = "marked" /\ r.rows = k.rows /\ r.id = i /\ r.subject = s
      BY <1>3 DEF Marked
<1> QED BY <1>2, <1>4

LEMMA MarksGoes == ASSUME CapInv, NEW t \in Tasks, ImportMarks(t) PROVE TaskGoes(t)
<1> PICK k : k = task[t]
    OBVIOUS
<1>1. PICK m \in k.rows :
           /\ k.pc = "mark" /\ UNCHANGED <<capBorn, contested>>
           /\ \/ /\ Listed(m.id) /\ cap' = [cap EXCEPT ![m.id].missed = TRUE]
                 /\ TaskPut(t, Marked(k, m.id, cap[m.id].subject))
              \/ TaskPut(t, [k EXCEPT !.rows = k.rows \ {m}]) /\ UNCHANGED cap
      BY DEF ImportMarks, TaskAt, Marked
<1>2. k \in TaskRecords /\ CapHeld(k)
      BY DEF CapInv, CapTypes
<1>3. m.id \in CapIds /\ m.id \in Hand(k)
      BY CopiesKnown
<1>4. CASE TaskPut(t, [k EXCEPT !.rows = k.rows \ {m}]) /\ UNCHANGED cap
  <2>1. RowsKept(t) /\ \A i \in CapIds \ {m.id} : cap'[i] = cap[i]
        BY <1>1, <1>4, CapRowsRest DEF CapInv, CapTypes
  <2>2. \A n \in k.rows \ {m} : n.id \notin contested => Listed(n.id)' /\ cap'[n.id].subject = n.subject
        BY <2>1, RestKnown
  <2> PICK rest : rest = k.rows \ {m}
      OBVIOUS
  <2>3. rest \in SUBSET task[t].rows /\ TaskPut(t, [task[t] EXCEPT !.rows = rest])
        BY <1>4
  <2> QED BY <1>1, <2>1, <2>2, <2>3, RestGoes
<1>5. ASSUME Listed(m.id), cap' = [cap EXCEPT ![m.id].missed = TRUE], TaskPut(t, Marked(k, m.id, cap[m.id].subject))
      PROVE  TaskGoes(t)
  <2>1. RowsKept(t) /\ \A j \in CapIds : (Listed(j)' <=> Listed(j)) /\ cap'[j].subject = cap[j].subject
        BY <1>1, <1>3, <1>5, MarkChanges
  <2> PICK s : s = cap[m.id].subject
      OBVIOUS
  <2>2. s \in Subjects
    <3>1. cap[m.id] \in CapRow
          BY <1>3, <1>5, ListedRow
    <3> QED BY <3>1 DEF CapRow
  <2> PICK r : r = Marked(k, m.id, s)
      OBVIOUS
  <2>3. r \in TaskRecords /\ r.pc = "marked" /\ r.rows = k.rows /\ r.id = m.id /\ r.subject = s
        BY <1>2, <1>3, <2>2, MarkedTyped
  <2>4. m.id <= capBorn /\ capBorn' = capBorn /\ contested' = contested /\ TaskPut(t, r)
        BY <1>1, <1>3, <1>5, ListedRow
  <2>5. \A n \in r.rows : n.id <= capBorn' /\ KnownAs(n.id, n.subject)'
    <3> SUFFICES ASSUME NEW n \in r.rows PROVE n.id <= capBorn' /\ KnownAs(n.id, n.subject)'
        OBVIOUS
    <3>1. n.id <= capBorn /\ n.id \in CapIds /\ (n.id \notin contested => Listed(n.id) /\ cap[n.id].subject = n.subject)
          BY <1>2, <2>3, CopiesKnown DEF CapHeld
    <3> QED BY <2>1, <2>4, <3>1 DEF KnownAs, Listed
  <2>6. KnownAs(r.id, r.subject)'
        BY <1>3, <1>5, <2>1, <2>3 DEF KnownAs, Listed
  <2>7. \A n, o \in r.rows : n.id = o.id => n = o
        BY <1>2, <2>3 DEF CapHeld
  <2>8. CapHeld(r)'
        BY <1>3, <2>2, <2>3, <2>4, <2>5, <2>6, <2>7 DEF CapHeld, KnownAs, Listed
  <2>9. HandGoes(t, r)
        BY <1>3, <2>3 DEF HandGoes, Hand
  <2> QED BY <2>1, <2>3, <2>4, <2>8, <2>9 DEF TaskGoes
<1> QED BY <1>1, <1>4, <1>5

LEMMA CleanupGoes == ASSUME CapInv, NEW t \in Tasks, CleanupDeletes(t) PROVE TaskGoes(t)
<1>1. PICK m \in task[t].rows :
           /\ task[t].pc = "clean" /\ UNCHANGED <<capBorn, contested>>
           /\ TaskEnds(t) \/ TaskPut(t, [task[t] EXCEPT !.rows = task[t].rows \ {m}])
           /\ UNCHANGED cap \/ (Listed(m.id) /\ cap' = [cap EXCEPT ![m.id] = NoCap])
      BY DEF CleanupDeletes, Removed, TaskAt
<1>2. m.id \in CapIds /\ m.id \in Hand(task[t])
      BY CopiesKnown
<1>3. RowsKept(t) /\ \A i \in CapIds \ {m.id} : cap'[i] = cap[i]
  <2>1. CASE UNCHANGED cap
        BY <1>1, <2>1, CapRowsRest DEF CapInv, CapTypes
  <2>2. CASE Listed(m.id) /\ cap' = [cap EXCEPT ![m.id] = NoCap]
    <3>1. NoCap \notin CapRow
          BY CapRowIsThere
    <3>2. RowChange(t, m.id, NoCap)
          BY <1>1, <1>2, <2>2, <3>1 DEF RowChange
    <3> QED BY <1>2, <3>2, RowChanges
  <2> QED BY <1>1, <2>1, <2>2
<1>4. \A n \in task[t].rows \ {m} : n.id \notin contested => Listed(n.id)' /\ cap'[n.id].subject = n.subject
      BY <1>3, RestKnown
<1> PICK rest : rest = task[t].rows \ {m}
    OBVIOUS
<1>5. rest \in SUBSET task[t].rows /\ (TaskEnds(t) \/ TaskPut(t, [task[t] EXCEPT !.rows = rest]))
      BY <1>1
<1> QED BY <1>1, <1>3, <1>4, <1>5, RestGoes, EndingGoes

LEMMA SyncGoes == ASSUME CapInv, NEW t \in Tasks, SyncEmbeds(t) PROVE TaskGoes(t)
<1>1. PICK m \in task[t].rows :
           /\ task[t].pc = "sync" /\ UNCHANGED <<cap, capBorn, contested>>
           /\ TaskEnds(t) \/ TaskPut(t, [task[t] EXCEPT !.rows = task[t].rows \ {m}])
      BY DEF SyncEmbeds, VectorUpdated, TaskAt
<1>2. RowsKept(t) /\ \A i \in CapIds \ {m.id} : cap'[i] = cap[i]
      BY <1>1, CapRowsRest DEF CapInv, CapTypes
<1>3. \A n \in task[t].rows \ {m} : n.id \notin contested => Listed(n.id)' /\ cap'[n.id].subject = n.subject
      BY <1>2, RestKnown
<1> PICK rest : rest = task[t].rows \ {m}
    OBVIOUS
<1>4. rest \in SUBSET task[t].rows /\ (TaskEnds(t) \/ TaskPut(t, [task[t] EXCEPT !.rows = rest]))
      BY <1>1
<1> QED BY <1>1, <1>2, <1>3, <1>4, RestGoes, EndingGoes

(* What is shown of some candidates is some of them, not more than asked   *)
(* for.                                                                    *)
LEMMA ShownSome ==
    ASSUME NEW ids, IsFiniteSet(ids), ids # {}, NEW s \in Shown(ids)
    PROVE  s # {} /\ s \subseteq ids /\ Cardinality(s) <= CapLimit
<1>1. CASE Cardinality(ids) <= CapLimit
      BY <1>1 DEF Shown
<1>2. CASE ~(Cardinality(ids) <= CapLimit)
  <2>1. s \subseteq ids /\ Cardinality(s) = CapLimit
        BY <1>2 DEF Shown, kSubset
  <2>2. Cardinality({}) = 0 /\ CapLimit \in Nat \ {0}
        BY FS_EmptySet, CapNumbers
  <2> QED BY <2>1, <2>2
<1> QED BY <1>1, <1>2

LEMMA IdsAreFinite == \A h \in SUBSET CapIds : IsFiniteSet(h)
<1>1. MaxCaps \in Nat
      BY CapNumbers
<1>2. IsFiniteSet(CapIds)
      BY <1>1, FS_Interval DEF CapIds
<1> QED BY <1>2, FS_Subset

LEMMA VectorsGoes == ASSUME CapInv, NEW t \in Tasks, MatchVectors(t) PROVE TaskGoes(t)
<1>1. RowsKept(t)
      BY CapRowsRest DEF MatchVectors, CapInv, CapTypes
<1>2. PICK q \in Subjects, h \in SUBSET CapIds : TaskPut(t, [Resting EXCEPT !.pc = "load", !.query = q, !.hits = h])
  <2>1. PICK q \in Subjects : \E n : \E h \in kSubset(n, {i \in CapIds : q \in capVec[i]}) :
             TaskPut(t, [Resting EXCEPT !.pc = "load", !.query = q, !.hits = h])
        BY DEF MatchVectors
  <2>2. PICK n : \E h \in kSubset(n, {i \in CapIds : q \in capVec[i]}) :
             TaskPut(t, [Resting EXCEPT !.pc = "load", !.query = q, !.hits = h])
        BY <2>1
  <2>3. PICK h \in kSubset(n, {i \in CapIds : q \in capVec[i]}) :
             TaskPut(t, [Resting EXCEPT !.pc = "load", !.query = q, !.hits = h])
        BY <2>2
  <2>4. h \in SUBSET CapIds
        BY <2>3 DEF kSubset
  <2> QED BY <2>3, <2>4
<1> PICK r : r = [Resting EXCEPT !.pc = "load", !.query = q, !.hits = h]
    OBVIOUS
<1>3. r \in TaskRecords /\ r.id = 0 /\ r.rows = {} /\ r.pc = "load"
      BY RestingTyped DEF Resting, TaskRecords
<1>4. Plain(r)
      BY <1>3 DEF Plain
<1> QED BY <1>1, <1>2, <1>4, PlainGoes

(* A search keeps to what it has when it goes on.                          *)
Going(k, pc, hits, found) == [k EXCEPT !.pc = pc, !.hits = hits, !.found = found]

LEMMA GoingPlain ==
    ASSUME NEW k \in TaskRecords, k.id = 0, k.rows = {}, NEW pc \in {"rerank", "shown"},
           NEW hits \in SUBSET CapIds, hits # {}, NEW found \in SUBSET CapIds,
           pc = "shown" => found # {} /\ found \subseteq hits /\ Cardinality(found) <= CapLimit,
           NEW r, r = Going(k, pc, hits, found)
    PROVE  Plain(r)
<1>1. r \in TaskRecords
      BY DEF TaskRecords, Going
<1>2. {"pc", "rows", "id", "hits", "found"} \subseteq DOMAIN k
      BY DEF TaskRecords
<1>3. r.pc = pc /\ r.rows = k.rows /\ r.id = k.id /\ r.hits = hits /\ r.found = found
      BY <1>2 DEF Going
<1> QED BY <1>1, <1>3 DEF Plain

LEMMA GoingGoes ==
    ASSUME CapInv, NEW t \in Tasks, RowsKept(t), task[t].pc \in {"load", "rerank"}, NEW pc \in {"rerank", "shown"},
           NEW hits \in SUBSET CapIds, hits # {}, NEW found \in SUBSET CapIds,
           pc = "shown" => found # {} /\ found \subseteq hits /\ Cardinality(found) <= CapLimit,
           TaskPut(t, Going(task[t], pc, hits, found))
    PROVE  TaskGoes(t)
<1> PICK k : k = task[t]
    OBVIOUS
<1>1. k \in TaskRecords /\ k.id = 0 /\ k.rows = {}
      BY DEF CapInv, CapTypes, CapHeld
<1> PICK r : r = Going(k, pc, hits, found)
    OBVIOUS
<1>2. Plain(r)
      BY <1>1, GoingPlain
<1>3. TaskPut(t, r)
      OBVIOUS
<1> QED BY <1>2, <1>3, PlainGoes

LEMMA LoadsGoes == ASSUME CapInv, NEW t \in Tasks, MatchLoads(t) PROVE TaskGoes(t)
<1> PICK k, ids : k = task[t] /\ ids = {i \in task[t].hits : Listed(i)}
    OBVIOUS
<1>1. RowsKept(t) /\ k.pc = "load"
      BY CapRowsRest DEF MatchLoads, TaskAt, CapInv, CapTypes
<1>2. k \in TaskRecords
      BY DEF CapInv, CapTypes
<1>3. k.found \in SUBSET CapIds /\ ids \in SUBSET CapIds
      BY <1>2 DEF TaskRecords
<1>4. \/ TaskEnds(t)
      \/ ids # {} /\ TaskPut(t, [k EXCEPT !.pc = "rerank", !.hits = ids])
      \/ ids # {} /\ ~(Cardinality(ids) > CapLimit) /\ TaskPut(t, Going(k, "shown", ids, ids))
      BY DEF MatchLoads, Going
<1>5. CASE TaskEnds(t)
      BY <1>1, <1>5, EndingGoes
<1>6. ASSUME ids # {}, TaskPut(t, [k EXCEPT !.pc = "rerank", !.hits = ids]) PROVE TaskGoes(t)
  <2> PICK r : r = [k EXCEPT !.pc = "rerank", !.hits = ids]
      OBVIOUS
  <2>1. r \in TaskRecords /\ r.pc = "rerank" /\ r.hits = ids /\ r.id = k.id /\ r.rows = k.rows
        BY <1>2, <1>3 DEF TaskRecords
  <2>2. k.id = 0 /\ k.rows = {}
        BY <1>1 DEF CapInv, CapHeld
  <2>3. Plain(r)
        BY <1>6, <2>1, <2>2 DEF Plain
  <2> QED BY <1>1, <1>6, <2>3, PlainGoes
<1>7. ASSUME ids # {}, ~(Cardinality(ids) > CapLimit), TaskPut(t, Going(k, "shown", ids, ids)) PROVE TaskGoes(t)
  <2>1. Cardinality(ids) <= CapLimit
    <3>1. Cardinality(ids) \in Nat /\ CapLimit \in Nat
          BY <1>3, IdsAreFinite, FS_CardinalityType, CapNumbers
    <3> QED BY <1>7, <3>1
  <2> QED BY <1>1, <1>3, <1>7, <2>1, GoingGoes
<1> QED BY <1>4, <1>5, <1>6, <1>7

LEMMA ShowsGoes ==
    ASSUME CapInv, NEW t \in Tasks, RowsKept(t), task[t].pc = "rerank", NEW ids \in SUBSET task[t].hits, ids # {},
           MatchShows(t, ids)
    PROVE  TaskGoes(t)
<1> PICK k : k = task[t]
    OBVIOUS
<1>1. k \in TaskRecords /\ k.hits \in SUBSET CapIds /\ k.hits # {}
      BY DEF CapInv, CapTypes, CapHeld, TaskRecords
<1>2. PICK s \in Shown(ids) : TaskPut(t, [k EXCEPT !.pc = "shown", !.found = s])
      BY DEF MatchShows
<1>3. s # {} /\ s \subseteq ids /\ Cardinality(s) <= CapLimit
      BY <1>1, IdsAreFinite, ShownSome
<1> PICK r : r = [k EXCEPT !.pc = "shown", !.found = s]
    OBVIOUS
<1>4. r \in TaskRecords /\ r.pc = "shown" /\ r.hits = k.hits /\ r.found = s /\ r.id = k.id /\ r.rows = k.rows
  <2>1. s \in SUBSET CapIds
        BY <1>1, <1>3
  <2> QED BY <1>1, <2>1 DEF TaskRecords
<1>5. k.id = 0 /\ k.rows = {}
      BY DEF CapInv, CapHeld
<1>6. Plain(r)
      BY <1>3, <1>4, <1>5 DEF Plain
<1> QED BY <1>2, <1>6, PlainGoes

LEMMA RerankGoes == ASSUME CapInv, NEW t \in Tasks, RerankFromCache(t) \/ RerankByModel(t) PROVE TaskGoes(t)
<1> PICK k : k = task[t]
    OBVIOUS
<1>1. RowsKept(t) /\ task[t].pc = "rerank"
      BY CapRowsRest DEF RerankFromCache, RerankByModel, TaskAt, CapInv, CapTypes
<1>2. task[t].hits # {}
      BY <1>1 DEF CapInv, CapHeld
<1>3. PICK ids \in SUBSET task[t].hits : ids # {} /\ MatchShows(t, ids)
  <2>1. CASE RerankFromCache(t)
        BY <2>1 DEF RerankFromCache, RebuildFromCache
  <2>2. CASE RerankByModel(t)
    <3>1. CASE MatchShows(t, task[t].hits)
          BY <1>2, <3>1
    <3>2. CASE \E r \in SUBSET task[t].hits : MatchShows(t, IF r = {} THEN task[t].hits ELSE r)
          BY <1>2, <3>2
    <3> QED BY <2>2, <3>1, <3>2 DEF RerankByModel
  <2> QED BY <2>1, <2>2
<1> QED BY <1>1, <1>3, ShowsGoes

LEMMA LeavesGoes == ASSUME CapInv, NEW t \in Tasks, MatchReturns(t) \/ TaskDies(t) PROVE TaskGoes(t)
<1>1. RowsKept(t) /\ TaskEnds(t)
      BY CapRowsRest DEF MatchReturns, TaskDies, CapInv, CapTypes
<1> QED BY <1>1, EndingGoes

LEMMA CapStepGoes == ASSUME CapInv, NEW t \in Tasks, CapStep(t) PROVE TaskGoes(t)
BY BeginsGoes, LookGoes, SkipsGoes, UpdatesGoes, CreatesGoes, EmbedsGoes, EndsGoes, MarksGoes, MarkedGoes,
   CleanupBeginsGoes, CleanupGoes, SyncBeginsGoes, SyncGoes, VectorsGoes, LoadsGoes, RerankGoes, LeavesGoes
   DEF CapStep

-----------------------------------------------------------------------------
(* Capabilities.  What a step does to the vectors.                         *)

VecsFollow ==
    /\ capVec' \in [CapIds -> SUBSET Subjects] /\ outdated' \subseteq CapIds
    /\ \A i \in CapIds : Follows(i)'

LEMMA OthersRest ==
    ASSUME CapInv, NEW t \in Tasks, TaskGoes(t)
    PROVE  \A u \in Tasks \ {t} : task'[u] = task[u]
<1>1. PICK r \in TaskRecords : TaskPut(t, r)
      BY DEF TaskGoes
<1> QED BY <1>1 DEF TaskPut, CapInv, CapTypes

(* A row the step writes neither itself nor the vectors of.                *)
LEMMA RowFollows ==
    ASSUME CapInv, NEW t \in Tasks, TaskGoes(t), NEW i \in CapIds,
           ~(task[t].pc \in {"created", "changed"} /\ task[t].id = i),
           cap'[i].subject = cap[i].subject, Listed(i)' <=> Listed(i), capVec'[i] = capVec[i], i \in outdated => i \in outdated'
    PROVE  Follows(i)'
<1>1. Rewritten(i) => Rewritten(i)'
      BY OthersRest DEF Rewritten
<1>2. contested \subseteq contested'
      BY DEF TaskGoes, RowsKept
<1>3. Follows(i)
      BY DEF CapInv
<1> QED BY <1>1, <1>2, <1>3 DEF Follows, Listed

LEMMA QuietFollow ==
    ASSUME CapInv, NEW t \in Tasks, TaskGoes(t), task[t].pc \notin {"created", "changed"}, UNCHANGED <<capVec, outdated>>,
           \A i \in CapIds : cap'[i].subject = cap[i].subject /\ (Listed(i)' <=> Listed(i))
    PROVE  VecsFollow
<1>1. \A i \in CapIds : Follows(i)'
      BY RowFollows
<1> QED BY <1>1 DEF VecsFollow, CapInv, CapTypes

LEMMA ReadsFollow ==
    ASSUME CapInv, NEW t \in Tasks, CapStep(t), task[t].pc \notin {"created", "changed"}, UNCHANGED <<cap, capVec, outdated>>
    PROVE  VecsFollow
<1>1. \A i \in CapIds : cap'[i].subject = cap[i].subject /\ (Listed(i)' <=> Listed(i))
      BY DEF Listed
<1> QED BY <1>1, CapStepGoes, QuietFollow

(* Row and vectors have gone together.                                     *)
LEMMA RemovedFollow ==
    ASSUME CapInv, NEW t \in Tasks, CapStep(t), task[t].pc \notin {"created", "changed"}, NEW i \in CapIds,
           cap' = [cap EXCEPT ![i] = NoCap], capVec' = [capVec EXCEPT ![i] = {}], UNCHANGED outdated
    PROVE  VecsFollow
<1>1. /\ cap'[i] = NoCap /\ capVec'[i] = {} /\ \A j \in CapIds \ {i} : cap'[j] = cap[j] /\ capVec'[j] = capVec[j]
      /\ capVec' \in [CapIds -> SUBSET Subjects]
      BY DEF CapInv, CapTypes
<1>2. Follows(i)'
      BY <1>1 DEF Follows, Listed
<1>3. \A j \in CapIds \ {i} : Follows(j)'
      BY <1>1, CapStepGoes, RowFollows DEF Listed
<1> QED BY <1>1, <1>2, <1>3 DEF VecsFollow, CapInv, CapTypes

LEMMA SkipsFollow == ASSUME CapInv, NEW t \in Tasks, ImportSkips(t) PROVE VecsFollow
<1>1. CapStep(t) /\ task[t].pc = "entry" /\ UNCHANGED outdated
      BY DEF CapStep, ImportSkips, TaskAt
<1>2. CASE UNCHANGED <<cap, capVec>>
      BY <1>1, <1>2, ReadsFollow
<1>3. ASSUME task[t].id # 0, cap' = [cap EXCEPT ![task[t].id] = NoCap], capVec' = [capVec EXCEPT ![task[t].id] = {}]
      PROVE  VecsFollow
  <2>1. task[t].id \in CapIds
        BY <1>1, <1>3 DEF CapInv, CapHeld
  <2> QED BY <1>1, <1>3, <2>1, RemovedFollow
<1> QED BY <1>2, <1>3 DEF ImportSkips, Removed

LEMMA CleanupFollow == ASSUME CapInv, NEW t \in Tasks, CleanupDeletes(t) PROVE VecsFollow
<1>1. CapStep(t) /\ task[t].pc = "clean" /\ UNCHANGED outdated
      BY DEF CapStep, CleanupDeletes, TaskAt
<1>2. PICK m \in task[t].rows :
           \/ UNCHANGED <<cap, capVec>>
           \/ cap' = [cap EXCEPT ![m.id] = NoCap] /\ capVec' = [capVec EXCEPT ![m.id] = {}]
      BY DEF CleanupDeletes, Removed
<1>3. m.id \in CapIds
      BY CopiesKnown
<1> QED BY <1>1, <1>2, <1>3, ReadsFollow, RemovedFollow

(* A row that is being written follows when it is embedded.                *)
LEMMA WrittenFollow ==
    ASSUME CapInv, NEW t \in Tasks, CapStep(t), task[t].pc \notin {"created", "changed"}, UNCHANGED <<capVec, outdated>>,
           NEW i \in CapIds, Listed(i)', \A j \in CapIds \ {i} : cap'[j] = cap[j],
           task'[t].pc \in {"created", "changed"}, task'[t].id = i
    PROVE  VecsFollow
<1>1. Follows(i)'
      BY DEF Follows, Rewritten
<1>2. \A j \in CapIds \ {i} : Follows(j)'
      BY CapStepGoes, RowFollows DEF Listed
<1> QED BY <1>1, <1>2 DEF VecsFollow, CapInv, CapTypes

LEMMA UpdatesFollow == ASSUME CapInv, NEW t \in Tasks, ImportUpdates(t) PROVE VecsFollow
<1> PICK i, s : i = task[t].id /\ s = Entry(t).subject
    OBVIOUS
<1>1. CapStep(t) /\ task[t].pc = "entry" /\ i \in CapIds /\ s \in Subjects /\ UNCHANGED <<capVec, outdated>>
  <2>1. TaskAt(t, "entry") /\ task[t].pc = "entry" /\ i # 0 /\ s \in Subjects
        BY WantedSubject DEF ImportUpdates, TaskAt
  <2>2. CapHeld(task[t])
        BY DEF CapInv
  <2>3. i \in CapIds
        BY <2>1, <2>2 DEF CapHeld
  <2> QED BY <2>1, <2>3 DEF CapStep, ImportUpdates
<1>2. CASE UNCHANGED cap
      BY <1>1, <1>2, ReadsFollow
<1>3. ASSUME Listed(i), cap' = [cap EXCEPT ![i].subject = s], TaskPut(t, [task[t] EXCEPT !.pc = "changed", !.subject = s])
      PROVE  VecsFollow
  <2>1. cap[i] \in CapRow
        BY <1>1, <1>3, ListedRow
  <2> PICK row : row = [cap[i] EXCEPT !.subject = s]
      OBVIOUS
  <2>2. row \in CapRow
        BY <1>1, <2>1 DEF CapRow
  <2>3. cap'[i] = row /\ \A j \in CapIds \ {i} : cap'[j] = cap[j]
        BY <1>1, <1>3 DEF CapInv, CapTypes
  <2>4. Listed(i)'
        BY <2>2, <2>3, CapRowIsThere DEF Listed
  <2>5. task'[t].pc = "changed" /\ task'[t].id = i
    <3> PICK k : k = task[t]
        OBVIOUS
    <3> PICK r : r = [k EXCEPT !.pc = "changed", !.subject = s]
        OBVIOUS
    <3>1. k \in TaskRecords /\ task'[t] = r
          BY <1>3 DEF TaskPut, CapInv, CapTypes
    <3>2. r.pc = "changed" /\ r.id = i
          BY <3>1 DEF TaskRecords
    <3> QED BY <3>1, <3>2
  <2> QED BY <1>1, <2>3, <2>4, <2>5, WrittenFollow
<1> QED BY <1>2, <1>3 DEF ImportUpdates

LEMMA CreatesFollow == ASSUME CapInv, NEW t \in Tasks, ImportCreates(t) PROVE VecsFollow
<1> PICK i, s, o : i = capBorn + 1 /\ s = Entry(t).subject /\ o = task[t].op
    OBVIOUS
<1>1. CapStep(t) /\ task[t].pc = "entry" /\ s \in Subjects /\ o \in Operations /\ UNCHANGED <<capVec, outdated>>
      BY WantedSubject DEF CapStep, ImportCreates, TaskAt
<1>2. CASE UNCHANGED cap
      BY <1>1, <1>2, ReadsFollow
<1>3. ASSUME capBorn < MaxCaps, cap' = [cap EXCEPT ![i] = [op |-> o, subject |-> s, missed |-> FALSE]],
             TaskPut(t, Wrote(task[t], "created", i, s))
      PROVE  VecsFollow
  <2> PICK row : row = [op |-> o, subject |-> s, missed |-> FALSE]
      OBVIOUS
  <2>1. row \in CapRow
        BY <1>1 DEF CapRow
  <2>2. i \in CapIds
    <3>1. MaxCaps \in Nat /\ capBorn \in Nat
          BY CapNumbers DEF CapInv, CapTypes
    <3> QED BY <1>3, <3>1 DEF CapIds
  <2>3. cap'[i] = row /\ \A j \in CapIds \ {i} : cap'[j] = cap[j]
        BY <1>3, <2>2 DEF CapInv, CapTypes
  <2>4. row # NoCap
        BY <2>1, CapRowIsThere
  <2>5. task'[t].pc = "created" /\ task'[t].id = i
    <3> PICK k : k = task[t]
        OBVIOUS
    <3> PICK r : r = Wrote(k, "created", i, s)
        OBVIOUS
    <3>1. k \in TaskRecords /\ CapHeld(k) /\ k.pc = "entry" /\ task'[t] = r
          BY <1>1, <1>3 DEF TaskPut, CapInv, CapTypes
    <3>2. {"pc", "id", "subject"} \subseteq DOMAIN k
          BY <3>1 DEF TaskRecords
    <3>3. r.pc = "created" /\ r.id = i
          BY <3>2 DEF Wrote
    <3> QED BY <3>1, <3>3
  <2>6. Listed(i)'
        BY <2>3, <2>4 DEF Listed
  <2> QED BY <1>1, <2>2, <2>3, <2>5, <2>6, WrittenFollow
<1>4. \/ UNCHANGED cap
      \/ /\ capBorn < MaxCaps /\ cap' = [cap EXCEPT ![i] = [op |-> o, subject |-> s, missed |-> FALSE]]
         /\ TaskPut(t, Wrote(task[t], "created", i, s))
      BY DEF ImportCreates, Wrote
<1> QED BY <1>2, <1>3, <1>4

(* A step that embeds has the vector right, or the row is outdated.        *)
Embedded(i, s) ==
    /\ capVec' \in [CapIds -> SUBSET Subjects] /\ \A j \in CapIds \ {i} : capVec'[j] = capVec[j]
    /\ Accounted(i, s)

LEMMA EmbeddedByUpdate ==
    ASSUME CapInv, NEW i \in CapIds, NEW s \in Subjects, VectorUpdated(i, s, TRUE) PROVE Embedded(i, s)
<1>1. capVec \in [CapIds -> SUBSET Subjects]
      BY DEF CapInv, CapTypes
<1>2. Accounted(i, s)
      BY DEF VectorUpdated
<1>3. \/ capVec' = capVec
      \/ \E v \in capVec[i] : capVec' = [capVec EXCEPT ![i] = (capVec[i] \ {v}) \cup {s}]
      \/ capVec' = [capVec EXCEPT ![i] = {s}]
      \/ capVec' = [capVec EXCEPT ![i] = capVec[i] \cup {s}]
      BY DEF VectorUpdated
<1>4. \E S \in SUBSET Subjects : capVec' = capVec \/ capVec' = [capVec EXCEPT ![i] = S]
      BY <1>1, <1>3
<1> QED BY <1>1, <1>2, <1>4 DEF Embedded

LEMMA EmbeddedFollow ==
    ASSUME CapInv, NEW t \in Tasks, CapStep(t), UNCHANGED <<cap, contested>>, NEW i \in CapIds, NEW s,
           task[t].pc \in {"created", "changed"} => task[t].id = i, KnownAs(i, s), Embedded(i, s)
    PROVE  VecsFollow
<1>1. Follows(i)'
      BY DEF Embedded, Accounted, Follows, KnownAs, Listed
<1>2. \A j \in CapIds \ {i} : capVec'[j] = capVec[j] /\ (j \in outdated => j \in outdated')
      BY DEF Embedded, Accounted
<1>3. \A j \in CapIds \ {i} : Follows(j)'
      BY <1>2, CapStepGoes, RowFollows DEF Listed
<1> QED BY <1>1, <1>3 DEF VecsFollow, Embedded, Accounted, CapInv, CapTypes

LEMMA EmbedsFollow == ASSUME CapInv, NEW t \in Tasks, ImportEmbeds(t) PROVE VecsFollow
<1> PICK i, s : i = task[t].id /\ s = task[t].subject
    OBVIOUS
<1>1. CapStep(t) /\ UNCHANGED <<cap, contested>> /\ task[t].pc \in {"created", "changed"}
      BY DEF CapStep, ImportEmbeds, TaskAt
<1>2. i \in CapIds /\ s \in Subjects /\ KnownAs(i, s)
  <2>1. CapHeld(task[t])
        BY DEF CapInv
  <2> QED BY <1>1, <2>1 DEF CapHeld
<1>3. Embedded(i, s)
  <2>1. CASE VectorCreated(t, NextEntry(t))
    <3>1. Accounted(i, s) /\ (capVec' = capVec \/ capVec' = [capVec EXCEPT ![i] = capVec[i] \cup {s}])
          BY <2>1 DEF VectorCreated
    <3> QED BY <1>2, <3>1 DEF Embedded, CapInv, CapTypes
  <2>2. CASE VectorUpdated(task[t].id, task[t].subject, NextEntry(t))
    <3>1. VectorUpdated(i, s, TRUE)
          BY <2>2 DEF VectorUpdated
    <3> QED BY <1>2, <3>1, EmbeddedByUpdate
  <2> QED BY <2>1, <2>2 DEF ImportEmbeds
<1> QED BY <1>1, <1>2, <1>3, EmbeddedFollow

LEMMA MarkedFollow == ASSUME CapInv, NEW t \in Tasks, ImportMarked(t) PROVE VecsFollow
<1>1. CapStep(t) /\ UNCHANGED <<cap, contested>> /\ task[t].pc \in {"marked", "mark"}
      BY DEF CapStep, ImportMarked, TaskAt
<1>2. CASE UNCHANGED <<capVec, outdated>>
      BY <1>1, <1>2, ReadsFollow
<1>3. CASE TaskAt(t, "marked") /\ VectorUpdated(task[t].id, task[t].subject, NextRow(t, "mark"))
  <2> PICK i, s : i = task[t].id /\ s = task[t].subject
      OBVIOUS
  <2>1. i \in CapIds /\ s \in Subjects /\ KnownAs(i, s)
    <3>1. CapHeld(task[t])
          BY DEF CapInv
    <3> QED BY <1>3, <3>1 DEF CapHeld, TaskAt
  <2>2. VectorUpdated(i, s, TRUE)
        BY <1>3 DEF VectorUpdated
  <2>3. Embedded(i, s)
        BY <2>1, <2>2, EmbeddedByUpdate
  <2> QED BY <1>1, <2>1, <2>3, EmbeddedFollow
<1> QED BY <1>2, <1>3 DEF ImportMarked

LEMMA SyncFollow == ASSUME CapInv, NEW t \in Tasks, SyncEmbeds(t) PROVE VecsFollow
<1>1. CapStep(t) /\ UNCHANGED <<cap, contested>> /\ task[t].pc = "sync"
      BY DEF CapStep, SyncEmbeds, TaskAt
<1>2. PICK m \in task[t].rows : VectorUpdated(m.id, m.subject, TRUE)
      BY DEF SyncEmbeds, VectorUpdated
<1>3. m.id \in CapIds /\ m.subject \in Subjects /\ KnownAs(m.id, m.subject)
      BY CopiesKnown DEF KnownAs
<1>4. Embedded(m.id, m.subject)
      BY <1>2, <1>3, EmbeddedByUpdate
<1> QED BY <1>1, <1>3, <1>4, EmbeddedFollow

LEMMA MarksFollow == ASSUME CapInv, NEW t \in Tasks, ImportMarks(t) PROVE VecsFollow
<1>1. CapStep(t) /\ task[t].pc = "mark" /\ UNCHANGED <<capBorn, contested, capVec, outdated>>
      BY DEF CapStep, ImportMarks, TaskAt
<1>2. PICK m \in task[t].rows : UNCHANGED cap \/ (Listed(m.id) /\ cap' = [cap EXCEPT ![m.id].missed = TRUE])
      BY DEF ImportMarks
<1>3. m.id \in CapIds /\ m.id \in Hand(task[t])
      BY CopiesKnown
<1>4. \A j \in CapIds : (Listed(j)' <=> Listed(j)) /\ cap'[j].subject = cap[j].subject
      BY <1>1, <1>2, <1>3, MarkChanges DEF Listed
<1> QED BY <1>1, <1>4, CapStepGoes, QuietFollow

LEMMA DiesFollow == ASSUME CapInv, NEW t \in Tasks, TaskDies(t) PROVE VecsFollow
<1>1. CapStep(t) /\ UNCHANGED <<cap, capVec, contested>> /\ outdated \subseteq outdated'
      BY DEF CapStep, TaskDies
<1>2. CASE task[t].pc \notin {"created", "changed"}
      BY <1>1, <1>2, ReadsFollow DEF TaskDies
<1>3. CASE task[t].pc \in {"created", "changed"}
  <2> PICK i : i = task[t].id
      OBVIOUS
  <2>1. i \in CapIds /\ KnownAs(i, task[t].subject) /\ i \in outdated' /\ outdated' = outdated \cup {i}
    <3>1. CapHeld(task[t])
          BY DEF CapInv
    <3> QED BY <1>3, <3>1 DEF CapHeld, TaskDies
  <2>2. Follows(i)'
        BY <1>1, <2>1 DEF Follows, KnownAs, Listed
  <2>3. \A j \in CapIds \ {i} : Follows(j)'
        BY <1>1, CapStepGoes, RowFollows DEF Listed
  <2> QED BY <1>1, <2>1, <2>2, <2>3 DEF VecsFollow, CapInv, CapTypes
<1> QED BY <1>2, <1>3

LEMMA CapStepFollow == ASSUME CapInv, NEW t \in Tasks, CapStep(t) PROVE VecsFollow
<1>1. CASE ImportBegins(t) \/ ImportLook(t) \/ ImportEnds(t) \/ CleanupBegins(t) \/ SyncBegins(t)
  <2>1. task[t].pc \notin {"created", "changed"} /\ UNCHANGED <<cap, capVec, outdated>>
        BY <1>1 DEF ImportBegins, ImportLook, ImportEnds, CleanupBegins, SyncBegins, TakeRows, TaskAt
  <2> QED BY <2>1, ReadsFollow
<1>2. CASE MatchVectors(t) \/ MatchLoads(t) \/ RerankFromCache(t) \/ RerankByModel(t) \/ MatchReturns(t)
  <2>1. task[t].pc \notin {"created", "changed"} /\ UNCHANGED <<cap, capVec, outdated>>
        BY <1>2 DEF MatchVectors, MatchLoads, RerankFromCache, RerankByModel, MatchReturns, TaskAt
  <2> QED BY <2>1, ReadsFollow
<1> QED BY <1>1, <1>2, SkipsFollow, UpdatesFollow, CreatesFollow, EmbedsFollow, MarksFollow, MarkedFollow, CleanupFollow,
           SyncFollow, DiesFollow DEF CapStep

-----------------------------------------------------------------------------
(* Capabilities.  The invariant and what follows from it.                  *)

LEMMA CapFaultCounted == ASSUME CapInv, UNCHANGED capFaults \/ CapFault PROVE capFaults' \in 0..MaxCapFaults
<1>1. MaxCapFaults \in Nat
      BY CapNumbers
<1>2. capFaults \in 0..MaxCapFaults
      BY DEF CapInv, CapTypes
<1> QED BY <1>1, <1>2 DEF CapFault

LEMMA CapFaults == ASSUME CapInv, CapNext PROVE capFaults' \in 0..MaxCapFaults
<1>1. ASSUME NEW t \in Tasks, CapStep(t) PROVE UNCHANGED capFaults \/ CapFault
  <2>1. CASE ImportBegins(t) \/ ImportLook(t) \/ ImportSkips(t) \/ ImportUpdates(t) \/ ImportCreates(t)
        BY <2>1 DEF ImportBegins, ImportLook, ImportSkips, ImportUpdates, ImportCreates
  <2>2. CASE ImportEmbeds(t) \/ ImportEnds(t) \/ ImportMarks(t) \/ ImportMarked(t)
        BY <2>2 DEF ImportEmbeds, ImportEnds, ImportMarks, ImportMarked, VectorCreated, VectorUpdated
  <2>3. CASE CleanupBegins(t) \/ CleanupDeletes(t) \/ SyncBegins(t) \/ SyncEmbeds(t)
        BY <2>3 DEF CleanupBegins, CleanupDeletes, SyncBegins, SyncEmbeds, TakeRows, VectorUpdated
  <2>4. CASE MatchVectors(t) \/ MatchLoads(t) \/ RerankFromCache(t) \/ RerankByModel(t) \/ MatchReturns(t) \/ TaskDies(t)
        BY <2>4 DEF MatchVectors, MatchLoads, RerankFromCache, RerankByModel, MatchReturns, TaskDies
  <2> QED BY <1>1, <2>1, <2>2, <2>3, <2>4 DEF CapStep
<1> QED BY <1>1, CapFaultCounted DEF CapNext, CacheExpires

LEMMA CacheTyped == ASSUME CapInv, CapNext PROVE rcache' \in [Subjects -> SUBSET CapIds]
<1>1. rcache \in [Subjects -> SUBSET CapIds]
      BY DEF CapInv, CapTypes
<1>2. CASE UNCHANGED rcache
      BY <1>1, <1>2
<1>3. CASE CacheExpires
      BY <1>1, <1>3 DEF CacheExpires
<1>4. ASSUME NEW t \in Tasks, RerankByModel(t) PROVE rcache' \in [Subjects -> SUBSET CapIds]
  <2>1. task[t].hits \subseteq CapIds
        BY DEF CapInv, CapTypes, TaskRecords
  <2> QED BY <1>1, <1>4, <2>1 DEF RerankByModel
<1>5. ASSUME NEW t \in Tasks, CapStep(t), ~RerankByModel(t) PROVE UNCHANGED rcache
  <2>1. CASE ImportBegins(t) \/ ImportLook(t) \/ ImportSkips(t) \/ ImportUpdates(t) \/ ImportCreates(t)
        BY <2>1 DEF ImportBegins, ImportLook, ImportSkips, ImportUpdates, ImportCreates
  <2>2. CASE ImportEmbeds(t) \/ ImportEnds(t) \/ ImportMarks(t) \/ ImportMarked(t)
        BY <2>2 DEF ImportEmbeds, ImportEnds, ImportMarks, ImportMarked
  <2>3. CASE CleanupBegins(t) \/ CleanupDeletes(t) \/ SyncBegins(t) \/ SyncEmbeds(t)
        BY <2>3 DEF CleanupBegins, CleanupDeletes, SyncBegins, SyncEmbeds, TakeRows
  <2>4. CASE MatchVectors(t) \/ MatchLoads(t) \/ RerankFromCache(t) \/ MatchReturns(t) \/ TaskDies(t)
        BY <2>4 DEF MatchVectors, MatchLoads, RerankFromCache, MatchReturns, TaskDies
  <2> QED BY <1>5, <2>1, <2>2, <2>3, <2>4 DEF CapStep
<1> QED BY <1>2, <1>3, <1>4, <1>5 DEF CapNext

LEMMA CapBeginning == CapInit => CapInv
<1> SUFFICES ASSUME CapInit PROVE CapInv
    OBVIOUS
<1>1. PICK d \in Documents \cup {<<>>} :
        LET wanted == {o \in DOMAIN d : ~d[o].skip /\ d[o].subject # ""}
            ops    == CHOOSE f \in [1..Cardinality(wanted) -> wanted] : wanted \subseteq {f[i] : i \in DOMAIN f}
        IN
        /\ capBorn = Cardinality(wanted)
        /\ cap = [i \in CapIds |-> IF i \in DOMAIN ops THEN [op |-> ops[i], subject |-> d[ops[i]].subject, missed |-> FALSE]
                                  ELSE NoCap]
        /\ capVec = [i \in CapIds |-> {cap[i].subject} \ {""}]
        /\ task = [t \in Tasks |-> Resting] /\ capFaults = 0
        /\ rcache = [q \in Subjects |-> {}] /\ contested = {} /\ outdated = {}
      BY DEF CapInit
<1> DEFINE wanted == {o \in DOMAIN d : ~d[o].skip /\ d[o].subject # ""}
           born   == Cardinality(wanted)
           ops    == CHOOSE f \in [1..born -> wanted] : wanted \subseteq {f[i] : i \in DOMAIN f}
<1>2. IsFiniteSet(wanted) /\ \A o \in wanted : o \in Operations /\ d[o].subject \in Subjects /\ d[o].subject # ""
  <2>1. CASE d \in Documents
    <3>1. IsFiniteSet(DOMAIN d)
          BY <2>1, CapabilityAssumption
    <3>2. IsFiniteSet(wanted)
          BY <3>1, FS_Subset
    <3> QED BY <2>1, <3>2, CapNumbers
  <2>2. CASE d = <<>>
    <3>1. wanted = {}
          BY <2>2
    <3> QED BY <3>1, FS_EmptySet
  <2> QED BY <2>1, <2>2
<1>3. born \in Nat /\ ExistsBijection(1..born, wanted)
      BY <1>2, FS_CardinalityType
<1>4. ops \in [1..born -> wanted]
  <2>1. PICK f : f \in Surjection(1..born, wanted)
        BY <1>3 DEF ExistsBijection, Bijection
  <2>2. f \in [1..born -> wanted] /\ wanted \subseteq {f[i] : i \in DOMAIN f}
        BY <2>1 DEF Surjection
  <2> HIDE DEF wanted, born
  <2> QED BY <2>2
<1>5. /\ capBorn = born
      /\ cap = [i \in CapIds |-> IF i \in DOMAIN ops THEN [op |-> ops[i], subject |-> d[ops[i]].subject, missed |-> FALSE]
                                ELSE NoCap]
      BY <1>1
<1> HIDE DEF wanted, born, ops
<1>6. ASSUME NEW i \in CapIds
      PROVE  /\ cap[i] \in CapRow \cup {NoCap} /\ (Listed(i) => i <= capBorn)
             /\ (Listed(i) => capVec[i] = {cap[i].subject}) /\ (~Listed(i) => capVec[i] = {})
             /\ capVec[i] \subseteq Subjects
  <2>1. capVec[i] = {cap[i].subject} \ {""}
        BY <1>1
  <2>2. CASE i \in 1..born
    <3> PICK row : row = [op |-> ops[i], subject |-> d[ops[i]].subject, missed |-> FALSE]
        OBVIOUS
    <3>1. ops[i] \in wanted /\ i \in DOMAIN ops
          BY <1>4, <2>2
    <3>2. row \in CapRow /\ row.subject # "" /\ row.subject \in Subjects
          BY <1>2, <3>1 DEF CapRow
    <3>3. cap[i] = row /\ row # NoCap /\ i <= capBorn
      <4>1. cap[i] = row
            BY <1>5, <3>1
      <4>2. row # NoCap
            BY <3>2, CapRowIsThere
      <4>3. i <= capBorn
            BY <1>3, <1>5, <2>2
      <4> QED BY <4>1, <4>2, <4>3
    <3> QED BY <2>1, <3>2, <3>3 DEF Listed
  <2>3. CASE i \notin 1..born
    <3>1. cap[i] = NoCap /\ NoCap.subject = ""
          BY <1>4, <1>5, <2>3 DEF NoCap
    <3> QED BY <2>1, <3>1 DEF Listed
  <2> QED BY <2>2, <2>3
<1>7. CapTypes
  <2>1. cap \in [CapIds -> CapRow \cup {NoCap}]
        BY <1>5, <1>6
  <2>2. capVec \in [CapIds -> SUBSET Subjects]
        BY <1>1, <1>6
  <2>3. task \in [Tasks -> TaskRecords] /\ capFaults \in 0..MaxCapFaults
    <3>1. task = [t \in Tasks |-> Resting] /\ capFaults = 0
          BY <1>1
    <3>2. MaxCapFaults \in Nat
          BY CapNumbers
    <3> QED BY <3>1, <3>2, RestingTyped
  <2>4. capBorn \in Nat
        BY <1>3, <1>5
  <2>5. rcache \in [Subjects -> SUBSET CapIds] /\ contested \subseteq CapIds /\ outdated \subseteq CapIds
        BY <1>1
  <2> QED BY <1>6, <2>1, <2>2, <2>3, <2>4, <2>5 DEF CapTypes
<1>8. \A t \in Tasks : task[t] = Resting
      BY <1>1
<1>9. CapHeld(Resting) /\ Hand(Resting) = {0}
      BY <1>7 DEF CapHeld, Hand, Resting, CapTypes
<1>10. \A i \in CapIds : Follows(i)
      BY <1>6 DEF Follows
<1>11. Exclusive
      BY <1>8, <1>9 DEF Exclusive
<1> QED BY <1>7, <1>8, <1>9, <1>10, <1>11 DEF CapInv

LEMMA CapSteps == CapInv /\ [CapNext]_capVars => CapInv'
<1> SUFFICES ASSUME CapInv, [CapNext]_capVars PROVE CapInv'
    OBVIOUS
<1>1. CASE UNCHANGED capVars
      BY <1>1 DEF capVars, CapInv, CapTypes, CapHeld, KnownAs, Exclusive, Hand, Follows, Rewritten, Listed
<1>2. CASE CapNext
  <2>1. capFaults' \in 0..MaxCapFaults /\ rcache' \in [Subjects -> SUBSET CapIds]
        BY <1>2, CapFaults, CacheTyped
  <2>2. ASSUME NEW t \in Tasks, CapStep(t) PROVE CapInv'
    <3>1. TaskGoes(t) /\ VecsFollow
          BY <2>2, CapStepGoes, CapStepFollow
    <3>2. PICK r \in TaskRecords : TaskPut(t, r) /\ CapHeld(r)' /\ HandGoes(t, r)
          BY <3>1 DEF TaskGoes
    <3>3. task' \in [Tasks -> TaskRecords] /\ task'[t] = r /\ \A u \in Tasks \ {t} : task'[u] = task[u]
          BY <3>2 DEF TaskPut, CapInv, CapTypes
    <3>4. CapTypes'
          BY <2>1, <3>1, <3>3 DEF TaskGoes, RowsKept, VecsFollow, CapTypes, Listed
    <3>5. ASSUME NEW u \in Tasks PROVE CapHeld(task[u])'
      <4>1. PICK s : s = task'[u] /\ CapHeld(s)'
        <5>1. CASE u = t
              BY <3>2, <3>3, <5>1
        <5>2. CASE u # t
          <6> PICK s : s = task[u]
              OBVIOUS
          <6>1. CapHeld(s)'
                BY <3>1, <5>2, OthersHold DEF TaskGoes
          <6> QED BY <3>3, <5>2, <6>1
        <5> QED BY <5>1, <5>2
      <4> QED BY <4>1 DEF CapHeld, KnownAs, Listed
    <3>6. Exclusive'
          BY <3>1, <3>2, StaysExclusive DEF TaskGoes
    <3> QED BY <3>1, <3>4, <3>5, <3>6 DEF CapInv, VecsFollow
  <2>3. CASE CacheExpires
    <3>1. UNCHANGED <<cap, capBorn, capVec, task, contested, outdated>>
          BY <2>3 DEF CacheExpires
    <3>2. CapTypes'
          BY <2>1, <3>1 DEF CapInv, CapTypes, Listed
    <3>3. (\A u \in Tasks : CapHeld(task[u])') /\ Exclusive' /\ \A i \in CapIds : Follows(i)'
          BY <3>1 DEF CapInv, CapHeld, KnownAs, Exclusive, Hand, Follows, Rewritten, Listed
    <3> QED BY <3>2, <3>3 DEF CapInv
  <2> QED BY <1>2, <2>2, <2>3 DEF CapNext
<1> QED BY <1>1, <1>2

LEMMA CapKept == CapSpec => []CapInv
BY CapBeginning, CapSteps, PTL DEF CapSpec

(* Rows, vectors and tasks of the catalogue have their types, whatever     *)
(* imports, cleanups, embedding commands and searches overlap.             *)
THEOREM CapabilitiesTypeCorrect == CapSpec => []CapTypeOK
<1>1. CapInv => CapTypeOK
  <2> SUFFICES ASSUME CapInv PROVE CapTypeOK
      OBVIOUS
  <2>1. ASSUME NEW i \in CapIds, Listed(i)
        PROVE  i <= capBorn /\ cap[i].op \in Operations /\ cap[i].subject \in Subjects /\ cap[i].missed \in BOOLEAN
    <3>1. cap[i] \in CapRow /\ i <= capBorn
          BY <2>1, ListedRow
    <3> QED BY <3>1 DEF CapRow
  <2>2. ASSUME NEW t \in Tasks PROVE InHand(t) \subseteq 0..capBorn
    <3> PICK k : k = task[t]
        OBVIOUS
    <3>1. k \in TaskRecords /\ CapHeld(k) /\ capBorn \in Nat
          BY DEF CapInv, CapTypes
    <3>2. k.id \in 0..capBorn
      <4>1. k.id \in Nat /\ k.id <= capBorn
            BY <3>1 DEF TaskRecords, CapHeld
      <4> QED BY <3>1, <4>1
    <3>3. ASSUME NEW m \in k.rows PROVE m.id \in 0..capBorn
      <4>1. m.id \in CapIds
            BY <3>1, <3>3 DEF TaskRecords, CapCopies
      <4>2. m.id <= capBorn /\ m.id \in Nat
            BY <3>1, <3>3, <4>1, CapIdsNat DEF CapHeld
      <4> QED BY <3>1, <4>2
    <3> QED BY <3>2, <3>3 DEF InHand
  <2> QED BY <2>1, <2>2 DEF CapTypeOK, CapInv, CapTypes
<1> QED BY <1>1, CapKept, PTL

(* The only vector of a row is of the subject it has, whatever imports,    *)
(* marks and embedding commands did to it, unless two commands had it in   *)
(* hand together or the last one could not write (capability_x.go:73-136). *)
THEOREM VectorsFollowRows == CapSpec => []VectorFollows
<1>1. CapInv => VectorFollows
      BY DEF CapInv, Follows, VectorFollows
<1> QED BY <1>1, CapKept, PTL

(* No vector outlives its row, unless two commands had it in hand together *)
(* (capability_x.go:148-152).                                              *)
THEOREM VectorsGoWithRows == CapSpec => []NoVectorWithoutRow
<1>1. CapInv => NoVectorWithoutRow
      BY DEF CapInv, Follows, NoVectorWithoutRow
<1> QED BY <1>1, CapKept, PTL

(* What a search shows are candidates of this search, as many as asked for *)
(* at most, whatever the cache was filled with and the model answers       *)
(* (capability_x.go:184-272, 318-330, 573-615).                            *)
THEOREM SearchShowsCandidates == CapSpec => []ShownAreCandidates
<1>1. CapInv => ShownAreCandidates
      BY DEF CapInv, CapHeld, ShownAreCandidates, TaskAt
<1> QED BY <1>1, CapKept, PTL

(* Only a step of a cleanup or of an import that meets a tag removes rows. *)
LEMMA RowsStay ==
    ASSUME CapInv, NEW t \in Tasks, CapStep(t), ~ImportSkips(t), ~CleanupDeletes(t), NEW i \in CapIds, Listed(i)
    PROVE  Listed(i)'
<1>1. CASE UNCHANGED cap
      BY <1>1 DEF Listed
<1>2. CASE ImportUpdates(t)
  <2> PICK j, s : j = task[t].id /\ s = Entry(t).subject
      OBVIOUS
  <2>1. CASE Listed(j) /\ cap' = [cap EXCEPT ![j].subject = s]
    <3>1. s \in Subjects /\ cap[i] \in CapRow
          BY <1>2, WantedSubject, ListedRow DEF ImportUpdates
    <3> PICK row : row = [cap[i] EXCEPT !.subject = s]
        OBVIOUS
    <3>2. row \in CapRow
          BY <3>1 DEF CapRow
    <3>3. cap'[i] = cap[i] \/ cap'[i] = row
      <4>1. cap \in [CapIds -> CapRow \cup {NoCap}]
            BY DEF CapInv, CapTypes
      <4> QED BY <2>1, <4>1
    <3> QED BY <3>2, <3>3, CapRowIsThere DEF Listed
  <2> QED BY <1>1, <1>2, <2>1 DEF ImportUpdates
<1>3. CASE ImportCreates(t)
  <2>1. i <= capBorn /\ i \in Nat
        BY ListedRow, CapIdsNat
  <2>2. i # capBorn + 1
        BY <2>1 DEF CapInv, CapTypes
  <2>3. cap'[i] = cap[i]
        BY <1>3, <2>2 DEF ImportCreates, CapInv, CapTypes
  <2> QED BY <2>3 DEF Listed
<1>4. CASE ImportMarks(t)
  <2>1. PICK m \in task[t].rows : UNCHANGED cap \/ (Listed(m.id) /\ cap' = [cap EXCEPT ![m.id].missed = TRUE])
        BY <1>4 DEF ImportMarks
  <2>2. m.id \in CapIds /\ m.id \in Hand(task[t]) /\ UNCHANGED <<capBorn, contested>>
        BY <1>4, CopiesKnown DEF ImportMarks
  <2> QED BY <1>1, <2>1, <2>2, MarkChanges
<1>5. CASE ~ImportUpdates(t) /\ ~ImportCreates(t) /\ ~ImportMarks(t)
  <2>1. CASE ImportBegins(t) \/ ImportLook(t) \/ ImportEmbeds(t) \/ ImportEnds(t) \/ ImportMarked(t)
        BY <1>1, <2>1 DEF ImportBegins, ImportLook, ImportEmbeds, ImportEnds, ImportMarked
  <2>2. CASE CleanupBegins(t) \/ SyncBegins(t) \/ SyncEmbeds(t)
        BY <1>1, <2>2 DEF CleanupBegins, SyncBegins, SyncEmbeds, TakeRows
  <2>3. CASE MatchVectors(t) \/ MatchLoads(t) \/ RerankFromCache(t) \/ RerankByModel(t) \/ MatchReturns(t) \/ TaskDies(t)
        BY <1>1, <2>3 DEF MatchVectors, MatchLoads, RerankFromCache, RerankByModel, MatchReturns, TaskDies
  <2> QED BY <1>5, <2>1, <2>2, <2>3 DEF CapStep
<1> QED BY <1>2, <1>3, <1>4, <1>5

(* A row disappears only by a cleanup, once an import found it missing, or *)
(* by an import whose document tags its operation, although both work from *)
(* copies read before (capability_x.go:456-468, 654-686).                  *)
THEOREM CapabilitiesGoForACause == CapSpec => OnlyMissedOrTaggedGo
<1>1. ASSUME CapInv, CapNext, NEW i \in CapIds, Listed(i), ~Listed(i)'
      PROVE  \/ cap[i].missed /\ \E t \in Tasks : TaskAt(t, "clean")
             \/ \E t \in Tasks : TaskAt(t, "entry") /\ task[t].op = cap[i].op /\ Entry(t).skip
  <2>1. PICK t \in Tasks : ImportSkips(t) \/ CleanupDeletes(t)
        BY <1>1, RowsStay DEF CapNext, CacheExpires, Listed
  <2>2. CASE ImportSkips(t)
    <3>1. TaskAt(t, "entry") /\ CapHeld(task[t])
          BY <1>1, <2>2 DEF ImportSkips, CapInv
    <3>2. Entry(t).skip /\ task[t].id # 0 /\ cap' = [cap EXCEPT ![task[t].id] = NoCap]
          BY <1>1, <2>2 DEF ImportSkips, Removed, Listed
    <3>3. task[t].id = i
          BY <1>1, <3>2 DEF CapInv, CapTypes, Listed
    <3>4. task[t].op = cap[i].op
          BY <1>1, <3>1, <3>2, <3>3 DEF CapHeld, TaskAt
    <3> QED BY <3>1, <3>2, <3>4
  <2>3. CASE CleanupDeletes(t)
    <3>1. TaskAt(t, "clean") /\ CapHeld(task[t])
          BY <1>1, <2>3 DEF CleanupDeletes, CapInv
    <3>2. PICK m \in task[t].rows : cap' = [cap EXCEPT ![m.id] = NoCap]
          BY <1>1, <2>3 DEF CleanupDeletes, Removed, Listed
    <3>3. m.id = i
          BY <1>1, <3>2 DEF CapInv, CapTypes, Listed
    <3>4. cap[i].missed
          BY <1>1, <3>1, <3>3 DEF CapHeld, TaskAt
    <3> QED BY <3>1, <3>4
  <2> QED BY <2>1, <2>2, <2>3
<1>2. CapInv /\ [CapNext]_capVars
      => [\A i \in CapIds : Listed(i) /\ ~Listed(i)' =>
              \/ cap[i].missed /\ \E t \in Tasks : TaskAt(t, "clean")
              \/ \E t \in Tasks : TaskAt(t, "entry") /\ task[t].op = cap[i].op /\ Entry(t).skip]_capVars
      BY <1>1
<1> QED BY <1>2, CapKept, PTL DEF CapSpec, OnlyMissedOrTaggedGo

-----------------------------------------------------------------------------
(* Documents.  What a request carries from its first step to the later     *)
(* ones, and what it has put into the knowledge base.                      *)

DocRow    == [key : DocKeys, text : Texts]
DocCopies == [id : DocIds, doc : DocRow]

DocRequests ==
    [pc : {"idle", "line", "create", "update", "embed", "sync"}, file : Files \cup {<<>>}, n : Nat, id : Nat,
     key : DocKeys \cup {Blank}, rows : SUBSET DocCopies, others : SUBSET DocKeys]

DocTypes ==
    /\ doc \in [DocIds -> DocRow \cup {NoDoc}] /\ docBorn \in 0..MaxDocs
    /\ \A i \in DocIds : There(i) => i <= docBorn
    /\ \A i, j \in DocIds : There(i) /\ There(j) /\ i # j => doc[i].key # doc[j].key
    /\ docVec \in [DocIds -> SUBSET [key : DocKeys, words : Texts \cup {Blank}]] /\ docStale \subseteq DocIds
    /\ docReq \in [Editors -> DocRequests]

(* A line an import is at, and one that stays the last of its key.         *)
AtFull(r)   == r.file \in Files /\ r.n \in 1..Len(r.file) /\ r.file[r.n].kind = "full"
Stands(r, n) ==
    /\ r.file[n].kind = "full" /\ r.file[n].key \notin r.others
    /\ \A m \in 1..(r.n - 1) : m > n => r.file[m].kind # "full" \/ r.file[m].key # r.file[n].key
In(line)    == \E i \in DocIds : doc[i] = [key |-> line.key, text |-> line.text]

DocHeld(r) ==
    /\ r.id <= docBorn
    /\ r.pc = "idle" => r = DocIdle
    /\ r.pc = "line" => r.file \in Files /\ r.n \in 1..(Len(r.file) + 1)
    /\ r.pc \in {"create", "update"} => AtFull(r)
    /\ r.pc = "update" =>
           /\ r.id \in DocIds
           /\ There(r.id) /\ doc[r.id].key # r.file[r.n].key => {doc[r.id].key, r.file[r.n].key} \subseteq r.others
    /\ r.pc = "embed" =>
           /\ r.id \in DocIds /\ r.key \in DocKeys
           /\ r.file # <<>> => AtFull(r) /\ (r.file[r.n].key \in r.others \/ In(r.file[r.n]))
    /\ r.pc = "sync" => r.file = <<>>
    /\ r.file = <<>> => r.n \in {0, 1}
    /\ \A n \in 1..(r.n - 1) : Stands(r, n) => In(r.file[n])

(* The vector a document is found by is there, or being written.           *)
Findable(i) ==
    There(i) /\ i \notin docStale =>
        \/ \E v \in docVec[i] : v.key = doc[i].key
        \/ \E e \in Editors : DocAt(e, "embed") /\ docReq[e].id = i /\ docReq[e].key = doc[i].key

DocInv == DocTypes /\ (\A e \in Editors : DocHeld(docReq[e])) /\ \A i \in DocIds : Findable(i)

LEMMA DocNumbers == MaxDocs \in Nat /\ DocIds = 1..MaxDocs /\ Blank \notin DocKeys
<1>1. {MaxDocs} \subseteq Nat BY CorpusAssumption
<1> QED BY <1>1, CorpusAssumption DEF DocIds

LEMMA DocRowIsThere == \A r \in DocRow : r # NoDoc
BY DocNumbers DEF DocRow, NoDoc

(* What is there has a key and a content, and an id given before.          *)
LEMMA RowOfDoc == ASSUME DocInv, NEW i \in DocIds, There(i) PROVE doc[i] \in DocRow /\ i \in 1..docBorn
<1>1. doc[i] \in DocRow \cup {NoDoc} /\ i <= docBorn BY DEF DocInv, DocTypes
<1>2. doc[i] \in DocRow BY <1>1 DEF There
<1>3. i \in 1..docBorn BY <1>1, DocNumbers DEF DocInv, DocTypes
<1> QED BY <1>2, <1>3

LEMMA KeyIsThere == ASSUME DocInv, NEW i \in DocIds, NEW k \in DocKeys, doc[i].key = k PROVE There(i)
BY DocNumbers DEF There, NoDoc

LEMMA SeqElement == ASSUME NEW S, NEW f \in Seq(S), NEW n \in 1..Len(f) PROVE f[n] \in S
OBVIOUS

(* The lines of a file an import is at.                                    *)
LEMMA LineType ==
    ASSUME NEW f \in Files, NEW n \in 1..Len(f)
    PROVE  /\ f[n].kind \in {"full", "empty", "broken"} /\ f[n].key \in DocKeys
           /\ f[n].kind = "full" => f[n].text \in Texts
           /\ Len(f) \in Nat /\ f # <<>> /\ f \in Seq([kind : {"full", "empty", "broken"}, key : DocKeys, text : Texts \cup {Blank}])
<1>1. f \in Seq([kind : {"full", "empty", "broken"}, key : DocKeys, text : Texts \cup {Blank}]) BY CorpusAssumption
<1>2. Len(f) \in Nat /\ DOMAIN f = 1..Len(f) BY <1>1
<1>3. f[n] \in [kind : {"full", "empty", "broken"}, key : DocKeys, text : Texts \cup {Blank}] BY <1>1, SeqElement
<1>4. f[n].kind = "full" => f[n].text \in Texts BY <1>2, CorpusAssumption
<1>5. f # <<>> BY <1>2
<1> QED BY <1>1, <1>2, <1>3, <1>4, <1>5

LEMMA FileLength == ASSUME NEW f \in Files \cup {<<>>} PROVE Len(f) \in Nat
<1>1. Files \subseteq Seq([kind : {"full", "empty", "broken"}, key : DocKeys, text : Texts \cup {Blank}]) BY CorpusAssumption
<1> QED BY <1>1

LEMMA DocIdleTyped == DocIdle \in DocRequests
BY DEF DocIdle, DocRequests

LEMMA DocIdleHeld == ASSUME DocInv, docBorn' \in docBorn..MaxDocs PROVE DocHeld(DocIdle)'
<1>1. 0 <= docBorn' BY DocNumbers DEF DocInv, DocTypes
<1> QED BY <1>1 DEF DocHeld, DocIdle

(* A step changes documents of the keys K and no other, and no id is used  *)
(* a second time.                                                          *)
DocKeep(K) ==
    /\ K \subseteq DocKeys
    /\ doc' \in [DocIds -> DocRow \cup {NoDoc}] /\ docBorn' \in docBorn..MaxDocs
    /\ \A i \in DocIds : There(i)' => i <= docBorn' /\ (There(i) \/ docBorn < i)
    /\ \A i, j \in DocIds : There(i)' /\ There(j)' /\ i # j => doc'[i].key # doc'[j].key
    /\ \A i \in DocIds : There(i) /\ doc[i].key \notin K => doc'[i] = doc[i]
    /\ \A i \in DocIds : There(i) /\ There(i)' /\ doc'[i].key # doc[i].key => {doc[i].key, doc'[i].key} \subseteq K

LEMMA DocsRest == ASSUME DocInv, UNCHANGED <<doc, docBorn>>, NEW K \in SUBSET DocKeys PROVE DocKeep(K)
<1>1. docBorn \in docBorn..MaxDocs BY DocNumbers DEF DocInv, DocTypes
<1> QED BY <1>1 DEF DocKeep, DocInv, DocTypes, There

LEMMA InsertKeeps == ASSUME DocInv, NEW k \in DocKeys, NEW t \in Texts, DocInsert(k, t) PROVE DocKeep({k}) /\ docBorn + 1 \in DocIds /\ doc'[docBorn + 1] = [key |-> k, text |-> t]
<1>1. docBorn \in 0..MaxDocs /\ docBorn < MaxDocs /\ MaxDocs \in Nat BY DocNumbers DEF DocInv, DocTypes, DocInsert
<1>2. docBorn + 1 \in DocIds /\ docBorn' = docBorn + 1 /\ docBorn' \in docBorn..MaxDocs BY <1>1, DocNumbers DEF DocInsert
<1>3. [key |-> k, text |-> t] \in DocRow BY DEF DocRow
<1>4. PICK row \in DocRow : row = [key |-> k, text |-> t] BY <1>3
<1>5. doc \in [DocIds -> DocRow \cup {NoDoc}] /\ doc' = [doc EXCEPT ![docBorn + 1] = row] BY <1>4 DEF DocInv, DocTypes, DocInsert
<1>6. doc' \in [DocIds -> DocRow \cup {NoDoc}] /\ doc'[docBorn + 1] = row BY <1>2, <1>5
<1>7. \A i \in DocIds : i # docBorn + 1 => doc'[i] = doc[i] BY <1>2, <1>5
<1>8. ~There(docBorn + 1)
  <2>1. There(docBorn + 1) => docBorn + 1 <= docBorn BY <1>2 DEF DocInv, DocTypes
  <2> QED BY <2>1, <1>1
<1>9. ASSUME NEW i \in DocIds, There(i)' PROVE i <= docBorn' /\ (There(i) \/ docBorn < i)
  <2>1. CASE i = docBorn + 1 BY <2>1, <1>1, <1>2
  <2>2. CASE i # docBorn + 1
    <3>1. There(i) BY <2>2, <1>7, <1>9 DEF There
    <3> QED BY <3>1, RowOfDoc, <1>1, <1>2
  <2> QED BY <2>1, <2>2
<1>10. ASSUME NEW i \in DocIds, NEW j \in DocIds, There(i)', There(j)', i # j PROVE doc'[i].key # doc'[j].key
  <2>1. row.key = k /\ \A x \in DocIds : doc[x].key # k BY <1>4 DEF DocInsert, Free
  <2>2. CASE i = docBorn + 1 BY <2>1, <2>2, <1>6, <1>7, <1>10
  <2>3. CASE j = docBorn + 1 BY <2>1, <2>3, <1>6, <1>7, <1>10
  <2>4. CASE i # docBorn + 1 /\ j # docBorn + 1
    <3>1. There(i) /\ There(j) BY <2>4, <1>7, <1>10 DEF There
    <3>2. doc[i].key # doc[j].key BY <3>1, <1>10 DEF DocInv, DocTypes
    <3> QED BY <3>2, <2>4, <1>7
  <2> QED BY <2>2, <2>3, <2>4
<1>11. \A i \in DocIds : There(i) => doc'[i] = doc[i] BY <1>7, <1>8
<1>12. DocKeep({k})
  <2>1. {k} \subseteq DocKeys OBVIOUS
  <2> QED BY <2>1, <1>2, <1>6, <1>9, <1>10, <1>11 DEF DocKeep
<1> QED BY <1>12, <1>2, <1>6, <1>4

(* One document that is there gets another key or content, or goes.        *)
DocChange(i, row) == doc' = [doc EXCEPT ![i] = row] /\ UNCHANGED docBorn

LEMMA ChangeKeeps ==
    ASSUME DocInv, NEW i \in DocIds, There(i), NEW row \in DocRow \cup {NoDoc}, DocChange(i, row), NEW K \in SUBSET DocKeys, doc[i].key \in K,
           row # NoDoc => row.key \in K /\ (row.key = doc[i].key \/ Free(row.key))
    PROVE  DocKeep(K)
<1>1. doc \in [DocIds -> DocRow \cup {NoDoc}] BY DEF DocInv, DocTypes
<1>2. doc' \in [DocIds -> DocRow \cup {NoDoc}] /\ doc'[i] = row BY <1>1 DEF DocChange
<1>3. \A j \in DocIds : j # i => doc'[j] = doc[j] BY <1>1 DEF DocChange
<1>4. docBorn' = docBorn /\ docBorn \in 0..MaxDocs /\ docBorn' \in docBorn..MaxDocs BY DocNumbers DEF DocInv, DocTypes, DocChange
<1>5. \A j \in DocIds : There(j)' => There(j) BY <1>3 DEF There
<1>6. \A j \in DocIds : There(j)' => j <= docBorn' /\ There(j) BY <1>5, <1>4, RowOfDoc
<1>7. ASSUME NEW j \in DocIds, NEW l \in DocIds, There(j)', There(l)', j # l PROVE doc'[j].key # doc'[l].key
  <2>1. There(j) /\ There(l) /\ doc[j].key # doc[l].key BY <1>5, <1>7 DEF DocInv, DocTypes
  <2>2. There(i)' => row # NoDoc BY <1>2 DEF There
  <2>3. CASE j = i
    <3>1. doc[l].key # row.key BY <2>1, <2>2, <2>3, <1>7 DEF Free
    <3> QED BY <3>1, <2>3, <1>2, <1>3, <1>7
  <2>4. CASE l = i
    <3>1. doc[j].key # row.key BY <2>1, <2>2, <2>4, <1>7 DEF Free
    <3> QED BY <3>1, <2>4, <1>2, <1>3, <1>7
  <2>5. CASE j # i /\ l # i BY <2>1, <2>5, <1>3
  <2> QED BY <2>3, <2>4, <2>5
<1>8. \A j \in DocIds : There(j) /\ doc[j].key \notin K => doc'[j] = doc[j] BY <1>3
<1>9. ASSUME NEW j \in DocIds, There(j), There(j)', doc'[j].key # doc[j].key PROVE {doc[j].key, doc'[j].key} \subseteq K
  <2>1. j = i BY <1>9, <1>3
  <2>2. row # NoDoc BY <2>1, <1>9, <1>2 DEF There
  <2> QED BY <2>1, <2>2, <1>2
<1> QED BY <1>2, <1>4, <1>6, <1>7, <1>8, <1>9 DEF DocKeep

(* What an import has put into the knowledge base stays there while others *)
(* change documents, but for the keys they change.                         *)
LEMMA InStays ==
    ASSUME DocInv, NEW K, DocKeep(K), NEW k \in DocKeys, NEW t, k \notin K, In([key |-> k, text |-> t])
    PROVE  In([key |-> k, text |-> t])'
<1>1. PICK i \in DocIds : doc[i] = [key |-> k, text |-> t] BY DEF In
<1>2. doc[i].key = k BY <1>1
<1>3. There(i) BY <1>2, KeyIsThere
<1>4. doc'[i] = doc[i] BY <1>2, <1>3 DEF DocKeep
<1> QED BY <1>1, <1>4 DEF In

LEMMA LineStays ==
    ASSUME DocInv, NEW K, DocKeep(K), NEW f \in Files, NEW n \in 1..Len(f), f[n].key \notin K, In(f[n])
    PROVE  In(f[n])'
<1>1. f[n].key \in DocKeys BY LineType
<1>2. In([key |-> f[n].key, text |-> f[n].text]) BY DEF In
<1>3. In([key |-> f[n].key, text |-> f[n].text])' BY <1>1, <1>2, InStays
<1> QED BY <1>3 DEF In

(* The lines a request has passed are lines of its file.                   *)
LEMMA PassedLines ==
    ASSUME DocInv, NEW r \in DocRequests, DocHeld(r), NEW n \in 1..(r.n - 1)
    PROVE  r.file \in Files /\ n \in 1..Len(r.file)
<1>1. r.n \in Nat /\ r.n \notin {0, 1} BY DEF DocRequests
<1>2. r.file \in Files BY <1>1 DEF DocHeld, DocRequests
<1>3. Len(r.file) \in Nat BY <1>2, FileLength
<1>4. r.file # <<>> BY <1>1 DEF DocHeld
<1>5. r.pc \in {"line", "create", "update", "embed"} BY <1>1, <1>4 DEF DocHeld, DocRequests, DocIdle
<1>6. r.n <= Len(r.file) + 1 BY <1>1, <1>3, <1>4, <1>5 DEF DocHeld, AtFull
<1> QED BY <1>1, <1>2, <1>3, <1>6

(* Who only looks on keeps what it has: a key that was changed under it is *)
(* among those it excepts.                                                 *)
LEMMA OthersKeep ==
    ASSUME DocInv, NEW K, DocKeep(K), NEW q \in DocRequests, DocHeld(q), NEW r, r = [q EXCEPT !.others = @ \cup K], q.pc # "idle"
    PROVE  r \in DocRequests /\ DocHeld(r)'
<1>1. K \subseteq DocKeys /\ docBorn' \in docBorn..MaxDocs /\ docBorn \in Nat /\ MaxDocs \in Nat
      BY DocNumbers DEF DocKeep, DocInv, DocTypes
<1>2. {"pc", "file", "n", "id", "key", "rows", "others"} \subseteq DOMAIN q BY DEF DocRequests
<1>3. /\ r.pc = q.pc /\ r.file = q.file /\ r.n = q.n /\ r.id = q.id /\ r.key = q.key
      /\ r.others = q.others \cup K
      BY <1>2
<1>4. q.others \subseteq DocKeys BY DEF DocRequests
<1>5. r \in DocRequests
  <2>1. q.others \cup K \subseteq DocKeys BY <1>1, <1>4
  <2> QED BY <2>1 DEF DocRequests
<1>6. r.id <= docBorn' BY <1>1, <1>3 DEF DocHeld, DocRequests
<1>7. r.pc = "line" => r.file \in Files /\ r.n \in 1..(Len(r.file) + 1) BY <1>3 DEF DocHeld
<1>8. r.pc \in {"create", "update"} => AtFull(r) BY <1>3 DEF DocHeld, AtFull
<1>9. ASSUME r.pc = "update"
      PROVE  /\ r.id \in DocIds
             /\ There(r.id)' /\ doc'[r.id].key # r.file[r.n].key => {doc'[r.id].key, r.file[r.n].key} \subseteq r.others
  <2>1. /\ q.id \in DocIds /\ q.id <= docBorn
        /\ There(q.id) /\ doc[q.id].key # q.file[q.n].key => {doc[q.id].key, q.file[q.n].key} \subseteq q.others
        BY <1>3, <1>9 DEF DocHeld
  <2>2. SUFFICES ASSUME There(q.id)', doc'[q.id].key # q.file[q.n].key
                 PROVE  {doc'[q.id].key, q.file[q.n].key} \subseteq q.others \cup K
        BY <1>3, <2>1
  <2>3. q.id \in Nat BY DEF DocRequests
  <2>4. There(q.id) BY <1>1, <2>1, <2>2, <2>3 DEF DocKeep
  <2>5. doc'[q.id].key # doc[q.id].key => {doc[q.id].key, doc'[q.id].key} \subseteq K
        BY <2>1, <2>2, <2>4 DEF DocKeep
  <2> QED BY <2>1, <2>2, <2>4, <2>5
<1>10. ASSUME r.pc = "embed"
       PROVE  /\ r.id \in DocIds /\ r.key \in DocKeys
              /\ r.file # <<>> => AtFull(r) /\ (r.file[r.n].key \in r.others \/ In(r.file[r.n])')
  <2>1. /\ q.id \in DocIds /\ q.key \in DocKeys
        /\ q.file # <<>> => AtFull(q) /\ (q.file[q.n].key \in q.others \/ In(q.file[q.n]))
        BY <1>3, <1>10 DEF DocHeld
  <2>2. ASSUME q.file # <<>>, q.file[q.n].key \notin q.others \cup K PROVE In(q.file[q.n])'
        BY <2>1, <2>2, LineStays DEF AtFull
  <2> QED BY <2>1, <2>2, <1>3 DEF AtFull
<1>11. ASSUME NEW n \in 1..(r.n - 1), Stands(r, n) PROVE In(r.file[n])'
  <2>1. n \in 1..(q.n - 1) /\ Stands(q, n) /\ q.file[n].key \notin K BY <1>3, <1>11 DEF Stands
  <2>2. In(q.file[n]) BY <2>1 DEF DocHeld
  <2>3. q.file \in Files /\ n \in 1..Len(q.file) BY <2>1, PassedLines
  <2>4. In(q.file[n])' BY <2>1, <2>2, <2>3, LineStays
  <2> QED BY <2>4, <1>3 DEF In
<1>12. (r.pc = "sync" => r.file = <<>>) /\ (r.file = <<>> => r.n \in {0, 1}) BY <1>3 DEF DocHeld
<1>13. r.pc # "idle" BY <1>3
<1> QED
  <2>1. (\A n \in 1..(r.n - 1) : Stands(r, n) => In(r.file[n]))' BY <1>11 DEF Stands
  <2> QED BY <2>1, <1>5, <1>6, <1>7, <1>8, <1>9, <1>10, <1>12, <1>13 DEF DocHeld, AtFull

(* A step of e leaves documents of other keys alone, and e with what it    *)
(* should hold.                                                            *)
DocTakes(e) == \E K \in SUBSET DocKeys, r \in DocRequests : DocKeep(K) /\ DocOn(e, r, K) /\ DocHeld(r)'

LEMMA DocEnding == ASSUME DocInv, NEW e \in Editors, NEW K, DocKeep(K), DocEnds(e, K) PROVE DocTakes(e)
<1>1. K \in SUBSET DocKeys /\ docBorn' \in docBorn..MaxDocs BY DEF DocKeep
<1>2. PICK r \in DocRequests : r = DocIdle BY DocIdleTyped
<1>3. DocHeld(r)' BY <1>1, <1>2, DocIdleHeld DEF DocHeld, DocIdle
<1>4. DocOn(e, r, K) BY <1>2 DEF DocEnds
<1> QED BY <1>1, <1>3, <1>4 DEF DocTakes

(* A new request has passed no line.                                       *)
LEMMA DocStarting ==
    ASSUME DocInv, NEW e \in Editors, NEW K, DocKeep(K), NEW r \in DocRequests, DocOn(e, r, K),
           \/ r.pc = "embed" /\ r.file = <<>> /\ r.id \in DocIds /\ r.id <= docBorn' /\ r.key \in DocKeys /\ r.n = 0
           \/ r.pc = "line" /\ r.file \in Files /\ r.n = 1 /\ r.id = 0
           \/ r.pc = "sync" /\ r.file = <<>> /\ r.n = 0 /\ r.id = 0
    PROVE  DocTakes(e)
<1>1. K \in SUBSET DocKeys /\ docBorn' \in docBorn..MaxDocs /\ docBorn \in Nat /\ MaxDocs \in Nat
      BY DocNumbers DEF DocKeep, DocInv, DocTypes
<1>2. r.id <= docBorn' BY <1>1
<1>3. 1..(r.n - 1) = {} OBVIOUS
<1>4. r.pc = "line" => r.n \in 1..(Len(r.file) + 1) BY FileLength
<1>5. DocHeld(r)' BY <1>2, <1>3, <1>4 DEF DocHeld
<1> QED BY <1>1, <1>5 DEF DocTakes

(* A request that goes on with its line has passed no other.               *)
LEMMA DocGoing ==
    ASSUME DocInv, NEW e \in Editors, NEW q \in DocRequests, DocHeld(q), NEW K, DocKeep(K), NEW r \in DocRequests, DocOn(e, r, K),
           AtFull(q), r.file = q.file, r.n = q.n, r.others = q.others,
           \/ r.pc = "create" /\ r.id <= docBorn'
           \/ /\ r.pc = "update" /\ r.id \in DocIds /\ r.id <= docBorn'
              /\ There(r.id)' => doc'[r.id].key = r.file[r.n].key
           \/ r.pc = "embed" /\ r.id \in DocIds /\ r.id <= docBorn' /\ r.key \in DocKeys /\ In(r.file[r.n])',
           \A n \in 1..(q.n - 1) : Stands(q, n) => In(q.file[n])'
    PROVE  DocTakes(e)
<1>1. K \in SUBSET DocKeys BY DEF DocKeep
<1>2. AtFull(r) BY DEF AtFull
<1>3. r.file # <<>> BY <1>2, LineType DEF AtFull
<1>4. \A n \in 1..(r.n - 1) : Stands(r, n) => In(r.file[n])' BY DEF Stands
<1>5. r.id <= docBorn' OBVIOUS
<1>6. DocHeld(r)' BY <1>2, <1>3, <1>4, <1>5 DEF DocHeld, AtFull, Stands
<1> QED BY <1>1, <1>6 DEF DocTakes

(* A line is passed: it has been imported, or its key was changed by       *)
(* somebody else, or it is none to import.                                 *)
LEMMA NextTakes ==
    ASSUME DocInv, NEW e \in Editors, NEW q \in DocRequests, q = docReq[e], q.file \in Files, q.n \in 1..Len(q.file),
           NEW K, DocKeep(K), DocOn(e, NextLine(e), K),
           q.file[q.n].kind = "full" /\ q.file[q.n].key \notin q.others => In(q.file[q.n])',
           \A n \in 1..(q.n - 1) : Stands(q, n) /\ (q.file[q.n].kind # "full" \/ q.file[q.n].key # q.file[n].key) => In(q.file[n])'
    PROVE  DocTakes(e)
<1>1. K \in SUBSET DocKeys /\ docBorn' \in docBorn..MaxDocs /\ docBorn \in Nat /\ MaxDocs \in Nat
      BY DocNumbers DEF DocKeep, DocInv, DocTypes
<1>2. PICK r : r = NextLine(e) OBVIOUS
<1>3. {"pc", "file", "n", "id", "key", "rows", "others"} \subseteq DOMAIN q BY DEF DocRequests
<1>4. r = [q EXCEPT !.pc = "line", !.n = @ + 1, !.id = 0, !.key = Blank] BY <1>2 DEF NextLine
<1>5. r.pc = "line" /\ r.file = q.file /\ r.n = q.n + 1 /\ r.id = 0 /\ r.others = q.others /\ r.key = Blank /\ r.rows = q.rows
      BY <1>3, <1>4
<1>6. q.n \in Nat /\ Len(q.file) \in Nat /\ q.file # <<>> BY LineType DEF DocRequests
<1>7. r \in DocRequests
  <2>1. q.n + 1 \in Nat /\ 0 \in Nat /\ Blank \in DocKeys \cup {Blank} BY <1>6
  <2>2. PICK m \in Nat : m = q.n + 1 BY <2>1
  <2>3. r = [q EXCEPT !.pc = "line", !.n = m, !.id = 0, !.key = Blank] BY <1>3, <1>4, <2>2
  <2> QED BY <2>1, <2>3 DEF DocRequests
<1>8. r.n \in 1..(Len(r.file) + 1) BY <1>5, <1>6
<1>9. ASSUME NEW n \in 1..(r.n - 1), Stands(r, n) PROVE In(r.file[n])'
  <2>1. n \in 1..q.n /\ r.file[n].kind = "full" /\ r.file[n].key \notin q.others BY <1>5, <1>6, <1>9 DEF Stands
  <2>2. CASE n = q.n BY <2>1, <2>2, <1>5
  <2>3. CASE n # q.n
    <3>1. n \in 1..(q.n - 1) /\ q.n > n /\ q.n \in 1..(r.n - 1) BY <2>1, <2>3, <1>5, <1>6
    <3>2. q.file[q.n].kind # "full" \/ q.file[q.n].key # q.file[n].key BY <3>1, <1>5, <1>9 DEF Stands
    <3>3. \A m \in 1..(q.n - 1) : m \in 1..(r.n - 1) BY <1>5, <1>6
    <3>4. Stands(q, n) BY <3>3, <1>5, <1>9 DEF Stands
    <3> QED BY <3>1, <3>2, <3>4, <1>5
  <2> QED BY <2>2, <2>3
<1>10. r.id <= docBorn' BY <1>1, <1>5
<1>11. r.file # <<>> BY <1>5, <1>6
<1>12. (\A n \in 1..(r.n - 1) : Stands(r, n) => In(r.file[n]))' BY <1>9 DEF Stands
<1>13. DocHeld(r)' BY <1>5, <1>8, <1>10, <1>11, <1>12 DEF DocHeld
<1> QED BY <1>1, <1>2, <1>7, <1>13 DEF DocTakes

LEMMA DocHolds == ASSUME DocInv, NEW e \in Editors, ~DocAt(e, "idle") PROVE docReq[e] \in DocRequests /\ DocHeld(docReq[e]) /\ docReq[e].pc # "idle"
BY DEF DocInv, DocTypes, DocAt

LEMMA NoKeys == {} \in SUBSET DocKeys
OBVIOUS

(* Without a write everything is where it was.                             *)
LEMMA SameIn == ASSUME UNCHANGED doc, NEW line, In(line) PROVE In(line)'
BY DEF In

LEMMA CreateTakes == ASSUME DocInv, NEW e \in Editors, KBCreate(e) PROVE DocTakes(e)
<1>1. PICK k \in DocKeys, t \in Texts : DocInsert(k, t) /\ DocOn(e, [DocIdle EXCEPT !.pc = "embed", !.id = docBorn + 1, !.key = k], {k})
      BY DEF KBCreate
<1>2. DocKeep({k}) /\ docBorn + 1 \in DocIds /\ docBorn' = docBorn + 1 BY <1>1, InsertKeeps DEF DocInsert
<1>3. PICK i \in DocIds : i = docBorn + 1 BY <1>2
<1>4. i \in Nat BY DocNumbers
<1>5. PICK r \in DocRequests : r = [DocIdle EXCEPT !.pc = "embed", !.id = i, !.key = k]
      BY <1>4, DocIdleTyped DEF DocRequests
<1>6. r.pc = "embed" /\ r.file = <<>> /\ r.id = i /\ r.key = k /\ r.n = 0 BY <1>5 DEF DocIdle
<1>7. DocOn(e, r, {k}) BY <1>1, <1>3, <1>5
<1>8. r.id <= docBorn' BY <1>2, <1>3, <1>4, <1>6
<1> QED BY <1>2, <1>6, <1>7, <1>8, DocStarting

LEMMA DocEmbedTakes == ASSUME DocInv, NEW e \in Editors, DocEmbed(e) PROVE DocTakes(e)
<1>1. PICK q \in DocRequests : q = docReq[e] /\ DocHeld(q) /\ q.pc = "embed" BY DocHolds DEF DocEmbed, DocAt
<1>2. DocKeep({}) BY DocsRest, NoKeys DEF DocEmbed
<1>3. DocOn(e, AfterEmbed(e), {}) \/ DocOn(e, LineFails(e), {}) BY DEF DocEmbed
<1>4. CASE DocOn(e, LineFails(e), {}) \/ q.file = <<>>
  <2>1. DocEnds(e, {}) BY <1>1, <1>3, <1>4 DEF DocEnds, LineFails, AfterEmbed
  <2> QED BY <2>1, <1>2, DocEnding
<1>5. CASE DocOn(e, AfterEmbed(e), {}) /\ q.file # <<>>
  <2>1. DocOn(e, NextLine(e), {}) BY <1>1, <1>5 DEF AfterEmbed
  <2>2. AtFull(q) /\ (q.file[q.n].key \in q.others \/ In(q.file[q.n])) BY <1>1, <1>5 DEF DocHeld
  <2>3. q.file[q.n].key \notin q.others => In(q.file[q.n])' BY <2>2, SameIn DEF DocEmbed
  <2>4. \A n \in 1..(q.n - 1) : Stands(q, n) => In(q.file[n])' BY <1>1, SameIn DEF DocHeld, DocEmbed
  <2> QED BY <1>1, <1>2, <2>1, <2>2, <2>3, <2>4, NextTakes DEF AtFull
<1> QED BY <1>3, <1>4, <1>5

LEMMA ImportStarts == ASSUME DocInv, NEW e \in Editors, ImportDocs(e) PROVE DocTakes(e)
<1>1. PICK f \in Files : DocOn(e, [DocIdle EXCEPT !.pc = "line", !.file = f, !.n = 1], {}) BY DEF ImportDocs
<1>2. DocKeep({}) BY DocsRest, NoKeys DEF ImportDocs
<1>3. PICK r \in DocRequests : r = [DocIdle EXCEPT !.pc = "line", !.file = f, !.n = 1]
      BY DocIdleTyped DEF DocRequests
<1>4. r.pc = "line" /\ r.file = f /\ r.n = 1 /\ r.id = 0 BY <1>3 DEF DocIdle
<1> QED BY <1>1, <1>2, <1>3, <1>4, DocStarting

LEMMA ImportStops == ASSUME DocInv, NEW e \in Editors, EndOfImport(e) PROVE DocTakes(e)
BY DocEnding, DocsRest, NoKeys DEF EndOfImport

LEMMA ReadTakes == ASSUME DocInv, NEW e \in Editors, ReadLine(e) PROVE DocTakes(e)
<1>1. PICK q \in DocRequests : q = docReq[e] /\ DocHeld(q) /\ q.pc = "line" BY DocHolds DEF ReadLine, DocAt
<1>2. q.file \in Files /\ q.n \in 1..(Len(q.file) + 1) /\ ~(q.n > Len(q.file)) BY <1>1 DEF ReadLine, AtEnd, DocHeld
<1>3. Len(q.file) \in Nat BY <1>2, FileLength
<1>4. q.n \in 1..Len(q.file) /\ Line(e) = q.file[q.n] BY <1>1, <1>2, <1>3 DEF Line
<1>5. DocKeep({}) BY DocsRest, NoKeys DEF ReadLine
<1>6. \A n \in 1..(q.n - 1) : Stands(q, n) => In(q.file[n])' BY <1>1, SameIn DEF DocHeld, ReadLine
<1>7. q.id \in Nat /\ docBorn \in Nat /\ docBorn' = docBorn /\ q.id <= docBorn
  <2>1. q.id \in Nat BY DEF DocRequests
  <2>2. docBorn' = docBorn BY DEF ReadLine
  <2>3. docBorn \in Nat BY DocNumbers DEF DocInv, DocTypes
  <2>4. q.id <= docBorn BY <1>1 DEF DocHeld
  <2> QED BY <2>1, <2>2, <2>3, <2>4
<1>8. CASE ~Wanted(Line(e)) /\ DocOn(e, NextLine(e), {})
  <2>1. q.file[q.n].kind # "full" BY <1>4, <1>8 DEF Wanted
  <2> QED BY <1>1, <1>2, <1>4, <1>5, <1>6, <1>8, <2>1, NextTakes
<1>9. CASE Wanted(Line(e)) /\ DocOn(e, [docReq[e] EXCEPT !.pc = "create"], {})
  <2>1. AtFull(q) BY <1>2, <1>4, <1>9 DEF Wanted, AtFull
  <2>2. PICK r \in DocRequests : r = [q EXCEPT !.pc = "create"] BY DEF DocRequests
  <2>3. r.pc = "create" /\ r.id = q.id /\ r.file = q.file /\ r.n = q.n /\ r.others = q.others BY <2>2 DEF DocRequests
  <2>4. DocOn(e, r, {}) BY <1>1, <1>9, <2>2
  <2> QED BY <1>1, <1>5, <1>6, <1>7, <2>1, <2>3, <2>4, DocGoing
<1>10. ASSUME Wanted(Line(e)), NEW i \in DocIds, doc[i].key = Line(e).key, DocOn(e, [docReq[e] EXCEPT !.pc = "update", !.id = i], {})
       PROVE  DocTakes(e)
  <2>1. AtFull(q) BY <1>2, <1>4, <1>10 DEF Wanted, AtFull
  <2>2. Line(e).key \in DocKeys BY <1>2, <1>4, LineType
  <2>3. There(i) /\ i <= docBorn /\ i \in Nat BY <1>10, <2>2, KeyIsThere, DocNumbers DEF DocInv, DocTypes
  <2>4. PICK r \in DocRequests : r = [q EXCEPT !.pc = "update", !.id = i] BY <2>3 DEF DocRequests
  <2>5. r.pc = "update" /\ r.id = i /\ r.file = q.file /\ r.n = q.n /\ r.others = q.others BY <2>4 DEF DocRequests
  <2>6. DocOn(e, r, {}) BY <1>1, <1>10, <2>4
  <2>7. doc'[r.id].key = r.file[r.n].key BY <1>4, <1>10, <2>5 DEF ReadLine
  <2> QED BY <1>1, <1>5, <1>6, <1>7, <1>10, <2>1, <2>3, <2>5, <2>6, <2>7, DocGoing
<1> QED BY <1>8, <1>9, <1>10 DEF ReadLine

LEMMA ImportInsertsTakes == ASSUME DocInv, NEW e \in Editors, ImportInserts(e) PROVE DocTakes(e)
<1>1. PICK q \in DocRequests : q = docReq[e] /\ DocHeld(q) /\ q.pc = "create" BY DocHolds DEF ImportInserts, DocAt
<1>2. AtFull(q) /\ q.file \in Files /\ q.n \in 1..Len(q.file) /\ Line(e) = q.file[q.n] BY <1>1 DEF DocHeld, AtFull, Line
<1>3. CASE DocOn(e, LineFails(e), {}) /\ UNCHANGED <<doc, docBorn>>
  <2>1. DocKeep({}) BY <1>3, DocsRest, NoKeys
  <2> QED BY <1>3, <2>1, DocEnding DEF DocEnds, LineFails
<1>4. ASSUME DocInsert(Line(e).key, Line(e).text), DocOn(e, [docReq[e] EXCEPT !.pc = "embed", !.id = docBorn + 1, !.key = Line(e).key], {Line(e).key})
      PROVE  DocTakes(e)
  <2>1. PICK k \in DocKeys, t \in Texts : k = Line(e).key /\ t = Line(e).text BY <1>2, LineType DEF AtFull
  <2>2. DocKeep({k}) /\ docBorn + 1 \in DocIds /\ docBorn' = docBorn + 1 /\ doc'[docBorn + 1] = [key |-> k, text |-> t]
        BY <1>4, <2>1, InsertKeeps DEF DocInsert
  <2>3. PICK i \in DocIds : i = docBorn + 1 BY <2>2
  <2>4. i \in Nat BY DocNumbers
  <2>5. PICK r \in DocRequests : r = [q EXCEPT !.pc = "embed", !.id = i, !.key = k]
        BY <2>4 DEF DocRequests
  <2>6. r.pc = "embed" /\ r.id = i /\ r.key = k /\ r.file = q.file /\ r.n = q.n /\ r.others = q.others
        BY <2>5 DEF DocRequests
  <2>7. DocOn(e, r, {k}) BY <1>1, <1>4, <2>1, <2>3, <2>5
  <2>8. r.id <= docBorn' BY <2>2, <2>3, <2>4, <2>6
  <2>9. In(r.file[r.n])' BY <1>2, <2>1, <2>2, <2>3, <2>6 DEF In
  <2>10. ASSUME NEW n \in 1..(q.n - 1), Stands(q, n) PROVE In(q.file[n])'
    <3>1. In(q.file[n]) /\ q.file \in Files /\ n \in 1..Len(q.file) BY <1>1, <2>10, PassedLines DEF DocHeld
    <3>2. PICK j \in DocIds : doc[j] = [key |-> q.file[n].key, text |-> q.file[n].text] BY <3>1 DEF In
    <3>3. q.file[n].key \notin {k} BY <1>4, <2>1, <3>2 DEF DocInsert, Free
    <3> QED BY <2>2, <3>1, <3>3, LineStays
  <2> QED BY <1>1, <1>2, <2>2, <2>6, <2>7, <2>8, <2>9, <2>10, DocGoing
<1> QED BY <1>3, <1>4 DEF ImportInserts

LEMMA ImportOverwritesTakes == ASSUME DocInv, NEW e \in Editors, ImportOverwrites(e) PROVE DocTakes(e)
<1>1. PICK q \in DocRequests : q = docReq[e] /\ DocHeld(q) /\ q.pc = "update" BY DocHolds DEF ImportOverwrites, DocAt
<1>2. AtFull(q) /\ q.file \in Files /\ q.n \in 1..Len(q.file) /\ Line(e) = q.file[q.n] BY <1>1 DEF DocHeld, AtFull, Line
<1>3. CASE DocOn(e, LineFails(e), {}) /\ UNCHANGED <<doc, docBorn>>
  <2>1. DocKeep({}) BY <1>3, DocsRest, NoKeys
  <2> QED BY <1>3, <2>1, DocEnding DEF DocEnds, LineFails
<1>4. PICK i \in DocIds : i = q.id /\ i = docReq[e].id BY <1>1 DEF DocHeld
<1>5. ASSUME There(i), doc' = [doc EXCEPT ![i].text = Line(e).text], UNCHANGED docBorn, DocOn(e, NextLine(e), {doc[i].key})
      PROVE  DocTakes(e)
  <2>1. doc[i] \in DocRow BY <1>5, RowOfDoc
  <2>2. PICK k \in DocKeys, t \in Texts : k = doc[i].key /\ t = Line(e).text BY <1>2, <2>1, LineType DEF AtFull, DocRow
  <2>3. PICK row \in DocRow : row = [key |-> k, text |-> t] BY DEF DocRow
  <2>4. [doc[i] EXCEPT !.text = t] = row BY <2>1, <2>2, <2>3 DEF DocRow
  <2>5. doc' = [doc EXCEPT ![i] = row] BY <1>5, <2>2, <2>4
  <2>6. DocChange(i, row) BY <1>5, <2>5 DEF DocChange
  <2>7. row.key = k /\ k \in {k} /\ {k} \in SUBSET DocKeys BY <2>3
  <2>8. DocKeep({k}) BY <1>5, <2>2, <2>6, <2>7, ChangeKeeps
  <2>9. doc'[i] = [key |-> k, text |-> t] BY <2>3, <2>5 DEF DocInv, DocTypes
  <2>10. doc[i].key # q.file[q.n].key => {doc[i].key, q.file[q.n].key} \subseteq q.others BY <1>1, <1>4, <1>5 DEF DocHeld
  <2>11. q.file[q.n].key \notin q.others => In(q.file[q.n])' BY <1>2, <2>2, <2>9, <2>10 DEF In
  <2>12. ASSUME NEW n \in 1..(q.n - 1), Stands(q, n), q.file[q.n].kind # "full" \/ q.file[q.n].key # q.file[n].key
         PROVE  In(q.file[n])'
    <3>1. In(q.file[n]) /\ q.file \in Files /\ n \in 1..Len(q.file) BY <1>1, <2>12, PassedLines DEF DocHeld
    <3>2. q.file[n].key \notin q.others /\ q.file[q.n].key # q.file[n].key BY <1>2, <2>12 DEF Stands, AtFull
    <3>3. q.file[n].key \notin {k} BY <2>2, <2>10, <3>2
    <3> QED BY <2>8, <3>1, <3>3, LineStays
  <2>13. DocOn(e, NextLine(e), {k}) BY <1>5, <2>2
  <2> QED BY <1>1, <1>2, <2>8, <2>11, <2>12, <2>13, NextTakes
<1>6. \/ There(i) /\ doc' = [doc EXCEPT ![i].text = Line(e).text] /\ UNCHANGED docBorn /\ DocOn(e, NextLine(e), {doc[i].key})
      \/ DocOn(e, LineFails(e), {}) /\ UNCHANGED <<doc, docBorn>>
      BY <1>4 DEF ImportOverwrites
<1> QED BY <1>3, <1>5, <1>6

LEMMA PutTakes == ASSUME DocInv, NEW e \in Editors, PutDocument(e) PROVE DocTakes(e)
<1>1. PICK i \in DocIds, k \in DocKeys, t \in Texts :
          /\ There(i) /\ (k = doc[i].key \/ Free(k))
          /\ doc' = [doc EXCEPT ![i] = [key |-> k, text |-> t]]
          /\ DocEnds(e, {k, doc[i].key})
      BY DEF PutDocument
<1>2. PICK row \in DocRow : row = [key |-> k, text |-> t] BY DEF DocRow
<1>3. DocChange(i, row) BY <1>1, <1>2 DEF DocChange, PutDocument
<1>4. doc[i].key \in DocKeys BY <1>1, RowOfDoc DEF DocRow
<1>5. PICK K \in SUBSET DocKeys : K = {k, doc[i].key} BY <1>4
<1>6. row.key = k /\ k \in K /\ doc[i].key \in K BY <1>2, <1>5
<1>7. DocKeep(K) BY <1>1, <1>3, <1>6, ChangeKeeps
<1>8. DocEnds(e, K) BY <1>1, <1>5
<1> QED BY <1>7, <1>8, DocEnding

LEMMA DocDeleteTakes == ASSUME DocInv, NEW e \in Editors, DeleteDocument(e) PROVE DocTakes(e)
<1>1. PICK i \in DocIds : There(i) /\ Gone(i) /\ DocEnds(e, {doc[i].key}) BY DEF DeleteDocument
<1>2. doc[i].key \in DocKeys BY <1>1, RowOfDoc DEF DocRow
<1>3. DocChange(i, NoDoc) BY <1>1 DEF DocChange, DeleteDocument, Gone
<1>4. PICK K \in SUBSET DocKeys : K = {doc[i].key} BY <1>2
<1>5. DocKeep(K) BY <1>1, <1>3, <1>4, ChangeKeeps
<1> QED BY <1>1, <1>4, <1>5, DocEnding

LEMMA DocSyncsTakes == ASSUME DocInv, NEW e \in Editors, SyncDocs(e) PROVE DocTakes(e)
<1>1. DocOn(e, [DocIdle EXCEPT !.pc = "sync", !.rows = {[id |-> i, doc |-> doc[i]] : i \in FirstDocs}], {}) BY DEF SyncDocs
<1>2. \A i \in FirstDocs : i \in DocIds /\ There(i) BY DEF FirstDocs
<1>3. \A i \in FirstDocs : [id |-> i, doc |-> doc[i]] \in DocCopies BY <1>2, RowOfDoc DEF DocCopies
<1>4. PICK m \in SUBSET DocCopies : m = {[id |-> i, doc |-> doc[i]] : i \in FirstDocs} BY <1>3
<1>5. PICK r \in DocRequests : r = [DocIdle EXCEPT !.pc = "sync", !.rows = m] BY DocIdleTyped DEF DocRequests
<1>6. r.pc = "sync" /\ r.file = <<>> /\ r.n = 0 /\ r.id = 0 BY <1>5 DEF DocIdle
<1>7. DocKeep({}) BY DocsRest, NoKeys DEF SyncDocs
<1>8. DocOn(e, r, {}) BY <1>1, <1>4, <1>5
<1> QED BY <1>6, <1>7, <1>8, DocStarting

LEMMA SyncDocTakes == ASSUME DocInv, NEW e \in Editors, SyncDoc(e) PROVE DocTakes(e)
<1>1. PICK q \in DocRequests : q = docReq[e] /\ DocHeld(q) /\ q.pc = "sync" BY DocHolds DEF SyncDoc, DocAt
<1>2. DocKeep({}) BY DocsRest, NoKeys DEF SyncDoc
<1>3. CASE DocEnds(e, {}) BY <1>2, <1>3, DocEnding
<1>4. ASSUME NEW rest \in SUBSET q.rows, DocOn(e, [docReq[e] EXCEPT !.rows = rest], {}) PROVE DocTakes(e)
  <2>1. rest \in SUBSET DocCopies BY DEF DocRequests
  <2>2. PICK r \in DocRequests : r = [q EXCEPT !.rows = rest] BY <2>1 DEF DocRequests
  <2>3. r.pc = "sync" /\ r.file = q.file /\ r.n = q.n /\ r.id = q.id /\ r.others = q.others BY <1>1, <2>2 DEF DocRequests
  <2>4. q.file = <<>> /\ q.n \in {0, 1} /\ 1..(q.n - 1) = {} BY <1>1 DEF DocHeld
  <2>5. DocOn(e, r, {}) BY <1>1, <1>4, <2>2
  <2>6. q.id <= docBorn' BY <1>1 DEF DocHeld, SyncDoc
  <2>7. DocHeld(r)' BY <2>3, <2>4, <2>6 DEF DocHeld
  <2> QED BY <1>2, <2>5, <2>7, NoKeys DEF DocTakes
<1>5. DocEnds(e, {}) \/ \E rest \in SUBSET q.rows : DocOn(e, [docReq[e] EXCEPT !.rows = rest], {})
  <2>1. PICK m \in docReq[e].rows : DocEnds(e, {}) \/ DocOn(e, [docReq[e] EXCEPT !.rows = docReq[e].rows \ {m}], {})
        BY DEF SyncDoc
  <2>2. docReq[e].rows \ {m} \in SUBSET q.rows BY <1>1
  <2> QED BY <2>1, <2>2
<1> QED BY <1>3, <1>4, <1>5

LEMMA DocStepTakes == ASSUME DocInv, NEW e \in Editors, DocStep(e) PROVE DocTakes(e)
<1>1. ASSUME EditorDies(e) PROVE DocTakes(e)
      BY <1>1, DocEnding, DocsRest, NoKeys DEF EditorDies
<1> QED BY <1>1, CreateTakes, DocEmbedTakes, ImportStarts, ImportStops, ReadTakes, ImportInsertsTakes,
           ImportOverwritesTakes, PutTakes, DocDeleteTakes, DocSyncsTakes, SyncDocTakes DEF DocStep

(* What e changes is of e: the other requests are where they were.         *)
LEMMA OthersAt ==
    ASSUME DocInv, NEW e \in Editors, NEW r, NEW K, DocOn(e, r, K), NEW x \in Editors, x # e
    PROVE  docReq'[x].pc = docReq[x].pc /\ docReq'[x].id = docReq[x].id /\ docReq'[x].key = docReq[x].key
<1>1. docReq[x] \in DocRequests BY DEF DocInv, DocTypes
<1>2. {"pc", "file", "n", "id", "key", "rows", "others"} \subseteq DOMAIN docReq[x] BY <1>1 DEF DocRequests
<1>3. docReq'[x] = IF docReq[x] = DocIdle THEN DocIdle ELSE [docReq[x] EXCEPT !.others = @ \cup K] BY DEF DocOn
<1> QED BY <1>2, <1>3

(* A document e does not make, whose key, vectors and mark stay, is found  *)
(* as before.                                                              *)
LEMMA FindStays ==
    ASSUME DocInv, NEW e \in Editors, NEW r, NEW K, DocOn(e, r, K), NEW i \in DocIds, ~(DocAt(e, "embed") /\ docReq[e].id = i),
           There(i)' => There(i) /\ doc'[i].key = doc[i].key, docVec[i] \subseteq docVec'[i], i \in docStale => i \in docStale'
    PROVE  Findable(i)'
<1>1. SUFFICES ASSUME There(i)', i \notin docStale'
               PROVE  \/ \E v \in docVec'[i] : v.key = doc'[i].key
                      \/ \E x \in Editors : DocAt(x, "embed")' /\ docReq'[x].id = i /\ docReq'[x].key = doc'[i].key
      BY DEF Findable
<1>2. There(i) /\ doc'[i].key = doc[i].key /\ i \notin docStale BY <1>1
<1>3. CASE \E v \in docVec[i] : v.key = doc[i].key BY <1>2, <1>3
<1>4. CASE \E x \in Editors : DocAt(x, "embed") /\ docReq[x].id = i /\ docReq[x].key = doc[i].key
  <2>1. PICK x \in Editors : DocAt(x, "embed") /\ docReq[x].id = i /\ docReq[x].key = doc[i].key BY <1>4
  <2>2. x # e BY <2>1
  <2>3. docReq'[x].pc = docReq[x].pc /\ docReq'[x].id = docReq[x].id /\ docReq'[x].key = docReq[x].key BY <2>2, OthersAt
  <2> QED BY <1>2, <2>1, <2>3 DEF DocAt
<1> QED BY <1>2, <1>3, <1>4 DEF DocInv, Findable

DocFinds ==
    /\ docVec' \in [DocIds -> SUBSET [key : DocKeys, words : Texts \cup {Blank}]] /\ docStale' \subseteq DocIds
    /\ \A i \in DocIds : Findable(i)'

(* Steps that only add to what is stale and leave every key and vector.    *)
LEMMA QuietFinds ==
    ASSUME DocInv, NEW e \in Editors, NEW r, NEW K, DocOn(e, r, K), ~DocAt(e, "embed"), UNCHANGED <<docVec, docStale>>,
           \A i \in DocIds : There(i)' => There(i) /\ doc'[i].key = doc[i].key
    PROVE  DocFinds
<1>1. \A i \in DocIds : Findable(i)' BY FindStays
<1> QED BY <1>1 DEF DocFinds, DocInv, DocTypes

(* The document somebody inserts is the one to embed.                      *)
LEMMA InsertFinds ==
    ASSUME DocInv, NEW e \in Editors, ~DocAt(e, "embed"), NEW k \in DocKeys, NEW t \in Texts, DocInsert(k, t),
           NEW r, NEW K, DocOn(e, r, K), r.pc = "embed", r.id = docBorn + 1, r.key = k, UNCHANGED <<docVec, docStale>>
    PROVE  DocFinds
<1>1. docBorn + 1 \in DocIds /\ doc'[docBorn + 1] = [key |-> k, text |-> t] BY InsertKeeps
<1>2. \A i \in DocIds : i # docBorn + 1 => doc'[i] = doc[i] BY DEF DocInsert, DocInv, DocTypes
<1>3. docReq'[e] = r BY DEF DocOn
<1>4. ASSUME NEW i \in DocIds, i # docBorn + 1 PROVE Findable(i)'
  <2>1. There(i)' => There(i) /\ doc'[i].key = doc[i].key BY <1>2, <1>4 DEF There
  <2> QED BY <2>1, FindStays
<1>5. ASSUME NEW i \in DocIds, i = docBorn + 1 PROVE Findable(i)'
  <2>1. docReq'[e].pc = "embed" /\ docReq'[e].id = i /\ docReq'[e].key = doc'[i].key BY <1>1, <1>3, <1>5
  <2> QED BY <2>1 DEF Findable, DocAt
<1> QED BY <1>4, <1>5 DEF DocFinds, DocInv, DocTypes

LEMMA CreateFinds == ASSUME DocInv, NEW e \in Editors, KBCreate(e) PROVE DocFinds
<1>1. PICK k \in DocKeys, t \in Texts : DocInsert(k, t) /\ DocOn(e, [DocIdle EXCEPT !.pc = "embed", !.id = docBorn + 1, !.key = k], {k})
      BY DEF KBCreate
<1>2. PICK r : r = [DocIdle EXCEPT !.pc = "embed", !.id = docBorn + 1, !.key = k] OBVIOUS
<1>3. r.pc = "embed" /\ r.id = docBorn + 1 /\ r.key = k BY <1>2 DEF DocIdle
<1>4. ~DocAt(e, "embed") BY DEF KBCreate, DocAt
<1> QED BY <1>1, <1>2, <1>3, <1>4, InsertFinds DEF KBCreate

LEMMA ImportInsertsFinds == ASSUME DocInv, NEW e \in Editors, ImportInserts(e) PROVE DocFinds
<1>1. PICK q \in DocRequests : q = docReq[e] /\ DocHeld(q) /\ q.pc = "create" BY DocHolds DEF ImportInserts, DocAt
<1>2. AtFull(q) /\ q.file \in Files /\ q.n \in 1..Len(q.file) /\ Line(e) = q.file[q.n] BY <1>1 DEF DocHeld, AtFull, Line
<1>3. ~DocAt(e, "embed") BY <1>1 DEF DocAt
<1>4. CASE DocOn(e, LineFails(e), {}) /\ UNCHANGED <<doc, docBorn>>
      BY <1>3, <1>4, QuietFinds DEF ImportInserts, There
<1>5. ASSUME DocInsert(Line(e).key, Line(e).text), DocOn(e, [docReq[e] EXCEPT !.pc = "embed", !.id = docBorn + 1, !.key = Line(e).key], {Line(e).key})
      PROVE  DocFinds
  <2>1. PICK k \in DocKeys, t \in Texts : k = Line(e).key /\ t = Line(e).text BY <1>2, LineType DEF AtFull
  <2>2. PICK r : r = [q EXCEPT !.pc = "embed", !.id = docBorn + 1, !.key = k] OBVIOUS
  <2>3. r.pc = "embed" /\ r.id = docBorn + 1 /\ r.key = k BY <2>2 DEF DocRequests
  <2>4. DocOn(e, r, {k}) BY <1>1, <1>5, <2>1, <2>2
  <2> QED BY <1>3, <1>5, <2>1, <2>3, <2>4, InsertFinds DEF ImportInserts
<1> QED BY <1>4, <1>5 DEF ImportInserts

LEMMA DocEmbedFinds == ASSUME DocInv, NEW e \in Editors, DocEmbed(e) PROVE DocFinds
<1>1. PICK q \in DocRequests : q = docReq[e] /\ DocHeld(q) /\ q.pc = "embed" BY DocHolds DEF DocEmbed, DocAt
<1>2. q.id \in DocIds /\ q.key \in DocKeys BY <1>1 DEF DocHeld
<1>3. PICK r : DocOn(e, r, {}) BY DEF DocEmbed
<1>4. PICK i \in DocIds : i = q.id /\ i = docReq[e].id BY <1>1, <1>2
<1>5. UNCHANGED doc BY DEF DocEmbed
<1>6. CASE /\ docVec' = [docVec EXCEPT ![i] = @ \cup {[key |-> q.key, words |-> Blank]}] /\ UNCHANGED docStale
  <2>1. [key |-> q.key, words |-> Blank] \in [key : DocKeys, words : Texts \cup {Blank}] BY <1>2
  <2>2. PICK v \in [key : DocKeys, words : Texts \cup {Blank}] : v = [key |-> q.key, words |-> Blank] BY <2>1
  <2>3. docVec \in [DocIds -> SUBSET [key : DocKeys, words : Texts \cup {Blank}]] /\ docVec' = [docVec EXCEPT ![i] = @ \cup {v}]
        BY <1>6, <2>2 DEF DocInv, DocTypes
  <2>4. docVec' \in [DocIds -> SUBSET [key : DocKeys, words : Texts \cup {Blank}]] BY <2>3
  <2>5. docVec'[i] = docVec[i] \cup {v} /\ \A j \in DocIds : docVec[j] \subseteq docVec'[j] BY <2>3
  <2>6. \A j \in DocIds : j # i => Findable(j)' BY <1>3, <1>4, <1>5, <1>6, <2>5, FindStays DEF There
  <2>7. Findable(i)'
    <3>1. SUFFICES ASSUME There(i), i \notin docStale
                   PROVE  \/ \E w \in docVec'[i] : w.key = doc[i].key
                          \/ \E x \in Editors : DocAt(x, "embed")' /\ docReq'[x].id = i /\ docReq'[x].key = doc[i].key
          BY <1>5, <1>6 DEF Findable, There
    <3>2. CASE \E w \in docVec[i] : w.key = doc[i].key BY <3>2, <2>5
    <3>3. CASE q.key = doc[i].key BY <3>3, <2>2, <2>5
    <3>4. CASE \E x \in Editors : x # e /\ DocAt(x, "embed") /\ docReq[x].id = i /\ docReq[x].key = doc[i].key
      <4>1. PICK x \in Editors : x # e /\ DocAt(x, "embed") /\ docReq[x].id = i /\ docReq[x].key = doc[i].key BY <3>4
      <4>2. docReq'[x].pc = docReq[x].pc /\ docReq'[x].id = docReq[x].id /\ docReq'[x].key = docReq[x].key BY <1>3, <4>1, OthersAt
      <4> QED BY <4>1, <4>2 DEF DocAt
    <3> QED BY <1>1, <3>1, <3>2, <3>3, <3>4 DEF DocInv, Findable
  <2> QED BY <2>4, <2>6, <2>7, <1>6 DEF DocFinds, DocInv, DocTypes
<1>7. CASE docStale' = docStale \cup {i} /\ UNCHANGED docVec
  <2>1. \A j \in DocIds : j # i => Findable(j)' BY <1>3, <1>4, <1>5, <1>7, FindStays DEF There
  <2>2. Findable(i)' BY <1>7 DEF Findable
  <2> QED BY <2>1, <2>2, <1>7 DEF DocFinds, DocInv, DocTypes
<1> QED BY <1>1, <1>4, <1>6, <1>7 DEF DocEmbed

LEMMA OverwritesFinds == ASSUME DocInv, NEW e \in Editors, ImportOverwrites(e) PROVE DocFinds
<1>1. PICK r, K : DocOn(e, r, K) BY DEF ImportOverwrites
<1>2. ~DocAt(e, "embed") BY DEF ImportOverwrites, DocAt
<1>3. PICK j : j = docReq[e].id OBVIOUS
<1>4. UNCHANGED doc \/ (There(j) /\ doc' = [doc EXCEPT ![j].text = Line(e).text]) BY <1>3 DEF ImportOverwrites
<1>5. ASSUME NEW i \in DocIds, There(i)' PROVE There(i) /\ doc'[i].key = doc[i].key
  <2>1. CASE i # j \/ UNCHANGED doc BY <2>1, <1>4, <1>5 DEF There, DocInv, DocTypes
  <2>2. CASE i = j /\ There(i) /\ doc' = [doc EXCEPT ![i].text = Line(e).text]
    <3>1. doc[i] \in DocRow BY <2>2, RowOfDoc
    <3>2. doc'[i] = [doc[i] EXCEPT !.text = Line(e).text] BY <2>2 DEF DocInv, DocTypes
    <3>3. doc'[i].key = doc[i].key BY <3>1, <3>2 DEF DocRow
    <3> QED BY <2>2, <3>3
  <2> QED BY <1>4, <2>1, <2>2
<1> QED BY <1>1, <1>2, <1>5, QuietFinds DEF ImportOverwrites

LEMMA PutFinds == ASSUME DocInv, NEW e \in Editors, PutDocument(e) PROVE DocFinds
<1>1. PICK i \in DocIds, k \in DocKeys, t \in Texts :
          /\ There(i)
          /\ doc' = [doc EXCEPT ![i] = [key |-> k, text |-> t]]
          /\ docStale' = IF k = doc[i].key THEN docStale ELSE docStale \cup {i}
          /\ DocEnds(e, {k, doc[i].key})
      BY DEF PutDocument
<1>2. doc'[i] = [key |-> k, text |-> t] /\ \A j \in DocIds : j # i => doc'[j] = doc[j] BY <1>1 DEF DocInv, DocTypes
<1>3. ~DocAt(e, "embed") /\ UNCHANGED docVec BY DEF PutDocument, DocAt
<1>4. \A j \in DocIds : j \in docStale => j \in docStale' BY <1>1
<1>5. \A j \in DocIds : j # i => Findable(j)' BY <1>1, <1>2, <1>3, <1>4, FindStays DEF There, DocEnds
<1>6. Findable(i)'
  <2>1. CASE k = doc[i].key
    <3>1. doc'[i].key = doc[i].key BY <1>2, <2>1
    <3> QED BY <1>1, <1>3, <1>4, <3>1, FindStays DEF DocEnds
  <2>2. CASE k # doc[i].key BY <1>1, <2>2 DEF Findable
  <2> QED BY <2>1, <2>2
<1>7. docStale' \subseteq DocIds BY <1>1 DEF DocInv, DocTypes
<1> QED BY <1>3, <1>5, <1>6, <1>7 DEF DocFinds, DocInv, DocTypes

LEMMA DeleteFinds == ASSUME DocInv, NEW e \in Editors, DeleteDocument(e) PROVE DocFinds
<1>1. PICK i \in DocIds : There(i) /\ Gone(i) /\ DocEnds(e, {doc[i].key}) BY DEF DeleteDocument
<1>2. ~DocAt(e, "embed") /\ UNCHANGED docStale BY DEF DeleteDocument, DocAt
<1>3. doc'[i] = NoDoc /\ \A j \in DocIds : j # i => doc'[j] = doc[j] /\ docVec'[j] = docVec[j] BY <1>1 DEF Gone, DocInv, DocTypes
<1>4. \A j \in DocIds : j # i => Findable(j)' BY <1>1, <1>2, <1>3, FindStays DEF There, DocEnds
<1>5. Findable(i)' BY <1>3 DEF Findable, There
<1>6. docVec' \in [DocIds -> SUBSET [key : DocKeys, words : Texts \cup {Blank}]] BY <1>1 DEF Gone, DocInv, DocTypes
<1> QED BY <1>2, <1>4, <1>5, <1>6 DEF DocFinds, DocInv, DocTypes

(* A replaced or added vector is among the document's vectors.             *)
LEMMA VectorGoes ==
    ASSUME DocInv, NEW i \in DocIds, NEW v \in [key : DocKeys, words : Texts \cup {Blank}], SyncVector(i, v)
    PROVE  /\ docVec' \in [DocIds -> SUBSET [key : DocKeys, words : Texts \cup {Blank}]]
           /\ v \in docVec'[i] /\ \A j \in DocIds : j # i => docVec'[j] = docVec[j]
<1>1. docVec \in [DocIds -> SUBSET [key : DocKeys, words : Texts \cup {Blank}]] BY DEF DocInv, DocTypes
<1>2. ASSUME NEW V \in SUBSET [key : DocKeys, words : Texts \cup {Blank}], v \in V, docVec' = [docVec EXCEPT ![i] = V]
      PROVE  /\ docVec' \in [DocIds -> SUBSET [key : DocKeys, words : Texts \cup {Blank}]]
             /\ v \in docVec'[i] /\ \A j \in DocIds : j # i => docVec'[j] = docVec[j]
      BY <1>1, <1>2
<1>3. \E V \in SUBSET [key : DocKeys, words : Texts \cup {Blank}] : v \in V /\ docVec' = [docVec EXCEPT ![i] = V]
  <2>1. docVec[i] \cup {v} \in SUBSET [key : DocKeys, words : Texts \cup {Blank}] BY <1>1
  <2>2. \A w : (docVec[i] \ {w}) \cup {v} \in SUBSET [key : DocKeys, words : Texts \cup {Blank}] BY <1>1
  <2>3. {v} \in SUBSET [key : DocKeys, words : Texts \cup {Blank}] OBVIOUS
  <2>4. CASE docVec' = [docVec EXCEPT ![i] = {v}] BY <2>3, <2>4
  <2>5. CASE \E w : docVec' = [docVec EXCEPT ![i] = (@ \ {w}) \cup {v}]
    <3>1. PICK w : docVec' = [docVec EXCEPT ![i] = (@ \ {w}) \cup {v}] BY <2>5
    <3>2. PICK V \in SUBSET [key : DocKeys, words : Texts \cup {Blank}] : V = (docVec[i] \ {w}) \cup {v} BY <2>2
    <3>3. docVec' = [docVec EXCEPT ![i] = V] /\ v \in V BY <3>1, <3>2
    <3> QED BY <3>3
  <2>6. CASE docVec' = [docVec EXCEPT ![i] = @ \cup {v}]
    <3>1. PICK V \in SUBSET [key : DocKeys, words : Texts \cup {Blank}] : V = docVec[i] \cup {v} BY <2>1
    <3>2. docVec' = [docVec EXCEPT ![i] = V] /\ v \in V BY <2>6, <3>1
    <3> QED BY <3>2
  <2> QED BY <2>4, <2>5, <2>6 DEF SyncVector
<1> QED BY <1>2, <1>3

LEMMA SyncFinds == ASSUME DocInv, NEW e \in Editors, SyncDoc(e) PROVE DocFinds
<1>1. PICK q \in DocRequests : q = docReq[e] /\ q.pc = "sync" BY DocHolds DEF SyncDoc, DocAt
<1>2. PICK m \in q.rows :
          \/ /\ SyncVector(m.id, [key |-> m.doc.key, words |-> m.doc.text])
             /\ docStale' = IF m.doc.key = doc[m.id].key THEN docStale \ {m.id} ELSE docStale \cup {m.id}
          \/ UNCHANGED <<docVec, docStale>>
      BY <1>1 DEF SyncDoc
<1>3. PICK r : DocOn(e, r, {}) BY DEF SyncDoc, DocEnds
<1>4. ~DocAt(e, "embed") /\ UNCHANGED doc BY <1>1 DEF SyncDoc, DocAt
<1>5. CASE UNCHANGED <<docVec, docStale>> BY <1>3, <1>4, <1>5, QuietFinds DEF There
<1>6. CASE /\ SyncVector(m.id, [key |-> m.doc.key, words |-> m.doc.text])
           /\ docStale' = IF m.doc.key = doc[m.id].key THEN docStale \ {m.id} ELSE docStale \cup {m.id}
  <2>1. m \in DocCopies BY DEF DocRequests
  <2>2. PICK i \in DocIds, v \in [key : DocKeys, words : Texts \cup {Blank}] : i = m.id /\ v = [key |-> m.doc.key, words |-> m.doc.text]
        BY <2>1 DEF DocCopies, DocRow
  <2>3. v.key = m.doc.key BY <2>2
  <2>4. /\ docVec' \in [DocIds -> SUBSET [key : DocKeys, words : Texts \cup {Blank}]]
        /\ v \in docVec'[i] /\ \A j \in DocIds : j # i => docVec'[j] = docVec[j]
        BY <1>6, <2>2, VectorGoes
  <2>5. docStale' = IF v.key = doc[i].key THEN docStale \ {i} ELSE docStale \cup {i} BY <1>6, <2>2, <2>3
  <2>6. \A j \in DocIds : j # i => Findable(j)' BY <1>3, <1>4, <2>4, <2>5, FindStays DEF There
  <2>7. Findable(i)' BY <1>4, <2>4, <2>5 DEF Findable
  <2>8. docStale' \subseteq DocIds BY <2>5 DEF DocInv, DocTypes
  <2> QED BY <2>4, <2>6, <2>7, <2>8 DEF DocFinds
<1> QED BY <1>2, <1>5, <1>6

LEMMA DiesFinds == ASSUME DocInv, NEW e \in Editors, EditorDies(e) PROVE DocFinds
<1>1. DocHeld(docReq[e]) BY DocHolds DEF EditorDies
<1>2. PICK r : DocOn(e, r, {}) BY DEF EditorDies, DocEnds
<1>3. UNCHANGED <<doc, docVec>> BY DEF EditorDies
<1>4. CASE ~DocAt(e, "embed") BY <1>2, <1>3, <1>4, QuietFinds DEF EditorDies, There
<1>5. CASE DocAt(e, "embed")
  <2>1. PICK i \in DocIds : i = docReq[e].id BY <1>1, <1>5 DEF DocHeld, DocAt
  <2>2. docStale' = docStale \cup {i} BY <1>5, <2>1 DEF EditorDies
  <2>3. \A j \in DocIds : j # i => Findable(j)' BY <1>2, <1>3, <2>1, <2>2, FindStays DEF There
  <2>4. Findable(i)' BY <2>2 DEF Findable
  <2> QED BY <1>3, <2>2, <2>3, <2>4 DEF DocFinds, DocInv, DocTypes
<1> QED BY <1>4, <1>5

LEMMA DocStepFinds == ASSUME DocInv, NEW e \in Editors, DocStep(e) PROVE DocFinds
<1>1. ASSUME ImportDocs(e) \/ EndOfImport(e) \/ ReadLine(e) \/ SyncDocs(e) PROVE DocFinds
  <2>1. PICK r, K : DocOn(e, r, K) BY <1>1 DEF ImportDocs, EndOfImport, DocEnds, ReadLine, SyncDocs
  <2>2. ~DocAt(e, "embed") /\ UNCHANGED <<doc, docVec, docStale>> BY <1>1 DEF ImportDocs, EndOfImport, ReadLine, SyncDocs, DocAt
  <2> QED BY <2>1, <2>2, QuietFinds DEF There
<1> QED BY <1>1, CreateFinds, DocEmbedFinds, ImportInsertsFinds, OverwritesFinds, PutFinds, DeleteFinds, SyncFinds, DiesFinds
    DEF DocStep

-----------------------------------------------------------------------------
LEMMA DocBeginning == DocInit => DocInv
<1>1. SUFFICES ASSUME DocInit PROVE DocInv OBVIOUS
<1>2. \A i \in DocIds : doc[i] = NoDoc BY <1>1 DEF DocInit
<1>3. \A i \in DocIds : ~There(i) BY <1>2 DEF There
<1>4. \A e \in Editors : docReq[e] = DocIdle BY <1>1 DEF DocInit
<1>5. docBorn = 0 /\ 0 \in 0..MaxDocs BY <1>1, DocNumbers DEF DocInit
<1>6. DocHeld(DocIdle)
  <2>1. 0 <= docBorn BY <1>5
  <2> QED BY <2>1 DEF DocHeld, DocIdle
<1>7. DocTypes
  <2>1. docReq \in [Editors -> DocRequests] BY <1>1, DocIdleTyped DEF DocInit
  <2> QED BY <1>1, <1>3, <1>5, <2>1 DEF DocTypes, DocInit
<1> QED BY <1>3, <1>4, <1>6, <1>7 DEF DocInv, Findable

LEMMA DocSteps == DocInv /\ [DocNext]_docVars => DocInv'
<1>1. SUFFICES ASSUME DocInv, [DocNext]_docVars PROVE DocInv' OBVIOUS
<1>2. CASE UNCHANGED docVars
  <2>1. doc' = doc /\ docBorn' = docBorn /\ docVec' = docVec /\ docReq' = docReq /\ docStale' = docStale BY <1>2 DEF docVars
  <2>2. DocTypes' BY <1>1, <2>1 DEF DocInv, DocTypes, There
  <2>3. (\A e \in Editors : DocHeld(docReq[e]))'
    <3>1. ASSUME NEW e \in Editors PROVE DocHeld(docReq[e])'
      <4>1. DocHeld(docReq[e]) BY <1>1 DEF DocInv
      <4> QED BY <2>1, <4>1 DEF DocHeld, In, AtFull, Stands, There
    <3> QED BY <3>1
  <2>4. (\A i \in DocIds : Findable(i))' BY <1>1, <2>1 DEF DocInv, Findable, There, DocAt
  <2> QED BY <2>2, <2>3, <2>4 DEF DocInv
<1>3. ASSUME NEW e \in Editors, DocStep(e) PROVE DocInv'
  <2>1. PICK K \in SUBSET DocKeys, r \in DocRequests : DocKeep(K) /\ DocOn(e, r, K) /\ DocHeld(r)'
        BY <1>1, <1>3, DocStepTakes DEF DocTakes
  <2>2. DocFinds BY <1>1, <1>3, DocStepFinds
  <2>3. docBorn' \in docBorn..MaxDocs /\ docBorn' \in 0..MaxDocs BY <1>1, <2>1, DocNumbers DEF DocKeep, DocInv, DocTypes
  <2>4. docReq'[e] = r /\ docReq' = [x \in Editors |-> docReq'[x]] BY <2>1 DEF DocOn
  <2>5. ASSUME NEW x \in Editors PROVE docReq'[x] \in DocRequests /\ DocHeld(docReq[x])'
    <3>1. CASE x = e BY <2>1, <2>4, <3>1
    <3>2. CASE x # e /\ docReq[x] = DocIdle
      <4>1. docReq'[x] = DocIdle BY <2>1, <3>2 DEF DocOn
      <4>2. DocHeld(DocIdle)' BY <1>1, <2>3, DocIdleHeld
      <4>3. DocHeld(docReq[x])' BY <4>1, <4>2 DEF DocHeld, DocIdle
      <4> QED BY <4>1, <4>3, DocIdleTyped
    <3>3. CASE x # e /\ docReq[x] # DocIdle
      <4>1. PICK q \in DocRequests : q = docReq[x] /\ DocHeld(q) /\ q.pc # "idle" BY <1>1, <3>3 DEF DocInv, DocTypes, DocHeld
      <4>2. PICK o : o = [q EXCEPT !.others = @ \cup K] OBVIOUS
      <4>3. docReq'[x] = o BY <2>1, <3>3, <4>1, <4>2 DEF DocOn
      <4>4. o \in DocRequests /\ DocHeld(o)' BY <1>1, <2>1, <4>1, <4>2, OthersKeep
      <4> QED BY <4>3, <4>4
    <3> QED BY <3>1, <3>2, <3>3
  <2>6. docReq' \in [Editors -> DocRequests] BY <2>4, <2>5
  <2>7. DocTypes' BY <2>1, <2>2, <2>3, <2>6 DEF DocKeep, DocFinds, DocTypes, There
  <2> QED BY <2>2, <2>5, <2>7 DEF DocFinds, DocInv
<1> QED BY <1>1, <1>2, <1>3 DEF DocNext

(* What holds of the documents and of the requests in every state.         *)
LEMMA DocKept == DocSpec => []DocInv
BY DocBeginning, DocSteps, PTL DEF DocSpec

(* The variables of the documents keep their types, and a title with its   *)
(* heading names one document (corpus_gen.go:133-141, and the unique index *)
(* of models/corpus/corpus_gen.go:117-123).                                *)
THEOREM DocumentsTypeCorrect == DocSpec => []DocTypeOK
<1>1. ASSUME DocInv PROVE DocTypeOK
  <2>1. \A i \in DocIds : There(i) => i <= docBorn /\ doc[i].key \in DocKeys /\ doc[i].text \in Texts
        BY <1>1, RowOfDoc DEF DocRow, DocInv, DocTypes
  <2>2. \A e \in Editors : docReq[e].id \in 0..docBorn /\ docReq[e].others \subseteq DocKeys
    <3>1. SUFFICES ASSUME NEW e \in Editors PROVE docReq[e].id \in 0..docBorn /\ docReq[e].others \subseteq DocKeys OBVIOUS
    <3>2. docReq[e] \in DocRequests /\ docReq[e].id <= docBorn BY <1>1 DEF DocInv, DocTypes, DocHeld
    <3>3. docBorn \in Nat BY <1>1, DocNumbers DEF DocInv, DocTypes
    <3>4. docReq[e].id \in Nat /\ docReq[e].others \subseteq DocKeys BY <3>2 DEF DocRequests
    <3> QED BY <3>2, <3>3, <3>4
  <2> QED BY <1>1, <2>1, <2>2 DEF DocInv, DocTypes, DocTypeOK
<1>2. DocInv => DocTypeOK BY <1>1
<1> QED BY <1>2, DocKept, PTL

(* A document is found by its title and heading, whatever imports, changes *)
(* and embedding commands crossed each other (corpus_x.go:337-357,         *)
(* 385-417, 541-585).                                                      *)
THEOREM DocumentsAreFound == DocSpec => []FoundByTitle
<1>1. ASSUME DocInv PROVE FoundByTitle
  <2>1. SUFFICES ASSUME NEW i \in DocIds, There(i), ~InCreation(i), i \notin docStale PROVE i \in Near(doc[i].key)
        BY DEF FoundByTitle
  <2>2. \E v \in docVec[i] : v.key = doc[i].key BY <1>1, <2>1 DEF DocInv, Findable, InCreation
  <2> QED BY <2>1, <2>2 DEF Near, NearVectors
<1>2. DocInv => FoundByTitle BY <1>1
<1> QED BY <1>2, DocKept, PTL

(* Every line an import has passed is in the knowledge base, whatever      *)
(* failed and whoever else changed it meanwhile (corpus_x.go:89-131,       *)
(* 294-323).                                                               *)
THEOREM PassedLinesAreThere == DocSpec => []ImportedIsThere
<1>1. ASSUME DocInv PROVE ImportedIsThere
  <2>1. SUFFICES ASSUME NEW e \in Editors, NEW n \in Passed(e), Full(e, n), LastOf(e, n), docReq[e].file[n].key \notin docReq[e].others
                 PROVE  \E i \in DocIds : doc[i] = [key |-> docReq[e].file[n].key, text |-> docReq[e].file[n].text]
        BY DEF ImportedIsThere
  <2>2. PICK r \in DocRequests : r = docReq[e] /\ DocHeld(r) BY <1>1 DEF DocInv, DocTypes
  <2>3. r.n \in Nat BY DEF DocRequests
  <2>4. Passed(e) = 1..(IF r.n = 0 THEN 0 ELSE r.n - 1) BY <2>2 DEF Passed
  <2>5. Passed(e) = 1..(r.n - 1) BY <2>3, <2>4
  <2>6. Stands(r, n) BY <2>1, <2>2, <2>5 DEF Stands, LastOf, Full
  <2>7. In(r.file[n]) BY <2>2, <2>5, <2>6 DEF DocHeld
  <2> QED BY <2>2, <2>7 DEF In
<1>2. DocInv => ImportedIsThere BY <1>1
<1> QED BY <1>2, DocKept, PTL

-----------------------------------------------------------------------------
(* All stores.  A step of one leaves the variables of the others, so a     *)
(* behaviour of all is one of each.                                        *)
THEOREM StoresAreTheirs == StoresSpec => DocSpec /\ MemSpec /\ SkillSpec /\ CapSpec /\ RecSpec
<1>1. StoresInit => DocInit /\ MemInit /\ SkillInit /\ CapInit /\ RecInit BY DEF StoresInit
<1>2. [StoresNext]_<<docVars, memVars, skillVars, capVars, recVars, store>> =>
          [DocNext]_docVars /\ [MemNext]_memVars /\ [SkillNext]_skillVars /\ [CapNext]_capVars /\ [RecNext]_recVars
      BY DEF StoresNext, UseCorpus, UseMemory, UseSkill, UseCapability, UseRecord
<1> QED BY <1>1, <1>2, PTL DEF StoresSpec, DocSpec, MemSpec, SkillSpec, CapSpec, RecSpec

(* Nobody is shown a memory, a skill or a tool result of somebody else     *)
(* (convo_x.go:682-687, skills_x.go:58-79, convo_record_x.go:118-136).     *)
THEOREM OwnIsShown == StoresSpec => []OnlyOwnShown
<1>1. OwnMemoriesSeen /\ SeenWasVisible /\ ReadsAreOwn => OnlyOwnShown BY DEF OnlyOwnShown
<1> QED BY <1>1, StoresAreTheirs, MemoriesSeenAreOwn, SkillsShownAreVisible, ReadsStayOwn, PTL

(* A memory or a skill changes hands or goes only by a request of its      *)
(* owner, or of a keeper (convo_x.go:577-604, skills_x.go:201-209).        *)
THEOREM OwnersChangeTheirs == StoresSpec => OnlyOwnChanged
BY StoresAreTheirs, MemoriesGoByOwners, SkillsChangeByOwners DEF OnlyOwnChanged

(* What is derived from a row, its vectors and columns, follows the row    *)
(* (corpus_x.go:337-585, convo_x.go:213-402, capability_x.go:73-152,       *)
(* models skills_x.go:233-266).                                            *)
THEOREM DerivedStaysDerived == StoresSpec => []DerivedFollows
<1>1. FoundByTitle /\ UnembeddedMemoryHasCause /\ SyncedIsFound /\ VectorFollows /\ NoVectorWithoutRow /\ ColumnsMirrorText
          => DerivedFollows
      BY DEF DerivedFollows
<1> QED BY <1>1, StoresAreTheirs, DocumentsAreFound, UnembeddedIsExplained, SyncedStaysFound, VectorsFollowRows,
           VectorsGoWithRows, SkillColumnsFollow, PTL

(* The same of the stores together: what an import has passed is there, a  *)
(* search shows what it found, notices fit and pages make the whole, and a *)
(* capability goes only for a cause (corpus_x.go:89-131,                   *)
(* capability_x.go:184-272, 456-468, convo_record_x.go:118-156).           *)
THEOREM StoresKeepTheirPromises ==
    StoresSpec => /\ []ImportedIsThere /\ []ShownAreCandidates
                  /\ []PreviewFits /\ []PagesAreTheWhole /\ OnlyMissedOrTaggedGo
BY StoresAreTheirs, PassedLinesAreThere, SearchShowsCandidates, PreviewsStayFit, PagesMakeTheWhole, CapabilitiesGoForACause
=============================================================================
