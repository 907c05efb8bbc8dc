----------------------------- MODULE ReportProofs -----------------------------
(* Proofs about ReportStore, for any number of workers, users, bodies and reports. *)
EXTENDS ReportStore, FiniteSetTheorems, TLAPS

\* Every report the two generators can make for an officer.
Signers == {u \in Users : RequireRoles(u, Officers)}
Reports ==
    {FinmaStr(id, now, body, u) : id \in 1 .. MaxReports, now \in Stamps, body \in Bodies, u \in Signers}
    \cup {BaFinSar(id, now, body, u) : id \in 1 .. MaxReports, now \in Stamps, body \in Bodies, u \in Signers}

StoreOK ==
    /\ store \in [Workers -> Seq(Reports)]
    /\ filed \in 0 .. MaxReports
    /\ answered \in [Workers -> SUBSET [id : 1 .. MaxReports, type : ReportType]]

ReaderOK ==
    reader \in {Idle} \cup
        [status : {"reading", "done", "failed"}, filter : Filters, limit : Limits,
         offset : Nat, worker : Workers, alone : BOOLEAN,
         owed : SUBSET (1 .. MaxReports), got : SUBSET (1 .. MaxReports)]

\* An id belongs to one report of a worker, and was given out before.
IdsOK ==
    /\ \A w \in Workers : \A id \in IdsIn(store[w]) : id <= filed
    /\ \A w \in Workers : \A i, j \in DOMAIN store[w] :
           store[w][i].report_id = store[w][j].report_id => i = j

\* Report r is what was asked for, where a generator makes that.
Honours(r, a) == r.report_id = a.id /\ (a.type \in {"FINMA_STR", "BAFIN_SAR"} => r.report_type = a.type)

\* What was answered is in the store of the worker that answered.
AnsweredOK ==
    \A w \in Workers : \A a \in answered[w] : \E r \in Elements(store[w]) : Honours(r, a)

\* What a reader of one worker is still owed lies beyond its offset.
PagingInv ==
    reader # Idle /\ reader.alone =>
        /\ reader.status = "reading" =>
               \A id \in reader.owed \ reader.got :
                   \E i \in Chosen(store[reader.worker], reader.filter) :
                       /\ store[reader.worker][i].report_id = id
                       /\ Place(store[reader.worker], reader.filter, i) > reader.offset
        /\ reader.status = "done" => reader.owed \subseteq reader.got

RInv == StoreOK /\ ReaderOK /\ IdsOK /\ AnsweredOK /\ PagingInv

-----------------------------------------------------------------------------
(* What the generators make *)

\* Clearing the hash of a sealed record gives the record that was hashed.
LEMMA Clearing ==
    ASSUME NEW content, NEW u, NEW now, NEW h
    PROVE  LET signed == [content EXCEPT !.signed_by = u, !.signature_ts = now]
               sealed == [signed EXCEPT !.report_hash = h]
           IN  signed.report_hash = None => [sealed EXCEPT !.report_hash = None] = signed
<1> DEFINE signed == [content EXCEPT !.signed_by = u, !.signature_ts = now]
           sealed == [signed EXCEPT !.report_hash = h]
<1>1. signed = [x \in DOMAIN signed |-> signed[x]]
  OBVIOUS
<1> HIDE DEF signed
<1>2. signed.report_hash = None => [sealed EXCEPT !.report_hash = None] = signed
  BY <1>1
<1> QED
  BY <1>2 DEF signed

\* The record behind both kinds of report, sealed.
LEMMA SealedIs ==
    ASSUME NEW id, NEW now, NEW body, NEW type, NEW country, NEW txns, NEW indicators, NEW u,
           NEW r, r = Seal(Unsigned(id, now, body, type, country, txns, indicators), u, now)
    PROVE  /\ r.report_id = id /\ r.created_at = now /\ r.report_type = type
           /\ r.categories = CategoriesOf(body) /\ r.signed_by = u
           /\ r.report_hash = ComputeHash([r EXCEPT !.report_hash = None])
           /\ [r EXCEPT !.report_hash = None].report_hash = None
<1> DEFINE content == Unsigned(id, now, body, type, country, txns, indicators)
           signed == [content EXCEPT !.signed_by = u, !.signature_ts = now]
           sealed == [signed EXCEPT !.report_hash = ComputeHash(signed)]
<1>1. Seal(content, u, now) = sealed
  BY DEF Seal
<1>2. /\ DOMAIN content = {"report_id", "created_at", "status", "alert_id", "report_type", "country",
                           "transactions", "categories", "indicators", "report_hash", "signed_by",
                           "signature_ts"}
      /\ content.report_id = id /\ content.created_at = now /\ content.report_type = type
      /\ content.categories = CategoriesOf(body) /\ content.report_hash = None
  BY DEF Unsigned
<1> HIDE DEF content
<1>3. /\ DOMAIN signed = DOMAIN content /\ signed.signed_by = u /\ signed.report_hash = None
      /\ signed.report_id = id /\ signed.created_at = now /\ signed.report_type = type
      /\ signed.categories = CategoriesOf(body)
  BY <1>2
<1>4. [sealed EXCEPT !.report_hash = None] = signed
  BY <1>3, Clearing
<1> HIDE DEF signed
<1>5. /\ sealed.report_id = id /\ sealed.created_at = now /\ sealed.report_type = type
      /\ sealed.categories = CategoriesOf(body) /\ sealed.signed_by = u
      /\ sealed.report_hash = ComputeHash(signed)
  BY <1>2, <1>3
<1> HIDE DEF sealed
<1> QED
  BY <1>1, <1>3, <1>4, <1>5 DEF content

\* A report has one of two types, an officer's signature, a category, and the hash of itself
\* without it.
LEMMA ReportIs ==
    ASSUME NEW r \in Reports
    PROVE  /\ r.report_id \in 1 .. MaxReports /\ r.created_at \in Stamps /\ r.created_at \in Nat
           /\ r.report_type \in {"FINMA_STR", "BAFIN_SAR"}
           /\ r.categories \in Seq(SuspicionCategory) /\ r.categories # <<>>
           /\ r.signed_by \in Users /\ RequireRoles(r.signed_by, Officers)
           /\ r.report_hash = ComputeHash([r EXCEPT !.report_hash = None])
           /\ [r EXCEPT !.report_hash = None].report_hash = None
<1>1. \A body \in Bodies : CategoriesOf(body) \in Seq(SuspicionCategory) /\ CategoriesOf(body) # <<>>
  <2>1. <<"OTHER">> \in Seq(SuspicionCategory) /\ <<"OTHER">> # <<>>
    BY DEF SuspicionCategory
  <2> QED
    BY <2>1, ReportStoreAssumption DEF ReportStoreAssumption, CategoriesOf
<1>2. ASSUME NEW id \in 1 .. MaxReports, NEW now \in Stamps, NEW body \in Bodies, NEW u \in Signers,
             NEW type \in {"FINMA_STR", "BAFIN_SAR"}, NEW country, NEW txns, NEW indicators,
             r = Seal(Unsigned(id, now, body, type, country, txns, indicators), u, now)
      PROVE  /\ r.report_id \in 1 .. MaxReports /\ r.created_at \in Stamps
             /\ r.report_type \in {"FINMA_STR", "BAFIN_SAR"}
             /\ r.categories \in Seq(SuspicionCategory) /\ r.categories # <<>>
             /\ r.signed_by \in Users /\ RequireRoles(r.signed_by, Officers)
             /\ r.report_hash = ComputeHash([r EXCEPT !.report_hash = None])
             /\ [r EXCEPT !.report_hash = None].report_hash = None
  BY <1>1, <1>2, SealedIs DEF Signers
<1>3. CASE \E id \in 1 .. MaxReports, now \in Stamps, body \in Bodies, u \in Signers :
               r = FinmaStr(id, now, body, u)
  BY <1>2, <1>3, ReportStoreAssumption DEF FinmaStr, FinmaContent, ReportStoreAssumption
<1>4. CASE \E id \in 1 .. MaxReports, now \in Stamps, body \in Bodies, u \in Signers :
               r = BaFinSar(id, now, body, u)
  BY <1>2, <1>4, ReportStoreAssumption DEF BaFinSar, BaFinContent, ReportStoreAssumption
<1> QED
  BY <1>3, <1>4 DEF Reports

\* What is filed is such a report, with the next id, and of the type asked for where a
\* generator makes that.
LEMMA GenerateIs ==
    ASSUME StoreOK, filed < MaxReports, NEW u \in Signers, NEW body \in Bodies, NEW now \in Stamps
    PROVE  /\ Generate(u, body, now) \in Reports
           /\ Honours(Generate(u, body, now), [id |-> filed + 1, type |-> body.report_type])
<1>1. filed + 1 \in 1 .. MaxReports
  BY ReportStoreAssumption DEF StoreOK, ReportStoreAssumption
<1>2. FinmaStr(filed + 1, now, body, u) \in Reports /\ BaFinSar(filed + 1, now, body, u) \in Reports
  BY <1>1 DEF Reports
<1>3. ASSUME NEW id, NEW type, NEW country, NEW txns, NEW indicators, NEW r,
             r = Seal(Unsigned(id, now, body, type, country, txns, indicators), u, now)
      PROVE  r.report_id = id /\ r.report_type = type
  BY <1>3 DEF Seal, Unsigned
<1>4. /\ FinmaStr(filed + 1, now, body, u).report_id = filed + 1
      /\ BaFinSar(filed + 1, now, body, u).report_id = filed + 1
      /\ FinmaStr(filed + 1, now, body, u).report_type = "FINMA_STR"
      /\ BaFinSar(filed + 1, now, body, u).report_type = "BAFIN_SAR"
  BY <1>3 DEF FinmaStr, FinmaContent, BaFinSar, BaFinContent
<1> QED
  BY <1>2, <1>4 DEF Generate, Honours

-----------------------------------------------------------------------------
(* The order of a list *)

\* The reports of a type are finitely many.
LEMMA ChosenFinite ==
    ASSUME NEW s \in Seq(Reports), NEW type
    PROVE  /\ IsFiniteSet(Chosen(s, type)) /\ Cardinality(Chosen(s, type)) \in Nat
           /\ Chosen(s, type) \subseteq 1 .. Len(s)
<1>1. Chosen(s, type) \subseteq 1 .. Len(s) /\ Len(s) \in Nat
  BY DEF Chosen
<1>2. IsFiniteSet(1 .. Len(s))
  BY <1>1, FS_Interval
<1> QED
  BY <1>1, <1>2, FS_Subset, FS_CardinalityType

LEMMA BeforeFinite ==
    ASSUME NEW s \in Seq(Reports), NEW type, NEW i
    PROVE  /\ IsFiniteSet(Before(s, type, i)) /\ Cardinality(Before(s, type, i)) \in Nat
           /\ Before(s, type, i) \subseteq Chosen(s, type)
<1>1. Before(s, type, i) \subseteq Chosen(s, type)
  BY DEF Before
<1> QED
  BY <1>1, ChosenFinite, FS_Subset, FS_CardinalityType

LEMMA PlaceIsNat ==
    ASSUME NEW s \in Seq(Reports), NEW type, NEW i
    PROVE  Place(s, type, i) \in Nat
BY BeforeFinite DEF Place

\* Each report has a place in the list.
LEMMA PlaceBounds ==
    ASSUME NEW s \in Seq(Reports), NEW type, NEW i \in Chosen(s, type)
    PROVE  Place(s, type, i) \in 1 .. Cardinality(Chosen(s, type))
<1>1. i \notin Before(s, type, i)
  <2>1. i \in 1 .. Len(s) /\ s[i] \in Reports
    BY ChosenFinite
  <2>2. s[i].created_at \in Nat
    BY <2>1, ReportIs
  <2> QED
    BY <2>1, <2>2 DEF Before
<1>2. Before(s, type, i) \subseteq Chosen(s, type) \ {i}
  BY <1>1, BeforeFinite
<1>3. /\ IsFiniteSet(Chosen(s, type) \ {i})
      /\ Cardinality(Chosen(s, type) \ {i}) = Cardinality(Chosen(s, type)) - 1
  BY ChosenFinite, FS_RemoveElement
<1>4. Cardinality(Before(s, type, i)) <= Cardinality(Chosen(s, type)) - 1
  BY <1>2, <1>3, FS_Subset
<1> QED
  BY <1>4, BeforeFinite, ChosenFinite DEF Place

\* Of two reports one comes first, so no two share a place.
LEMMA EarlierIsLower ==
    ASSUME NEW s \in Seq(Reports), NEW type, NEW i \in Chosen(s, type), NEW j \in Chosen(s, type),
           j \in Before(s, type, i)
    PROVE  Place(s, type, j) < Place(s, type, i)
<1>1. /\ i \in 1 .. Len(s) /\ s[i] \in Reports
      /\ j \in 1 .. Len(s) /\ s[j] \in Reports
  BY ChosenFinite
<1>2. s[i].created_at \in Nat /\ s[j].created_at \in Nat
  BY <1>1, ReportIs
<1>3. ASSUME NEW k \in Before(s, type, j) PROVE k \in Before(s, type, i)
  <2>1. k \in 1 .. Len(s) /\ s[k] \in Reports /\ k \in Chosen(s, type)
    BY ChosenFinite, BeforeFinite, <1>3
  <2>2. s[k].created_at \in Nat
    BY <2>1, ReportIs
  <2> QED
    BY <1>1, <1>2, <1>3, <2>1, <2>2 DEF Before
<1>4. j \notin Before(s, type, j)
  BY <1>1, <1>2 DEF Before
<1>5. Before(s, type, j) \subseteq Before(s, type, i) /\ Before(s, type, j) # Before(s, type, i)
  BY <1>3, <1>4
<1>6. /\ Cardinality(Before(s, type, j)) <= Cardinality(Before(s, type, i))
      /\ Cardinality(Before(s, type, j)) # Cardinality(Before(s, type, i))
  BY <1>5, BeforeFinite, FS_Subset
<1> QED
  BY <1>6, BeforeFinite DEF Place

LEMMA PlacesDiffer ==
    ASSUME NEW s \in Seq(Reports), NEW type, NEW i \in Chosen(s, type), NEW j \in Chosen(s, type),
           Place(s, type, i) = Place(s, type, j)
    PROVE  i = j
<1>1. /\ i \in 1 .. Len(s) /\ s[i] \in Reports
      /\ j \in 1 .. Len(s) /\ s[j] \in Reports
  BY ChosenFinite
<1>2. s[i].created_at \in Nat /\ s[j].created_at \in Nat
  BY <1>1, ReportIs
<1>3. i = j \/ j \in Before(s, type, i) \/ i \in Before(s, type, j)
  BY <1>1, <1>2 DEF Before
<1>4. Place(s, type, i) \in Nat /\ Place(s, type, j) \in Nat
  BY BeforeFinite DEF Place
<1> QED
  BY <1>3, <1>4, EarlierIsLower

\* Every place is taken, so that a list holds reports and nothing else.
LEMMA ListIs ==
    ASSUME NEW s \in Seq(Reports), NEW type
    PROVE  LET n == Cardinality(Chosen(s, type))
           IN  /\ n \in Nat /\ NewestFirst(s, type) \in [1 .. n -> Reports]
               /\ Len(NewestFirst(s, type)) = n
<1> DEFINE C == Chosen(s, type)
           n == Cardinality(C)
           f == [i \in C |-> Place(s, type, i)]
<1>1. n \in Nat /\ IsFiniteSet(C) /\ C \subseteq 1 .. Len(s)
  BY ChosenFinite
<1>2. IsFiniteSet(1 .. n) /\ Cardinality(1 .. n) = n
  BY <1>1, FS_Interval
<1>3. f \in Injection(C, 1 .. n)
  <2>1. \A i \in C : Place(s, type, i) \in 1 .. n
    BY PlaceBounds
  <2>2. \A i, j \in C : Place(s, type, i) = Place(s, type, j) => i = j
    BY PlacesDiffer
  <2> HIDE DEF C, n
  <2> QED
    BY <2>1, <2>2 DEF Injection, IsInjective
<1>4. f \in Surjection(C, 1 .. n)
  BY <1>2, <1>3, FS_Injection
<1>5. \A p \in 1 .. n : \E i \in C : Place(s, type, i) = p
  <2> HIDE DEF C, n
  <2> QED
    BY <1>4 DEF Surjection
<1>6. \A p \in 1 .. n : (CHOOSE i \in C : Place(s, type, i) = p) \in C
  BY <1>5
<1>7. \A i \in C : s[i] \in Reports
  BY <1>1
<1>8. NewestFirst(s, type) \in [1 .. n -> Reports]
  BY <1>6, <1>7 DEF NewestFirst
<1> QED
  BY <1>1, <1>8

\* A report filed later only moves the others towards the end.
LEMMA PlaceRises ==
    ASSUME NEW s \in Seq(Reports), NEW type, NEW i \in Chosen(s, type), NEW r \in Reports
    PROVE  /\ i \in Chosen(Append(s, r), type) /\ Append(s, r)[i] = s[i]
           /\ Place(Append(s, r), type, i) >= Place(s, type, i)
<1>1. /\ Append(s, r) \in Seq(Reports) /\ Len(Append(s, r)) = Len(s) + 1 /\ Len(s) \in Nat
      /\ \A k \in 1 .. Len(s) : Append(s, r)[k] = s[k]
      /\ DOMAIN s = 1 .. Len(s) /\ DOMAIN Append(s, r) = 1 .. Len(s) + 1
  OBVIOUS
<1>2. Chosen(s, type) \subseteq Chosen(Append(s, r), type)
  BY <1>1 DEF Chosen
<1>3. i \in 1 .. Len(s) /\ Chosen(s, type) \subseteq 1 .. Len(s)
  BY ChosenFinite
<1>4. Before(s, type, i) \subseteq Before(Append(s, r), type, i)
  BY <1>1, <1>2, <1>3 DEF Before
<1>5. Cardinality(Before(s, type, i)) <= Cardinality(Before(Append(s, r), type, i))
  BY <1>1, <1>4, BeforeFinite, FS_Subset
<1>6. /\ Cardinality(Before(s, type, i)) \in Nat
      /\ Cardinality(Before(Append(s, r), type, i)) \in Nat
  BY <1>1, BeforeFinite
<1>7. Place(Append(s, r), type, i) >= Place(s, type, i)
  BY <1>5, <1>6 DEF Place
<1> QED
  BY <1>1, <1>2, <1>3, <1>7

LEMMA MinOfTwo ==
    ASSUME NEW a \in Nat, NEW b \in Nat
    PROVE  Min({a, b}) \in {a, b} /\ Min({a, b}) <= a /\ Min({a, b}) <= b
<1>1. \E x \in {a, b} : \A y \in {a, b} : x <= y
  OBVIOUS
<1> QED
  BY <1>1 DEF Min

\* What a cut of a list holds.
LEMMA CutHolds ==
    ASSUME NEW list \in Seq(Reports), NEW offset \in Nat, NEW last \in Nat, last <= Len(list),
           NEW p \in Nat, p > offset, p <= last
    PROVE  /\ p - offset \in DOMAIN SubSeq(list, offset + 1, last)
           /\ SubSeq(list, offset + 1, last)[p - offset] = list[p]
<1>1. Len(SubSeq(list, offset + 1, last)) = last - offset
  OBVIOUS
<1>2. p - offset \in 1 .. last - offset /\ offset + 1 + (p - offset) - 1 = p
  OBVIOUS
<1>3. \A k \in 1 .. last - offset :
          SubSeq(list, offset + 1, last)[k] = list[offset + 1 + k - 1]
  OBVIOUS
<1>4. DOMAIN SubSeq(list, offset + 1, last) = 1 .. last - offset
  BY <1>1
<1> QED
  BY <1>2, <1>3, <1>4

LEMMA CutInside ==
    ASSUME NEW S, NEW list \in Seq(S), NEW offset \in Nat, NEW last \in Nat, last <= Len(list)
    PROVE  \A k \in DOMAIN SubSeq(list, offset + 1, last) : SubSeq(list, offset + 1, last)[k] \in S
<1>1. SubSeq(list, offset + 1, last) \in Seq(S)
  OBVIOUS
<1> QED
  BY <1>1

\* The page from an offset holds every report whose place is in it.
LEMMA PageHolds ==
    ASSUME NEW s \in Seq(Reports), NEW type, NEW i \in Chosen(s, type),
           NEW offset \in Nat, NEW limit \in Nat,
           Place(s, type, i) > offset, Place(s, type, i) <= offset + limit
    PROVE  s[i] \in Elements(Page(NewestFirst(s, type), offset, limit))
<1> DEFINE list == NewestFirst(s, type)
           p    == Place(s, type, i)
           n    == Cardinality(Chosen(s, type))
           last == Min({offset + limit, Len(list)})
<1>1. n \in Nat /\ p \in 1 .. n
  BY ChosenFinite, PlaceBounds
<1>2. \A q \in 1 .. n : list[q] = s[CHOOSE k \in Chosen(s, type) : Place(s, type, k) = q]
  BY DEF NewestFirst
<1>3. (CHOOSE k \in Chosen(s, type) : Place(s, type, k) = p) = i
  BY PlacesDiffer
<1>4. list[p] = s[i]
  BY <1>1, <1>2, <1>3
<1>5. list \in Seq(Reports) /\ Len(list) = n
  BY ListIs
<1> HIDE DEF list, p, n
<1>6. last \in {offset + limit, n} /\ last <= offset + limit /\ last <= n
  BY <1>1, <1>5, MinOfTwo
<1> HIDE DEF last
<1>7. last \in Nat /\ p <= last /\ p > offset /\ p \in Nat
  BY <1>1, <1>6 DEF p
<1>8. Page(list, offset, limit) = SubSeq(list, offset + 1, last)
  BY DEF Page, last
<1>9. p - offset \in DOMAIN SubSeq(list, offset + 1, last) /\ SubSeq(list, offset + 1, last)[p - offset] = list[p]
  <2>1. list \in Seq(Reports) /\ last <= Len(list)
    BY <1>5, <1>6
  <2>2. last \in Nat /\ p \in Nat /\ p > offset /\ p <= last
    BY <1>7
  <2> QED
    BY <2>1, <2>2, CutHolds
<1> QED
  BY <1>4, <1>8, <1>9 DEF Elements, list

-----------------------------------------------------------------------------
(* The invariant *)

LEMMA InitRInv == ReportInit => RInv
<1> SUFFICES ASSUME ReportInit PROVE RInv
  OBVIOUS
<1>1. StoreOK /\ ReaderOK /\ PagingInv
  <2>1. <<>> \in Seq(Reports) /\ 0 \in 0 .. MaxReports
    BY ReportStoreAssumption DEF ReportStoreAssumption
  <2> QED
    BY <2>1 DEF ReportInit, StoreOK, ReaderOK, PagingInv
<1>2. IdsOK /\ AnsweredOK
  BY DEF ReportInit, IdsOK, AnsweredOK, IdsIn, Elements
<1> QED
  BY <1>1, <1>2 DEF RInv

\* A report filed gets an id of its own and hides no other.
LEMMA GenerateKeepsRInv ==
    ASSUME RInv, NEW w \in Workers, NEW u \in Users, NEW body \in Bodies, NEW now \in Stamps,
           GenerateSar(w, u, body, now)
    PROVE  RInv'
<1> DEFINE r == Generate(u, body, now)
           s == store[w]
           a == [id |-> filed + 1, type |-> body.report_type]
<1> USE DEF RInv
<1>1. r \in Reports /\ Honours(r, a) /\ r.report_id = filed + 1
  <2>1. r \in Reports /\ Honours(r, a)
    BY GenerateIs DEF GenerateSar, Signers
  <2> HIDE DEF r
  <2> QED
    BY <2>1 DEF Honours
<1>2. /\ store' = [store EXCEPT ![w] = Append(s, r)] /\ filed' = filed + 1 /\ reader' = reader
      /\ answered' = [answered EXCEPT ![w] = @ \cup {a}] \/ answered' = answered
      /\ filed < MaxReports
  BY DEF GenerateSar
<1>a. a \in [id : 1 .. MaxReports, type : ReportType]
  BY <1>2, ReportStoreAssumption DEF StoreOK, ReportStoreAssumption
<1> HIDE DEF r, a
<1>3. /\ s \in Seq(Reports) /\ Append(s, r) \in Seq(Reports) /\ Len(s) \in Nat
      /\ DOMAIN s = 1 .. Len(s) /\ DOMAIN Append(s, r) = 1 .. Len(s) + 1
      /\ \A k \in 1 .. Len(s) : Append(s, r)[k] = s[k]
      /\ Append(s, r)[Len(s) + 1] = r
  BY <1>1 DEF StoreOK
<1>4. StoreOK'
  <2>1. filed + 1 \in 1 .. MaxReports /\ filed + 1 \in 0 .. MaxReports
    BY <1>2, ReportStoreAssumption DEF StoreOK, ReportStoreAssumption
  <2>2. answered' \in [Workers -> SUBSET [id : 1 .. MaxReports, type : ReportType]]
    BY <1>2, <1>a DEF StoreOK
  <2> QED
    BY <1>2, <1>3, <2>1, <2>2 DEF StoreOK
<1>5. ReaderOK'
  BY <1>2 DEF ReaderOK
<1>6. IdsOK'
  <2>1. store'[w] = Append(s, r) /\ \A v \in Workers \ {w} : store'[v] = store[v]
    BY <1>2 DEF StoreOK
  <2>2. filed \in Nat /\ \A v \in Workers : \A id \in IdsIn(store[v]) : id \in Nat
    <3>1. ASSUME NEW v \in Workers, NEW q \in Elements(store[v]) PROVE q.report_id \in Nat
      <4>1. q \in Reports
        BY <3>1 DEF StoreOK, Elements
      <4>2. q.report_id \in 1 .. MaxReports
        BY <4>1, ReportIs
      <4> QED
        BY <4>2, ReportStoreAssumption DEF ReportStoreAssumption
    <3>2. filed \in Nat
      BY ReportStoreAssumption DEF StoreOK, ReportStoreAssumption
    <3> QED
      BY <3>1, <3>2 DEF IdsIn
  <2>3. \A v \in Workers : filed + 1 \notin IdsIn(store[v])
    BY <2>2 DEF IdsOK
  <2>4. IdsIn(Append(s, r)) = IdsIn(s) \cup {filed + 1}
    BY <1>1, <1>3 DEF IdsIn, Elements
  <2>5. \A v \in Workers : \A id \in IdsIn(store'[v]) : id <= filed'
    <3>1. ASSUME NEW v \in Workers, NEW id \in IdsIn(store[v]) PROVE id <= filed + 1
      <4>1. id <= filed
        BY <3>1 DEF IdsOK
      <4> QED
        BY <2>2, <3>1, <4>1
    <3>2. \A id \in IdsIn(Append(s, r)) : id <= filed + 1
      BY <2>2, <2>4, <3>1
    <3>3. \A v \in Workers \ {w} : IdsIn(store'[v]) = IdsIn(store[v])
      BY <2>1
    <3> QED
      BY <1>2, <2>1, <3>1, <3>2, <3>3
  <2>6. \A v \in Workers : \A i, j \in DOMAIN store'[v] :
            store'[v][i].report_id = store'[v][j].report_id => i = j
    <3>1. \A i \in DOMAIN s : s[i].report_id # filed + 1
      BY <2>3 DEF IdsIn, Elements
    <3>2. \A i, j \in DOMAIN Append(s, r) :
              Append(s, r)[i].report_id = Append(s, r)[j].report_id => i = j
      BY <1>1, <1>3, <3>1 DEF IdsOK
    <3> QED
      BY <2>1, <3>2 DEF IdsOK
  <2> QED
    BY <2>5, <2>6 DEF IdsOK
<1>8. AnsweredOK'
  <2>1. Elements(store'[w]) = Elements(store[w]) \cup {r}
    <3>1. store'[w] = Append(s, r)
      BY <1>2 DEF StoreOK
    <3>2. Elements(Append(s, r)) = Elements(s) \cup {r}
      BY <1>3 DEF Elements
    <3> QED
      BY <3>1, <3>2
  <2>2. \A v \in Workers \ {w} : Elements(store'[v]) = Elements(store[v])
    BY <1>2 DEF StoreOK
  <2>3. \A v \in Workers : Elements(store[v]) \subseteq Elements(store'[v])
    BY <2>1, <2>2
  <2>4. \A v \in Workers : \A b \in answered'[v] : b \in answered[v] \/ (v = w /\ b = a)
    BY <1>2 DEF StoreOK
  <2> QED
    BY <1>1, <2>1, <2>3, <2>4 DEF AnsweredOK
<1>7. PagingInv'
  <2> SUFFICES ASSUME reader # Idle, reader.alone, reader.status = "reading",
                      NEW id \in reader.owed \ reader.got
               PROVE  \E i \in Chosen(store'[reader.worker], reader.filter) :
                          /\ store'[reader.worker][i].report_id = id
                          /\ Place(store'[reader.worker], reader.filter, i) > reader.offset
    <3>1. reader' = reader
      BY <1>2
    <3>2. reader # Idle /\ reader.alone /\ reader.status = "done" => reader.owed \subseteq reader.got
      BY DEF PagingInv
    <3> HIDE DEF RInv
    <3> QED
      BY <3>1, <3>2 DEF PagingInv
  <2>1. PICK i \in Chosen(store[reader.worker], reader.filter) :
            /\ store[reader.worker][i].report_id = id
            /\ Place(store[reader.worker], reader.filter, i) > reader.offset
    BY DEF PagingInv
  <2>2. reader.worker \in Workers /\ reader.offset \in Nat
    BY DEF ReaderOK
  <2>3. CASE reader.worker # w
    BY <1>2, <2>1, <2>2, <2>3 DEF StoreOK
  <2>4. CASE reader.worker = w
    <3>1. store'[w] = Append(s, r)
      BY <1>2 DEF StoreOK
    <3>2. /\ i \in Chosen(Append(s, r), reader.filter) /\ Append(s, r)[i] = s[i]
          /\ Place(Append(s, r), reader.filter, i) >= Place(s, reader.filter, i)
      BY <1>1, <1>3, <2>1, <2>4, PlaceRises
    <3>3. Place(Append(s, r), reader.filter, i) \in Nat /\ Place(s, reader.filter, i) \in Nat
      BY <1>3, PlaceIsNat
    <3>4. Place(Append(s, r), reader.filter, i) > reader.offset
      BY <2>1, <2>2, <2>4, <3>2, <3>3
    <3> QED
      BY <2>1, <2>4, <3>1, <3>2, <3>4
  <2> QED
    BY <2>3, <2>4
<1> QED
  BY <1>4, <1>5, <1>6, <1>7, <1>8

\* A reader begins at the head of the list, before all it is owed.
LEMMA BeginKeepsRInv ==
    ASSUME RInv, NEW u \in Users, NEW type \in Filters, NEW limit \in Limits, NEW w \in Workers,
           BeginReading(u, type, limit, w)
    PROVE  RInv'
<1> USE DEF RInv
<1> DEFINE owed == {store[w][i].report_id : i \in Chosen(store[w], type)}
<1>1. store[w] \in Seq(Reports)
  BY DEF StoreOK
<1>2. owed \subseteq 1 .. MaxReports
  <2>1. \A i \in Chosen(store[w], type) : store[w][i] \in Reports
    BY <1>1, ChosenFinite
  <2> QED
    BY <2>1, ReportIs
<1>3. \A i \in Chosen(store[w], type) : Place(store[w], type, i) > 0
  BY <1>1, PlaceBounds, ChosenFinite
<1>4. /\ reader' = [status |-> "reading", filter |-> type, limit |-> limit, offset |-> 0,
                    worker |-> w, alone |-> TRUE, owed |-> owed, got |-> {}]
      /\ UNCHANGED <<store, filed, answered>>
  BY DEF BeginReading
<1>5. ReaderOK'
  BY <1>2, <1>4 DEF ReaderOK
<1>6. PagingInv'
  BY <1>3, <1>4 DEF PagingInv
<1> QED
  BY <1>4, <1>5, <1>6 DEF StoreOK, IdsOK, AnsweredOK

\* A page of its worker hands the reader what lay below the next offset.
LEMMA ListKeepsRInv ==
    ASSUME RInv, NEW w \in Workers, reader # Idle, ListReports(w)
    PROVE  RInv'
<1> USE DEF RInv
<1> DEFINE s == store[w]
           reports == NewestFirst(s, reader.filter)
           page == Page(reports, reader.offset, reader.limit)
           next == reader.offset + reader.limit
<1>1. /\ s \in Seq(Reports) /\ reader.offset \in Nat /\ reader.limit \in Nat /\ next \in Nat
      /\ reader.status = "reading" /\ UNCHANGED <<store, filed, answered>>
  BY ReportStoreAssumption DEF StoreOK, ReaderOK, ListReports, ReportStoreAssumption
<1> DEFINE n == Cardinality(Chosen(s, reader.filter))
           last == Min({next, Len(reports)})
<1>2. n \in Nat /\ reports \in [1 .. n -> Reports] /\ Len(reports) = n /\ DOMAIN reports = 1 .. n
  BY <1>1, ListIs
<1>3. Elements(page) \subseteq Reports
  <2>1. last \in {next, n} /\ last <= n
    BY <1>1, <1>2, MinOfTwo
  <2> HIDE DEF last, reports, n, next
  <2>2. page = SubSeq(reports, reader.offset + 1, last)
    BY DEF Page, last, next
  <2> HIDE DEF page
  <2>3. reports \in Seq(Reports) /\ last \in Nat /\ last <= Len(reports)
    BY <1>1, <1>2, <2>1
  <2>4. \A k \in DOMAIN page : page[k] \in Reports
    BY <1>1, <2>2, <2>3, CutInside
  <2> QED
    BY <2>4 DEF Elements
<1>4. IdsIn(page) \subseteq 1 .. MaxReports
  BY <1>3, ReportIs DEF IdsIn
<1>5. PICK rendered \in PageMayRender(page) :
         reader' = IF rendered
                THEN [reader EXCEPT !.got = @ \cup IdsIn(page), !.offset = next,
                          !.alone = @ /\ w = reader.worker,
                          !.status = IF next >= Len(reports) THEN "done" ELSE "reading"]
                ELSE [reader EXCEPT !.status = "failed"]
  BY DEF ListReports
<1>6. CASE ~ rendered
  <2>1. reader' = [reader EXCEPT !.status = "failed"]
    BY <1>5, <1>6
  <2> HIDE DEF page, reports, next, n, last, s
  <2>2. ReaderOK' /\ reader'.status = "failed"
    BY <2>1, <1>1 DEF ReaderOK, Idle
  <2> QED
    BY <1>1, <2>2 DEF PagingInv, StoreOK, IdsOK, AnsweredOK
<1>7. CASE rendered
  <2>1. reader' = [reader EXCEPT !.got = @ \cup IdsIn(page), !.offset = next,
                       !.alone = @ /\ w = reader.worker,
                       !.status = IF next >= Len(reports) THEN "done" ELSE "reading"]
    BY <1>5, <1>7
  <2>2. /\ ReaderOK' /\ reader'.owed = reader.owed /\ reader'.got = reader.got \cup IdsIn(page)
        /\ reader'.offset = next /\ reader'.alone = (reader.alone /\ w = reader.worker)
        /\ reader'.status = (IF next >= Len(reports) THEN "done" ELSE "reading")
        /\ reader'.worker = reader.worker /\ reader'.filter = reader.filter
    <3> HIDE DEF page, reports, next, n, last, s
    <3> QED
      BY <2>1, <1>1, <1>4 DEF ReaderOK, Idle
  <2>3. ASSUME reader.alone, w = reader.worker, NEW id \in reader.owed \ reader.got, id \notin IdsIn(page)
        PROVE  \E i \in Chosen(s, reader.filter) : s[i].report_id = id /\ Place(s, reader.filter, i) > next
    <3>1. PICK i \in Chosen(s, reader.filter) :
              s[i].report_id = id /\ Place(s, reader.filter, i) > reader.offset
      BY <1>1, <2>3 DEF PagingInv
    <3>2. Place(s, reader.filter, i) \in Nat
      BY <1>1, PlaceIsNat
    <3>3. ASSUME Place(s, reader.filter, i) <= next PROVE FALSE
      <4>1. s[i] \in Elements(page)
        BY <1>1, <3>1, <3>3, PageHolds
      <4> QED
        BY <2>3, <3>1, <4>1 DEF IdsIn
    <3> QED
      BY <1>1, <3>1, <3>2, <3>3
  <2>4. \A i \in Chosen(s, reader.filter) : Place(s, reader.filter, i) <= Len(reports)
    BY <1>1, <1>2, PlaceBounds
  <2>5. PagingInv'
    <3> HIDE DEF page, reports, n, last
    <3>1. ASSUME reader.alone, w = reader.worker, next >= Len(reports) PROVE reader.owed \subseteq reader'.got
      <4> SUFFICES ASSUME NEW id \in reader.owed \ reader.got, id \notin IdsIn(page) PROVE FALSE
        BY <2>2
      <4>1. PICK i \in Chosen(s, reader.filter) : Place(s, reader.filter, i) > next
        BY <2>3, <3>1
      <4>2. Place(s, reader.filter, i) \in Nat /\ Place(s, reader.filter, i) <= Len(reports)
        BY <1>1, <2>4, PlaceIsNat
      <4> QED
        BY <1>1, <1>2, <3>1, <4>1, <4>2
    <3> SUFFICES ASSUME reader'.alone
                 PROVE  /\ reader'.status = "reading" =>
                               \A id \in reader'.owed \ reader'.got :
                                   \E i \in Chosen(store'[reader'.worker], reader'.filter) :
                                       /\ store'[reader'.worker][i].report_id = id
                                       /\ Place(store'[reader'.worker], reader'.filter, i) > reader'.offset
                        /\ reader'.status = "done" => reader'.owed \subseteq reader'.got
      BY DEF PagingInv
    <3>2. reader.alone /\ w = reader.worker
      BY <2>2
    <3>3. store' = store
      BY <1>1
    <3>4. ASSUME NEW id \in reader'.owed \ reader'.got
          PROVE  \E i \in Chosen(store'[reader'.worker], reader'.filter) :
                     /\ store'[reader'.worker][i].report_id = id
                     /\ Place(store'[reader'.worker], reader'.filter, i) > reader'.offset
      <4>1. PICK i \in Chosen(s, reader.filter) : s[i].report_id = id /\ Place(s, reader.filter, i) > next
        BY <2>2, <2>3, <3>2, <3>4
      <4>2. reader'.worker = w /\ reader'.filter = reader.filter /\ reader'.offset = next
        BY <2>2, <3>2
      <4> QED
        BY <3>3, <4>1, <4>2
    <3>5. reader'.status = "done" => next >= Len(reports)
      BY <2>2
    <3> QED
      BY <2>2, <3>1, <3>2, <3>4, <3>5
  <2> QED
    BY <1>1, <2>2, <2>5 DEF StoreOK, IdsOK, AnsweredOK
<1> QED
  BY <1>6, <1>7

\* A restart, or a reader that is through, leaves nothing owed.
LEMMA RestKeepsRInv ==
    ASSUME RInv, FinishReading \/ (\E w \in Workers : Restart(w)) \/ UNCHANGED reportVars
    PROVE  RInv'
<1> USE DEF RInv
<1>1. CASE FinishReading
  BY <1>1 DEF FinishReading, StoreOK, ReaderOK, IdsOK, AnsweredOK, PagingInv, Idle
<1>2. ASSUME NEW w \in Workers, Restart(w) PROVE RInv'
  <2>1. /\ store' = [store EXCEPT ![w] = <<>>] /\ answered' = [answered EXCEPT ![w] = {}]
        /\ filed' = filed
        /\ reader' = IF reader # Idle /\ reader.worker = w THEN [reader EXCEPT !.alone = FALSE] ELSE reader
    BY <1>2 DEF Restart
  <2>2. StoreOK'
    <3>1. <<>> \in Seq(Reports)
      OBVIOUS
    <3> QED
      BY <2>1, <3>1 DEF StoreOK
  <2>3. IdsOK' /\ AnsweredOK'
    <3>1. IdsIn(<<>>) = {}
      BY DEF IdsIn, Elements
    <3>2. store'[w] = <<>> /\ \A v \in Workers \ {w} : store'[v] = store[v]
      BY <2>1 DEF StoreOK
    <3>3. answered'[w] = {} /\ \A v \in Workers \ {w} : answered'[v] = answered[v]
      BY <2>1 DEF StoreOK
    <3>4. DOMAIN store'[w] = {}
      BY <3>2
    <3>5. AnsweredOK'
      BY <3>2, <3>3 DEF AnsweredOK
    <3>6. \A v \in Workers : IdsIn(store'[v]) \subseteq IdsIn(store[v])
      BY <3>1, <3>2
    <3>7. \A v \in Workers : \A id \in IdsIn(store'[v]) : id <= filed'
      BY <2>1, <3>6 DEF IdsOK
    <3>8. ASSUME NEW v \in Workers, NEW i \in DOMAIN store'[v], NEW j \in DOMAIN store'[v],
                 store'[v][i].report_id = store'[v][j].report_id
          PROVE  i = j
      <4>1. v # w
        BY <3>4
      <4>2. store'[v] = store[v]
        BY <3>2, <4>1
      <4> QED
        BY <3>8, <4>2 DEF IdsOK
    <3> QED
      BY <3>5, <3>7, <3>8 DEF IdsOK
  <2>4. CASE reader # Idle /\ reader.worker = w
    <3>1. reader' = [reader EXCEPT !.alone = FALSE]
      BY <2>1, <2>4
    <3>2. ReaderOK' /\ ~ reader'.alone
      BY <2>4, <3>1 DEF ReaderOK
    <3> QED
      BY <2>2, <2>3, <3>2 DEF PagingInv
  <2>5. CASE ~ (reader # Idle /\ reader.worker = w)
    <3>1. reader' = reader
      BY <2>1, <2>5
    <3>2. reader # Idle => store'[reader.worker] = store[reader.worker]
      BY <2>1, <2>5 DEF StoreOK, ReaderOK
    <3> QED
      BY <2>2, <2>3, <3>1, <3>2 DEF PagingInv, ReaderOK
  <2> QED
    BY <2>4, <2>5
<1>3. CASE UNCHANGED reportVars
  BY <1>3 DEF reportVars, StoreOK, ReaderOK, IdsOK, AnsweredOK, PagingInv
<1> QED
  BY <1>1, <1>2, <1>3

LEMMA StepRInv == RInv /\ [ReportNext]_reportVars => RInv'
<1> SUFFICES ASSUME RInv, [ReportNext]_reportVars PROVE RInv'
  OBVIOUS
<1>1. ASSUME NEW w \in Workers, ListReports(w) PROVE RInv'
  <2>1. reader # Idle
    BY <1>1 DEF ListReports, Idle
  <2> QED
    BY <1>1, <2>1, ListKeepsRInv
<1> QED
  BY <1>1, GenerateKeepsRInv, BeginKeepsRInv, RestKeepsRInv DEF ReportNext

LEMMA ReportInvariance == ReportSpec => []RInv
BY InitRInv, StepRInv, PTL DEF ReportSpec

\* A reader whose pages all come from one worker that does not restart misses nothing that was
\* there when it began, for any page size, any filter, whatever is filed meanwhile and however
\* the clock is set.
THEOREM PagesHideNothing == ReportSpec => []PagingMissesNothing
<1>1. RInv => PagingMissesNothing
  BY DEF RInv, PagingInv, PagingMissesNothing
<1> QED
  BY ReportInvariance, <1>1, PTL

-----------------------------------------------------------------------------
(* What the routes say *)

\* What is in a store is a report, and its id names it there.
LEMMA StoreHolds ==
    ASSUME RInv, NEW w \in Workers
    PROVE  /\ store[w] \in Seq(Reports) /\ Elements(store[w]) \subseteq Reports
           /\ \A r, q \in Elements(store[w]) : r.report_id = q.report_id => r = q
<1>1. store[w] \in Seq(Reports)
  BY DEF RInv, StoreOK
<1>2. Elements(store[w]) \subseteq Reports
  BY <1>1 DEF Elements
<1> QED
  BY <1>1, <1>2 DEF RInv, IdsOK, Elements

\* A report is answered by the route of its type, if it renders.
LEMMA AnswerIs ==
    ASSUME RInv, NEW w \in Workers, NEW u \in Users, RequireRoles(u, Readers),
           NEW r \in Elements(store[w]), NEW type
    PROVE  ReportAnswer(w, u, r.report_id, type)
               = IF r.report_type # type THEN 400 ELSE IF Renders(AmountsOf(r)) THEN 200 ELSE 422
<1> DEFINE found == {q \in Elements(store[w]) : q.report_id = r.report_id}
<1>1. found = {r}
  BY StoreHolds
<1>2. found # {} /\ (CHOOSE q \in found : TRUE) = r
  BY <1>1
<1> HIDE DEF found
<1>3. ReportAnswer(w, u, r.report_id, type)
        = CASE ~RequireRoles(u, Readers) -> 403
            [] RequireRoles(u, Readers) /\ found = {} -> 404
            [] OTHER -> LET report == CHOOSE q \in found : TRUE
                        IN  IF report.report_type # type THEN 400
                            ELSE IF Renders(AmountsOf(report)) THEN 200 ELSE 422
  BY DEF ReportAnswer, found
<1>4. ReportAnswer(w, u, r.report_id, type)
        = LET report == CHOOSE q \in found : TRUE
          IN  IF report.report_type # type THEN 400
              ELSE IF Renders(AmountsOf(report)) THEN 200 ELSE 422
  BY <1>2, <1>3, Zenon
<1> QED
  BY <1>2, <1>4

LEMMA RoutesAgree == RInv => EveryReportHasEndpoint
<1> SUFFICES ASSUME RInv, NEW w \in Workers, NEW u \in Users, NEW id \in IdsIn(store[w]),
                    RequireRoles(u, Readers)
             PROVE  {GetFinmaReport(w, u, id), GetBafinReport(w, u, id)} \in {{400, 200}, {400, 422}}
  BY DEF EveryReportHasEndpoint
<1>1. PICK r \in Elements(store[w]) : r.report_id = id
  BY DEF IdsIn
<1>2. r.report_type \in {"FINMA_STR", "BAFIN_SAR"}
  BY <1>1, StoreHolds, ReportIs
<1>3. \/ GetFinmaReport(w, u, id) = 400 /\ GetBafinReport(w, u, id) \in {200, 422}
      \/ GetBafinReport(w, u, id) = 400 /\ GetFinmaReport(w, u, id) \in {200, 422}
  BY <1>1, <1>2, AnswerIs DEF GetFinmaReport, GetBafinReport
<1> QED
  BY <1>3

LEMMA AcceptedServed == RInv => AcceptedIsServed
<1> SUFFICES ASSUME RInv, NEW w \in Workers, NEW u \in Users, NEW a \in answered[w],
                    RequireRoles(u, Readers), a.type \in {"FINMA_STR", "BAFIN_SAR"}
             PROVE  /\ a.type = "FINMA_STR" => /\ GetFinmaReport(w, u, a.id) \in {200, 422}
                                              /\ GetBafinReport(w, u, a.id) = 400
                    /\ a.type = "BAFIN_SAR" => /\ GetBafinReport(w, u, a.id) \in {200, 422}
                                              /\ GetFinmaReport(w, u, a.id) = 400
  BY DEF AcceptedIsServed
<1>1. PICK r \in Elements(store[w]) : r.report_id = a.id /\ r.report_type = a.type
  BY DEF RInv, AnsweredOK, Honours
<1>2. /\ GetFinmaReport(w, u, a.id)
             = IF r.report_type # "FINMA_STR" THEN 400 ELSE IF Renders(AmountsOf(r)) THEN 200 ELSE 422
      /\ GetBafinReport(w, u, a.id)
             = IF r.report_type # "BAFIN_SAR" THEN 400 ELSE IF Renders(AmountsOf(r)) THEN 200 ELSE 422
  BY <1>1, AnswerIs DEF GetFinmaReport, GetBafinReport
<1> QED
  BY <1>1, <1>2

\* Every report is of one of the two types that are counted.
LEMMA TypesAddUp ==
    ASSUME NEW s \in Seq(Reports)
    PROVE  CountOf(s, "FINMA_STR") + CountOf(s, "BAFIN_SAR") = Len(s)
<1> DEFINE F == {i \in DOMAIN s : s[i].report_type = "FINMA_STR"}
           B == {i \in DOMAIN s : s[i].report_type = "BAFIN_SAR"}
<1>1. DOMAIN s = 1 .. Len(s) /\ Len(s) \in Nat
  OBVIOUS
<1>2. IsFiniteSet(1 .. Len(s)) /\ Cardinality(1 .. Len(s)) = Len(s)
  BY <1>1, FS_Interval
<1>3. F \cup B = 1 .. Len(s) /\ F \cap B = {}
  <2>1. \A i \in DOMAIN s : s[i] \in Reports
    OBVIOUS
  <2>2. \A i \in DOMAIN s : s[i].report_type \in {"FINMA_STR", "BAFIN_SAR"}
    BY <2>1, ReportIs
  <2> QED
    BY <1>1, <2>2
<1> HIDE DEF F, B
<1>4. /\ IsFiniteSet(F) /\ IsFiniteSet(B)
      /\ Cardinality(F) \in Nat /\ Cardinality(B) \in Nat
  BY <1>2, <1>3, FS_Subset, FS_CardinalityType
<1>5. Cardinality(F \cup B) = Cardinality(F) + Cardinality(B) - 0
  BY <1>3, <1>4, FS_Union, FS_EmptySet
<1>6. Cardinality(F) + Cardinality(B) = Len(s)
  <2>1. Cardinality(F \cup B) = Len(s)
    BY <1>2, <1>3
  <2> QED
    BY <1>4, <1>5, <2>1
<1> QED
  BY <1>6 DEF CountOf, F, B

\* A report counts at least once under each of its categories.
LEMMA CategoriesAddUp ==
    ASSUME NEW s \in Seq(Reports), NEW c
    PROVE  CategoryCount(s, c) >= Cardinality({i \in DOMAIN s : c \in Elements(s[i].categories)})
<1> DEFINE Has == {i \in DOMAIN s : c \in Elements(s[i].categories)}
           At(i) == {k \in DOMAIN s[i].categories : s[i].categories[k] = c}
           Pairs == UNION {{<<i, k>> : k \in At(i)} : i \in DOMAIN s}
           f == [i \in Has |-> <<i, CHOOSE k \in At(i) : TRUE>>]
<1>1. DOMAIN s = 1 .. Len(s) /\ Len(s) \in Nat /\ IsFiniteSet(DOMAIN s)
  BY FS_Interval
<1>2. ASSUME NEW i \in DOMAIN s PROVE IsFiniteSet({<<i, k>> : k \in At(i)})
  <2>1. s[i].categories \in Seq(SuspicionCategory)
    <3>1. s[i] \in Reports
      BY <1>2
    <3> QED
      BY <3>1, ReportIs
  <2>2. IsFiniteSet(DOMAIN s[i].categories)
    <3>1. DOMAIN s[i].categories = 1 .. Len(s[i].categories) /\ Len(s[i].categories) \in Nat
      BY <2>1
    <3> QED
      BY <3>1, FS_Interval
  <2>3. IsFiniteSet(At(i))
    BY <2>2, FS_Subset
  <2> DEFINE g == [k \in At(i) |-> <<i, k>>]
  <2>4. g \in Surjection(At(i), {<<i, k>> : k \in At(i)})
    <3> HIDE DEF At
    <3> QED
      BY DEF Surjection
  <2> QED
    BY <2>3, <2>4, FS_Surjection
<1>3. IsFiniteSet(Pairs)
  <2> DEFINE Rows == {{<<i, k>> : k \in At(i)} : i \in DOMAIN s}
             g == [i \in DOMAIN s |-> {<<i, k>> : k \in At(i)}]
  <2>1. g \in Surjection(DOMAIN s, Rows)
    <3> HIDE DEF At
    <3> QED
      BY DEF Surjection
  <2>2. IsFiniteSet(Rows)
    BY <1>1, <2>1, FS_Surjection
  <2>3. \A R \in Rows : IsFiniteSet(R)
    BY <1>2
  <2> HIDE DEF Rows
  <2>4. IsFiniteSet(UNION Rows)
    BY <2>2, <2>3, FS_UNION
  <2> QED
    BY <2>4 DEF Rows
<1>4. f \in Injection(Has, Pairs)
  <2>1. \A i \in Has : At(i) # {}
    BY DEF Elements
  <2>2. \A i \in Has : (CHOOSE k \in At(i) : TRUE) \in At(i)
    <3> HIDE DEF At, Has
    <3> QED
      BY <2>1
  <2>3. Has \subseteq DOMAIN s
    OBVIOUS
  <2> HIDE DEF At, Has
  <2>4. \A i \in Has : f[i] \in Pairs
    BY <2>2, <2>3
  <2>5. \A i, j \in Has : f[i] = f[j] => i = j
    OBVIOUS
  <2> QED
    BY <2>4, <2>5 DEF Injection, IsInjective
<1>5. Cardinality(Has) <= Cardinality(Pairs)
  BY <1>3, <1>4, FS_Injection
<1>6. Cardinality(Has) \in Nat /\ Cardinality(Pairs) \in Nat
  BY <1>1, <1>3, FS_Subset, FS_CardinalityType
<1>7. CategoryCount(s, c) = Cardinality(Pairs)
  BY DEF CategoryCount
<1> HIDE DEF Has, Pairs
<1>8. CategoryCount(s, c) >= Cardinality(Has)
  BY <1>5, <1>6, <1>7
<1> QED
  BY <1>8 DEF Has

LEMMA StatsAddUp == RInv => CountsAddUp
<1> SUFFICES ASSUME RInv, NEW w \in Workers
             PROVE  LET stats == Stats(store[w]) IN
                    /\ stats.finma + stats.bafin = stats.total
                    /\ \A c \in SuspicionCategory :
                           stats.by_category[c] >= Cardinality({i \in DOMAIN store[w] :
                                                                 c \in Elements(store[w][i].categories)})
                    /\ \A r \in Elements(store[w]) : Elements(r.categories) \cap SuspicionCategory # {}
  BY DEF CountsAddUp
<1> DEFINE s == store[w]
<1>1. s \in Seq(Reports) /\ Elements(s) \subseteq Reports
  BY StoreHolds
<1>2. \A c \in SuspicionCategory :
          CategoryCount(s, c) >= Cardinality({i \in DOMAIN s : c \in Elements(s[i].categories)})
  BY <1>1, CategoriesAddUp
<1>3. ASSUME NEW r \in Elements(s) PROVE Elements(r.categories) \cap SuspicionCategory # {}
  <2>1. r.categories \in Seq(SuspicionCategory) /\ r.categories # <<>>
    BY <1>1, ReportIs
  <2>2. 1 \in DOMAIN r.categories /\ r.categories[1] \in SuspicionCategory
    BY <2>1
  <2> QED
    BY <2>2 DEF Elements
<1>4. CountOf(s, "FINMA_STR") + CountOf(s, "BAFIN_SAR") = Len(s)
  BY <1>1, TypesAddUp
<1> HIDE DEF s
<1>5. /\ Stats(s).finma + Stats(s).bafin = Stats(s).total
      /\ \A c \in SuspicionCategory : Stats(s).by_category[c] = CategoryCount(s, c)
  BY <1>4 DEF Stats
<1> QED
  BY <1>2, <1>3, <1>5 DEF s

LEMMA HashesCover == RInv => HashCoversReport
<1> SUFFICES ASSUME RInv, NEW w \in Workers, NEW r \in Elements(store[w])
             PROVE  /\ r.signed_by # None
                    /\ r.report_hash = ComputeHash([r EXCEPT !.report_hash = None])
  BY DEF HashCoversReport
<1>1. r.signed_by \in Users /\ r.report_hash = ComputeHash([r EXCEPT !.report_hash = None])
  BY StoreHolds, ReportIs
<1> QED
  BY <1>1, ReportStoreAssumption DEF ReportStoreAssumption

LEMMA ReportTypes == RInv => ReportTypeOK
<1> SUFFICES ASSUME RInv PROVE ReportTypeOK
  OBVIOUS
<1>1. ASSUME NEW w \in Workers, NEW r \in Elements(store[w])
      PROVE  /\ r.report_id \in 1 .. MaxReports /\ r.created_at \in Stamps
             /\ r.report_type \in ReportType /\ r.signed_by \in Users
             /\ Elements(r.categories) \subseteq SuspicionCategory
  <2>1. r \in Reports
    BY StoreHolds
  <2>2. r.categories \in Seq(SuspicionCategory)
    BY <2>1, ReportIs
  <2>3. Elements(r.categories) \subseteq SuspicionCategory
    BY <2>2 DEF Elements
  <2> QED
    BY <2>1, <2>3, ReportIs DEF ReportType
<1> QED
  BY <1>1 DEF RInv, StoreOK, ReaderOK, ReportTypeOK

\* On any number of workers, whatever restarts and however a request ends after its report
\* is stored: what was answered 201 is returned by its worker at the endpoint that was asked
\* for until it restarts, no stored report is out of reach there, statistics that are answered
\* account for all, and each hash covers its report, signature included.
THEOREM ReportsAreKept == ReportSpec => []ReportInvariant
<1>1. RInv => ReportInvariant
  BY AcceptedServed, ReportTypes, RoutesAgree, StatsAddUp, HashesCover DEF ReportInvariant
<1> QED
  BY ReportInvariance, <1>1, PTL
=============================================================================
