---------------------------- MODULE EngineProofs ----------------------------
(***************************************************************************)
(* TablesInv, StampsInv, EncodingInv and EffectsInv are invariants of      *)
(* SearchEngine, for every word width, every set of threads and inputs,    *)
(* and every normalization: the two tables agree; what the index file is   *)
(* stamped with is what its rows are normalized under and packed by; and   *)
(* every call takes effect at once, so that SearchEngine implements        *)
(* RecordIndex: a step of an engine is a step of the index of records or   *)
(* leaves it alone.                                                        *)
(***************************************************************************)
EXTENDS EngineRefinement, PackingProofs

-----------------------------------------------------------------------------
(* The statements. *)

LEMMA DeleteDocsFacts ==
  ASSUME NEW d \in Files, NEW S
  PROVE  /\ DeleteDocs(d, S) \in Files
         /\ DeleteDocs(d, S).entries = d.entries
         /\ DeleteDocs(d, S).torn = d.torn
         /\ \A i \in Id : DeleteDocs(d, S).docs[i] = IF i \in S THEN NULL ELSE d.docs[i]
BY DEF DeleteDocs, Files

LEMMA DeleteEntriesFacts ==
  ASSUME NEW d \in Files, NEW S
  PROVE  /\ DeleteEntries(d, S) \in Files
         /\ DeleteEntries(d, S).docs = d.docs
         /\ DeleteEntries(d, S).torn = d.torn
         /\ \A i \in Id : DeleteEntries(d, S).entries[i] =
                            IF i \in S THEN NULL ELSE d.entries[i]
BY DEF DeleteEntries, Files

LEMMA InsertDocsFacts ==
  ASSUME NEW d \in Files, NEW D \in SUBSET Id, NEW f \in [D -> Rows]
  PROVE  /\ InsertDocs(d, f) \in Files
         /\ InsertDocs(d, f).entries = d.entries
         /\ InsertDocs(d, f).torn = d.torn
         /\ \A i \in Id : InsertDocs(d, f).docs[i] =
                            IF i \in D THEN f[i].norm ELSE d.docs[i]
BY DEF InsertDocs, Files, Rows

LEMMA ReplaceEntriesFacts ==
  ASSUME NEW d \in Files, NEW D \in SUBSET Id, NEW f \in [D -> Rows]
  PROVE  /\ ReplaceEntries(d, f) \in Files
         /\ ReplaceEntries(d, f).docs = d.docs
         /\ ReplaceEntries(d, f).torn = d.torn
         /\ \A i \in Id : ReplaceEntries(d, f).entries[i] =
                            IF i \in D THEN f[i] ELSE d.entries[i]
BY DEF ReplaceEntries, Files

LEMMA TornFacts ==
  ASSUME NEW d \in Files, NEW S \in SUBSET Id
  PROVE  /\ Begun(d, S) \in Files /\ Completed(d, S) \in Files
         /\ Begun(d, S).torn = d.torn \cup S
         /\ Completed(d, S).torn = d.torn \ S
         /\ Begun(d, S).docs = d.docs /\ Begun(d, S).entries = d.entries
         /\ Completed(d, S).docs = d.docs /\ Completed(d, S).entries = d.entries
BY DEF Begun, Completed, Files

\* A row is a row, and not NULL.
LEMMA RowFacts ==
  ASSUME NEW p \in Profiles, NEW x \in Texts
  PROVE  Row(p, x) \in Rows /\ Row(p, x).norm = Normalize(p, x) /\ Normalize(p, x) \in Norms
BY DEF Row, Rows, Norms

\* Clearing ids in both tables.
LEMMA ClearIds ==
  ASSUME NEW d \in Files, NEW S \in SUBSET Id, AgreeOutsideTorn(d)
  PROVE  /\ clear_ids(d, S) \in Files
         /\ AgreeOutsideTorn(clear_ids(d, S))
         /\ clear_ids(d, S).torn = d.torn \ S
<1> DEFINE e == DeleteDocs(d, S)
           f == DeleteEntries(e, S)
           g == Completed(f, S)
<1>1. e \in Files /\ f \in Files /\ g \in Files
  BY DeleteDocsFacts, DeleteEntriesFacts, TornFacts
<1>2. /\ g.torn = d.torn \ S
      /\ \A i \in Id : g.docs[i] = IF i \in S THEN NULL ELSE d.docs[i]
      /\ \A i \in Id : g.entries[i] = IF i \in S THEN NULL ELSE d.entries[i]
  BY <1>1, DeleteDocsFacts, DeleteEntriesFacts, TornFacts
<1>3. g = clear_ids(d, S)
  BY DEF clear_ids
<1>4. AgreeOutsideTorn(g)
  BY <1>2 DEF AgreeOutsideTorn, Agree
<1> QED BY <1>1, <1>2, <1>3, <1>4

\* Writing the same rows to both tables.
LEMMA WriteBoth ==
  ASSUME NEW d \in Files, NEW D \in SUBSET Id, NEW f \in [D -> Rows]
  PROVE  /\ WriteRows(d, f) \in Files
         /\ WriteRows(d, f).torn = d.torn
         /\ \A i \in Id : i \in D \/ Agree(d, i) => Agree(WriteRows(d, f), i)
<1> DEFINE e == InsertDocs(d, f)
           k == ReplaceEntries(e, f)
<1>1. /\ e \in Files /\ e.entries = d.entries /\ e.torn = d.torn
      /\ \A i \in Id : e.docs[i] = IF i \in D THEN f[i].norm ELSE d.docs[i]
  BY InsertDocsFacts
<1> HIDE DEF e
<1>2. /\ k \in Files /\ k.docs = e.docs /\ k.torn = e.torn
      /\ \A i \in Id : k.entries[i] = IF i \in D THEN f[i] ELSE e.entries[i]
  <2>1. e \in Files
    BY <1>1
  <2> QED BY <2>1, ReplaceEntriesFacts
<1> HIDE DEF k
<1>3. \A i \in D : f[i] # NULL
  BY ConstantAssumption
<1>4. \A i \in Id : i \in D \/ Agree(d, i) => Agree(k, i)
  BY <1>1, <1>2, <1>3 DEF Agree
<1>5. k = WriteRows(d, f)
  BY DEF k, e, WriteRows
<1> QED BY <1>1, <1>2, <1>4, <1>5

\* The same, ending the writes to those ids.
LEMMA WriteAll ==
  ASSUME NEW d \in Files, NEW D \in SUBSET Id, NEW f \in [D -> Rows],
         \A i \in Id \ d.torn : i \in D \/ Agree(d, i)
  PROVE  /\ Completed(WriteRows(d, f), D) \in Files
         /\ AgreeOutsideTorn(Completed(WriteRows(d, f), D))
         /\ Completed(WriteRows(d, f), D).torn = d.torn \ D
<1> DEFINE k == WriteRows(d, f)
           g == Completed(k, D)
<1>1. k \in Files /\ k.torn = d.torn
  BY WriteBoth
<1>2. \A i \in Id : i \in D \/ Agree(d, i) => Agree(k, i)
  BY WriteBoth
<1> HIDE DEF k
<1>3. g \in Files /\ g.docs = k.docs /\ g.entries = k.entries /\ g.torn = k.torn \ D
  BY <1>1, TornFacts
<1> HIDE DEF g
<1>4. AgreeOutsideTorn(g)
  BY <1>1, <1>2, <1>3 DEF AgreeOutsideTorn, Agree
<1> QED BY <1>1, <1>3, <1>4 DEF g, k

-----------------------------------------------------------------------------
(* The transactions' images.  Each keeps the tables together and leaves no
   write unfinished that was not so before.                                  *)

GoodImage(d, e) == e \in Files /\ AgreeOutsideTorn(e) /\ e.torn \subseteq d.torn

LEMMA PutDocumentImage ==
  ASSUME NEW d \in Files, AgreeOutsideTorn(d), options \in Profiles,
         NEW id \in Id, NEW x \in Texts
  PROVE  GoodImage(d, PutDocument(d, id, x))
<1> DEFINE D == {id}
           row == [i \in D |-> Row(options, x)]
           e == DeleteDocs(d, D)
<1>1. row \in [D -> Rows] /\ D \in SUBSET Id
  BY RowFacts
<1>2. /\ e \in Files /\ e.entries = d.entries /\ e.torn = d.torn
      /\ \A i \in Id : e.docs[i] = IF i \in D THEN NULL ELSE d.docs[i]
  BY DeleteDocsFacts
<1> HIDE DEF e, row, D
<1>3. \A i \in Id \ e.torn : i \in D \/ Agree(e, i)
  BY <1>2 DEF AgreeOutsideTorn, Agree
<1>4. GoodImage(d, Completed(WriteRows(e, row), D))
  BY <1>1, <1>2, <1>3, WriteAll DEF GoodImage
<1> QED BY <1>4 DEF PutDocument, e, row, D

LEMMA InsertFieldsImage ==
  ASSUME NEW d \in Files, AgreeOutsideTorn(d), options \in Profiles,
         NEW fields \in Seq(Fields), NEW lo
  PROVE  GoodImage(d, InsertFields(d, fields, lo))
<1> DEFINE at(i) == {k \in LiveFields(fields) : BitOr(lo, fields[k].slot) = i}
           D == {j \in Id : at(j) # {}}
           rows == [i \in D |-> Row(options, fields[CHOOSE k \in at(i) : TRUE].text)]
<1>1. ASSUME NEW i \in D PROVE rows[i] \in Rows
  <2>1. PICK k : k = CHOOSE j \in at(i) : TRUE
    OBVIOUS
  <2>2. k \in at(i)
    BY <2>1
  <2>3. k \in DOMAIN fields
    BY <2>2 DEF LiveFields
  <2>4. fields[k] \in Fields
    BY <2>3
  <2>5. fields[k].text \in Texts
    BY <2>4 DEF Fields
  <2> QED BY <2>1, <2>5, RowFacts
<1>2. rows \in [D -> Rows] /\ DOMAIN rows = D /\ D \in SUBSET Id
  BY <1>1
<1> HIDE DEF rows, D
<1>3. GoodImage(d, Completed(WriteRows(d, rows), D))
  BY <1>2, WriteAll DEF GoodImage, AgreeOutsideTorn
<1> QED BY <1>2, <1>3 DEF InsertFields, rows, D

LEMMA StampFacts ==
  ASSUME NEW d \in Files, NEW p \in Profiles, NEW b \in FieldBits
  PROVE  /\ stamp_profile(d, p) \in Files /\ stamp_field_bits(d, b) \in Files
         /\ stamp_profile(d, p).docs = d.docs /\ stamp_field_bits(d, b).docs = d.docs
         /\ stamp_profile(d, p).entries = d.entries
         /\ stamp_field_bits(d, b).entries = d.entries
         /\ stamp_profile(d, p).torn = d.torn /\ stamp_field_bits(d, b).torn = d.torn
BY DEF stamp_profile, stamp_field_bits, Files

LEMMA ReindexedImage ==
  ASSUME NEW d \in Files, AgreeOutsideTorn(d), options \in Profiles
  PROVE  GoodImage(d, Reindexed(d))
<1> DEFINE D == {j \in Stored(d) : d.entries[j].raw # NULL}
           rows == [i \in D |-> Row(options, d.entries[i].raw)]
           e == Completed(WriteRows(d, rows), D)
<1>1. D \in SUBSET Id
  BY DEF Stored
<1>2. ASSUME NEW i \in D PROVE rows[i] \in Rows
  <2>1. d.entries[i] \in Rows
    BY DEF Stored, Files
  <2>2. d.entries[i].raw \in Texts
    BY <2>1 DEF Rows
  <2> QED BY <2>2, RowFacts
<1>3. rows \in [D -> Rows] /\ DOMAIN rows = D
  BY <1>2
<1> HIDE DEF rows, D
<1>4. GoodImage(d, e)
  BY <1>1, <1>3, WriteAll DEF GoodImage, AgreeOutsideTorn
<1>5. GoodImage(d, stamp_profile(e, options))
  BY <1>4, StampFacts, ConstantAssumption, WordAssumption DEF GoodImage, AgreeOutsideTorn, Agree
<1> QED BY <1>3, <1>5 DEF Reindexed, rows, D

LEMMA RepackedImage ==
  ASSUME NEW d \in Files, AgreeOutsideTorn(d), NEW old, NEW new \in FieldBits
  PROVE  GoodImage(d, Repacked(d, old, new))
<1> DEFINE from(i) == {j \in Stored(d) : Repack(j, old, new) = i}
           D == {k \in Id : from(k) # {}}
           rows == [i \in D |-> d.entries[CHOOSE j \in from(i) : TRUE]]
           c == clear_ids(d, Id)
           e == WriteRows(c, rows)
<1>1. ASSUME NEW i \in D PROVE rows[i] \in Rows
  <2>1. PICK j : j = CHOOSE k \in from(i) : TRUE
    OBVIOUS
  <2>2. j \in Stored(d)
    BY <2>1
  <2> QED BY <2>1, <2>2 DEF Stored, Files
<1>2. rows \in [D -> Rows] /\ D \in SUBSET Id
  BY <1>1
<1> HIDE DEF rows, D
<1>3. c \in Files /\ AgreeOutsideTorn(c) /\ c.torn \subseteq d.torn
  BY ClearIds
<1> HIDE DEF c
<1>4. e \in Files /\ e.torn = c.torn /\ \A i \in Id : Agree(c, i) => Agree(e, i)
  BY <1>2, <1>3, WriteBoth
<1> HIDE DEF e
<1>5. GoodImage(d, e)
  BY <1>3, <1>4 DEF GoodImage, AgreeOutsideTorn
<1>6. GoodImage(d, stamp_field_bits(e, new))
  BY <1>5, StampFacts, ConstantAssumption DEF GoodImage, AgreeOutsideTorn, Agree
<1> QED BY <1>6 DEF Repacked, rows, D, c, e

-----------------------------------------------------------------------------
(* A step of one thread. *)

\* What a step of t must establish itself; the rest of the invariant belongs to
\* threads that do not hold the mutex and is carried over.
LEMMA ThreadStep ==
  ASSUME TablesInv, NEW t \in Threads, NEW c \in Calls, NEW l \in Labels,
         pc' = [pc EXCEPT ![t] = l], call' = [call EXCEPT ![t] = c],
         db' \in Files, tx' \in Files \cup {NULL},
         alive' \in BOOLEAN, options' \in Profiles, field_bits' \in FieldBits,
         calls' \in 0 .. MaxCalls, faults' \in 0 .. MaxFaults,
         l \in LockedLabels => lock \in {t, NULL},
         lock' = IF l \in LockedLabels THEN t ELSE IF lock = t THEN NULL ELSE lock,
         (db' = db /\ options' = options) \/ lock \in {t, NULL},
         l = "tx" => tx' # NULL,
         l # "tx" => tx' = IF pc[t] = "tx" THEN NULL ELSE tx,
         CallOK(t)', WriteOK(t)', AgreeOutsideTorn(db'),
         tx' # NULL => AgreeOutsideTorn(tx'), TornOK'
  PROVE  TablesInv'
<1> USE DEF TablesInv
<1>1. /\ pc'[t] = l /\ \A u \in Threads \ {t} : pc'[u] = pc[u]
      /\ call'[t] = c /\ \A u \in Threads \ {t} : call'[u] = call[u]
  BY DEF TypeOK
<1>2. TypeOK'
  <2>1. pc' \in [Threads -> Labels]
    BY DEF TypeOK
  <2>2. call' \in [Threads -> Calls]
    BY DEF TypeOK
  <2>3. lock' \in Threads \cup {NULL}
    BY DEF TypeOK
  <2> QED BY <2>1, <2>2, <2>3 DEF TypeOK
<1>3. \A u \in Threads : pc'[u] \in LockedLabels <=> lock' = u
  <2> SUFFICES ASSUME NEW u \in Threads PROVE pc'[u] \in LockedLabels <=> lock' = u
    OBVIOUS
  <2>1. u # NULL /\ t # NULL
    BY ConstantAssumption
  <2>2. CASE u = t
    BY <1>1, <2>1, <2>2
  <2>3. CASE u # t
    <3>1. pc'[u] = pc[u] /\ (pc[u] \in LockedLabels <=> lock = u)
      BY <1>1, <2>3 DEF LockOK
    <3> QED BY <3>1, <2>1, <2>3
  <2> QED BY <2>2, <2>3
<1>4. tx' # NULL <=> \E u \in Threads : pc'[u] = "tx"
  <2>1. CASE l = "tx"
    BY <1>1, <2>1
  <2>2. CASE l # "tx" /\ pc[t] = "tx"
    <3>1. \A u \in Threads \ {t} : pc[u] # "tx"
      BY <2>2, ConstantAssumption DEF LockOK, LockedLabels
    <3> QED BY <1>1, <2>2, <3>1
  <2>3. CASE l # "tx" /\ pc[t] # "tx"
    BY <1>1, <2>3 DEF LockOK
  <2> QED BY <2>1, <2>2, <2>3
<1>5. ASSUME NEW u \in Threads PROVE CallOK(u)' /\ WriteOK(u)'
  <2>1. CASE u = t
    BY <2>1
  <2>2. CASE u # t
    <3>1. pc'[u] = pc[u] /\ call'[u] = call[u] /\ CallOK(u) /\ WriteOK(u)
      BY <1>1, <2>2
    <3>2. CallOK(u)'
      BY <3>1 DEF CallOK
    <3>3. CASE db' = db /\ options' = options
      BY <3>1, <3>2, <3>3 DEF WriteOK
    <3>4. CASE lock \in {t, NULL}
      <4>1. pc[u] \notin LockedLabels
        BY <2>2, <3>4, ConstantAssumption DEF LockOK
      <4> QED BY <3>1, <3>2, <4>1 DEF WriteOK, LockedLabels, MidWrite, MidIndex
    <3> QED BY <3>2, <3>3, <3>4
  <2> QED BY <2>1, <2>2
<1> QED BY <1>2, <1>3, <1>4, <1>5 DEF LockOK

\* Record ids are integers.
LEMMA RecordArithmetic ==
  /\ \A r \in Int, b \in FieldBits : range_lo(r, b) \in Int
  /\ \A i \in Id, b \in FieldBits : record_of(i, b) \in Int
<1>1. 2^W \in Nat /\ 2^(W + 1) \in Nat \ {0} /\ \A b \in FieldBits : 2^b \in Nat \ {0}
  BY WordAssumption, PowerAssumption DEF FieldBits, MaxFieldBits
<1>2. ASSUME NEW n \in Int PROVE Wrap(n) \in Int
  <2> DEFINE x == 2^W
             y == 2^(W + 1)
  <2> HIDE DEF x, y
  <2>1. x \in Int /\ y \in Int /\ y > 0
    BY <1>1 DEF x, y
  <2>2. (n + x) % y \in Int
    BY <2>1
  <2>3. ((n + x) % y) - x \in Int
    BY <2>1, <2>2
  <2> QED BY <2>3 DEF Wrap, x, y
<1>3. ASSUME NEW r \in Int, NEW b \in FieldBits PROVE range_lo(r, b) \in Int
  <2> DEFINE p == 2^b
  <2>1. p \in Int
    BY <1>1
  <2> HIDE DEF p
  <2>2. r * p \in Int
    BY <2>1
  <2> QED BY <1>2, <2>2 DEF range_lo, Shl, p
<1>4. ASSUME NEW i \in Id, NEW b \in FieldBits PROVE record_of(i, b) \in Int
  <2> DEFINE p == 2^b
             x == 2^W
  <2>1. p \in Nat \ {0} /\ x \in Nat
    BY <1>1
  <2>2. i \in -x .. x - 1
    BY DEF Id
  <2> HIDE DEF p, x
  <2>3. i \div p \in Int
    BY <2>1, <2>2
  <2> QED BY <2>3 DEF record_of, Shr, p
<1> QED BY <1>3, <1>4

LEMMA NoCallFacts == NoCall \in Calls /\ NoCall.op = "none"
BY WordAssumption DEF NoCall, Calls, Ops

\* Outside the mutex and staying there: nothing of the file is touched.
LEMMA QuietStep ==
  ASSUME TablesInv, NEW t \in Threads, NEW c \in Calls, NEW l \in Labels \ LockedLabels,
         pc[t] \notin LockedLabels,
         Goto(t, l), call' = [call EXCEPT ![t] = c],
         UNCHANGED <<db, tx, lock, engine, faults>>, calls' \in 0 .. MaxCalls,
         CallOK(t)'
  PROVE  TablesInv'
<1>1. l # "tx" /\ pc[t] # "tx" /\ lock # t /\ l \notin MidWrite /\ pc[t] \notin MidWrite
  BY DEF LockedLabels, TablesInv, LockOK
<1>2. /\ pc'[t] = l /\ call'[t] = c
      /\ \A u \in Threads \ {t} : pc'[u] = pc[u] /\ call'[u] = call[u]
  BY DEF Goto, TablesInv, TypeOK
<1>3. WriteOK(t)'
  BY <1>1, <1>2 DEF WriteOK, MidWrite, MidIndex
<1>4. TornOK'
  BY <1>1, <1>2 DEF TornOK, TablesInv
<1>5. AgreeOutsideTorn(db') /\ (tx' # NULL => AgreeOutsideTorn(tx'))
  BY DEF TablesInv
<1> QED BY <1>1, <1>3, <1>4, <1>5, ThreadStep DEF TablesInv, TypeOK, Goto, engine

\* A call that returns, leaving the file alone; only a fault may make it do so
\* between the statements of an autocommitted write.
LEMMA ReturnStep ==
  ASSUME TablesInv, NEW t \in Threads, Return(t), db' = db, options' = options,
         tx' = IF pc[t] = "tx" THEN NULL ELSE tx,
         alive' \in BOOLEAN, field_bits' \in FieldBits, calls' = calls,
         faults' \in 0 .. MaxFaults, faults' # 0 \/ (faults = 0 /\ pc[t] \notin MidWrite)
  PROVE  TablesInv'
<1>1. /\ pc'[t] = "idle" /\ call'[t] = NoCall
      /\ \A u \in Threads \ {t} : pc'[u] = pc[u] /\ call'[u] = call[u]
  BY DEF Return, Goto, TablesInv, TypeOK
<1>2. "idle" \in Labels /\ "idle" \notin LockedLabels /\ "idle" \notin MidWrite
  BY DEF Labels, LockedLabels, MidWrite, MidIndex
<1>3. CallOK(t)' /\ WriteOK(t)'
  BY <1>1, <1>2, NoCallFacts DEF CallOK, WriteOK, MidWrite, RecordOps
<1>4. TornOK'
  BY <1>1 DEF TornOK, TablesInv
<1>5. AgreeOutsideTorn(db') /\ (tx' # NULL => AgreeOutsideTorn(tx'))
  BY DEF TablesInv
<1> QED
  BY <1>2, <1>3, <1>4, <1>5, NoCallFacts, ThreadStep
     DEF TablesInv, TypeOK, Return, Goto

\* A new call.
LEMMA BeginStep ==
  ASSUME TablesInv, NEW t \in Threads, NEW c \in Calls, NEW l \in {"lock", "max"},
         Begin(t, c, l),
         c.op = "index" => c.text \in Texts,
         c.op = "index_batch" => c.todo \in Seq(Items),
         c.op = "remove_batch" => c.todo \in Seq(Removals),
         c.op \in RecordOps => c.todo \in Seq(Records),
         l = "max" => c.op \in RecordOps /\ c.todo # <<>>
  PROVE  TablesInv'
<1>1. l \in Labels \ LockedLabels /\ "idle" \notin LockedLabels
  BY DEF Labels, LockedLabels, MidWrite, MidIndex
<1>2. pc[t] \notin LockedLabels /\ calls' \in 0 .. MaxCalls
  BY <1>1, ConstantAssumption DEF Begin, TablesInv, TypeOK
<1>3. pc'[t] = l /\ call'[t] = c
  BY DEF Begin, Goto, TablesInv, TypeOK
<1>4. CallOK(t)'
  BY <1>3 DEF CallOK, MidIndex
<1> QED BY <1>1, <1>2, <1>4, QuietStep DEF Begin

-----------------------------------------------------------------------------
(* The operations before they take the mutex. *)

LEMMA PlainRequest ==
  ASSUME TablesInv, NEW t \in Threads,
         \/ index(t) \/ remove(t) \/ remove_all(t) \/ reindex(t)
         \/ change_field_bits(t) \/ search_records(t) \/ match_count_records(t)
  PROVE  TablesInv'
<1> USE NoCallFacts
<1>1. CASE index(t)
  <2>1. PICK id \in DocIds, x \in Texts :
          Begin(t, [NoCall EXCEPT !.op = "index", !.ids = {id}, !.text = x], "lock")
    BY <1>1 DEF index
  <2>2. [NoCall EXCEPT !.op = "index", !.ids = {id}, !.text = x] \in Calls
    BY ConstantAssumption, WordAssumption DEF NoCall, Calls, Ops
  <2> QED BY <2>1, <2>2, BeginStep DEF NoCall, RecordOps
<1>2. CASE remove(t)
  <2>1. PICK id \in DocIds :
          Begin(t, [NoCall EXCEPT !.op = "remove", !.ids = {id}], "lock")
    BY <1>2 DEF remove
  <2>2. [NoCall EXCEPT !.op = "remove", !.ids = {id}] \in Calls
    BY ConstantAssumption, WordAssumption DEF NoCall, Calls, Ops
  <2> QED BY <2>1, <2>2, BeginStep DEF NoCall, RecordOps
<1>3. CASE remove_all(t)
  <2>1. [NoCall EXCEPT !.op = "remove_all"] \in Calls
    BY WordAssumption DEF NoCall, Calls, Ops
  <2> QED BY <1>3, <2>1, BeginStep DEF NoCall, RecordOps, remove_all
<1>4. CASE reindex(t)
  <2>1. [NoCall EXCEPT !.op = "reindex"] \in Calls
    BY WordAssumption DEF NoCall, Calls, Ops
  <2> QED BY <1>4, <2>1, BeginStep DEF NoCall, RecordOps, reindex
<1>5. CASE change_field_bits(t)
  <2>1. PICK new \in NewBits : check_field_bits(new) /\
          Begin(t, [NoCall EXCEPT !.op = "change_field_bits", !.arg = new], "lock")
    BY <1>5 DEF change_field_bits
  <2>2. [NoCall EXCEPT !.op = "change_field_bits", !.arg = new] \in Calls
    BY <2>1, WordAssumption DEF NoCall, Calls, Ops, check_field_bits
  <2> QED BY <2>1, <2>2, BeginStep DEF NoCall, RecordOps
<1>6. CASE search_records(t)
  <2>1. PICK q \in Texts :
          Begin(t, [NoCall EXCEPT !.op = "search_records", !.text = q], "lock")
    BY <1>6 DEF search_records
  <2>2. [NoCall EXCEPT !.op = "search_records", !.text = q] \in Calls
    BY WordAssumption DEF NoCall, Calls, Ops
  <2> QED BY <2>1, <2>2, BeginStep DEF NoCall, RecordOps
<1>7. CASE match_count_records(t)
  <2>1. PICK q \in Texts :
          Begin(t, [NoCall EXCEPT !.op = "match_count_records", !.text = q], "lock")
    BY <1>7 DEF match_count_records
  <2>2. [NoCall EXCEPT !.op = "match_count_records", !.text = q] \in Calls
    BY WordAssumption DEF NoCall, Calls, Ops
  <2> QED BY <2>1, <2>2, BeginStep DEF NoCall, RecordOps
<1> QED BY <1>1, <1>2, <1>3, <1>4, <1>5, <1>6, <1>7

LEMMA ListRequest ==
  ASSUME TablesInv, NEW t \in Threads,
         \/ index_batch(t) \/ remove_batch(t) \/ index_record(t)
         \/ index_records_batch(t) \/ remove_record(t) \/ contains_record(t)
  PROVE  TablesInv'
<1> USE NoCallFacts
<1>0. field_bits \in FieldBits
  BY DEF TablesInv, TypeOK
<1>1. CASE index_batch(t)
  <2>1. PICK items \in ItemLists :
          Begin(t, [NoCall EXCEPT !.op = "index_batch", !.todo = items], "lock")
    BY <1>1 DEF index_batch
  <2>2. items \in Seq(Items)
    BY ConstantAssumption
  <2>3. [NoCall EXCEPT !.op = "index_batch", !.todo = items] \in Calls
    BY <2>2, WordAssumption DEF NoCall, Calls, Ops
  <2> QED BY <2>1, <2>2, <2>3, BeginStep DEF NoCall, RecordOps
<1>2. CASE remove_batch(t)
  <2>1. PICK ids \in IdLists :
          Begin(t, [NoCall EXCEPT !.op = "remove_batch", !.todo = ids], "lock")
    BY <1>2 DEF remove_batch
  <2>2. ids \in Seq(Removals)
    BY ConstantAssumption
  <2>3. [NoCall EXCEPT !.op = "remove_batch", !.todo = ids] \in Calls
    BY <2>2, WordAssumption DEF NoCall, Calls, Ops
  <2> QED BY <2>1, <2>2, <2>3, BeginStep DEF NoCall, RecordOps
<1>3. CASE index_records_batch(t)
  <2>1. PICK records \in RecordLists \ {<<>>} :
          Begin(t, [NoCall EXCEPT !.op = "index_records_batch", !.cap = field_bits,
                                  !.todo = records], "max")
    BY <1>3 DEF index_records_batch
  <2>2. records \in Seq(Records)
    BY ConstantAssumption
  <2>3. [NoCall EXCEPT !.op = "index_records_batch", !.cap = field_bits,
                       !.todo = records] \in Calls
    BY <1>0, <2>2, WordAssumption DEF NoCall, Calls, Ops
  <2> QED BY <2>1, <2>2, <2>3, BeginStep DEF NoCall, RecordOps
<1>4. ASSUME NEW r \in RecordIds, NEW fields \in Seq(Fields)
      PROVE  /\ <<[record |-> r, fields |-> fields]>> \in Seq(Records)
             /\ <<[record |-> r, fields |-> fields]>> # <<>>
  BY ConstantAssumption DEF Records
<1>5. CASE index_record(t)
  <2>1. PICK r \in RecordIds, fields \in FieldLists :
          Begin(t, [NoCall EXCEPT !.op = "index_record", !.cap = field_bits,
                                  !.todo = <<[record |-> r, fields |-> fields]>>], "max")
    BY <1>5 DEF index_record
  <2> DEFINE list == <<[record |-> r, fields |-> fields]>>
  <2>2. list \in Seq(Records) /\ list # <<>>
    BY <1>4, ConstantAssumption
  <2> HIDE DEF list
  <2>3. [NoCall EXCEPT !.op = "index_record", !.cap = field_bits, !.todo = list] \in Calls
    BY <1>0, <2>2, WordAssumption DEF NoCall, Calls, Ops
  <2>4. Begin(t, [NoCall EXCEPT !.op = "index_record", !.cap = field_bits,
                                !.todo = list], "max")
    BY <2>1 DEF list
  <2> QED BY <2>2, <2>3, <2>4, BeginStep DEF NoCall, RecordOps
<1>6. ASSUME NEW op \in {"remove_record", "contains_record"}, NEW r \in RecordIds,
             Begin(t, [NoCall EXCEPT !.op = op,
                                     !.todo = <<[record |-> r, fields |-> <<>>]>>], "max")
      PROVE  TablesInv'
  <2> DEFINE list == <<[record |-> r, fields |-> <<>>]>>
  <2>1. <<>> \in Seq(Fields)
    OBVIOUS
  <2>2. list \in Seq(Records) /\ list # <<>>
    BY <1>4, <2>1
  <2>3. Begin(t, [NoCall EXCEPT !.op = op, !.todo = list], "max")
    BY <1>6
  <2> HIDE DEF list
  <2>4. [NoCall EXCEPT !.op = op, !.todo = list] \in Calls
    BY <2>2, WordAssumption DEF NoCall, Calls, Ops
  <2> QED BY <2>2, <2>3, <2>4, BeginStep DEF NoCall, RecordOps
<1>7. CASE remove_record(t)
  BY <1>6, <1>7 DEF remove_record
<1>8. CASE contains_record(t)
  BY <1>6, <1>8 DEF contains_record
<1> QED BY <1>1, <1>2, <1>3, <1>5, <1>7, <1>8

LEMMA LoadSteps ==
  ASSUME TablesInv, NEW t \in Threads,
         load_max(t) \/ load_lo(t) \/ load_hi(t) \/ decode_hits(t) \/ return_hits(t)
  PROVE  TablesInv'
<1> USE DEF LockedLabels, MidWrite, MidIndex
<1>0. /\ call[t] \in Calls /\ CallOK(t) /\ pc[t] \in Labels
      /\ calls \in 0 .. MaxCalls /\ call = [call EXCEPT ![t] = call[t]]
  BY DEF TablesInv, TypeOK
<1>1. CASE load_max(t) /\ UNCHANGED <<call, lock>>
  <2>1. PICK l \in {"lock", "lo", "idle"} : Goto(t, l)
    BY <1>1 DEF load_max, Return
  <2>2. l \in Labels \ LockedLabels /\ pc[t] \notin LockedLabels
    BY <1>1 DEF load_max, Labels
  <2>3. CallOK(t)'
    <3>1. pc'[t] = l /\ call'[t] = call[t]
      BY <1>1, <2>1 DEF Goto, TablesInv, TypeOK
    <3> QED BY <1>0, <1>1, <3>1 DEF CallOK, load_max
  <2> QED BY <1>0, <1>1, <2>1, <2>2, <2>3, QuietStep DEF load_max, engine
<1>2. CASE load_max(t) /\ Return(t)
  BY <1>2, ReturnStep DEF load_max, engine, TablesInv, TypeOK
<1>3. CASE load_lo(t)
  <2> DEFINE c == [call[t] EXCEPT !.lo = range_lo(call[t].todo[1].record, field_bits)]
  <2>1. "hi" \in Labels \ LockedLabels /\ pc[t] \notin LockedLabels
    BY <1>3 DEF load_lo, Labels
  <2>2. call' = [call EXCEPT ![t] = c]
    BY <1>3 DEF load_lo, TablesInv, TypeOK
  <2>3. c \in Calls
    <3>1. call[t].todo \in Seq(Records) /\ call[t].todo # <<>>
      BY <1>0, <1>3 DEF load_lo, CallOK
    <3>2. call[t].todo[1] \in Records
      BY <3>1
    <3>3. range_lo(call[t].todo[1].record, field_bits) \in Int
      BY <3>2, RecordArithmetic DEF Records, TablesInv, TypeOK
    <3> QED BY <1>0, <3>3 DEF Calls
  <2>4. CallOK(t)'
    <3>1. pc'[t] = "hi" /\ call'[t] = c
      BY <1>3, <2>2 DEF load_lo, Goto, TablesInv, TypeOK
    <3> QED BY <1>0, <3>1 DEF CallOK, Calls
  <2> QED BY <1>0, <1>3, <2>1, <2>2, <2>3, <2>4, QuietStep DEF load_lo, engine
<1>4. CASE load_hi(t)
  <2> DEFINE ids == (call[t].lo .. range_hi(call[t].lo, field_bits)) \cap Id
             c == [call[t] EXCEPT !.ids = ids]
  <2>1. "lock" \in Labels \ LockedLabels /\ pc[t] \notin LockedLabels
    BY <1>4 DEF load_hi, Labels
  <2>2. call' = [call EXCEPT ![t] = c]
    BY <1>4 DEF load_hi, TablesInv, TypeOK
  <2>3. c \in Calls
    <3>1. ids \in SUBSET Id
      OBVIOUS
    <3> HIDE DEF ids
    <3> QED BY <1>0, <3>1 DEF Calls
  <2>4. CallOK(t)'
    <3>1. pc'[t] = "lock" /\ call'[t] = c
      BY <1>4, <2>2 DEF load_hi, Goto, TablesInv, TypeOK
    <3> HIDE DEF ids
    <3> QED BY <1>0, <3>1 DEF CallOK, Calls
  <2> QED BY <1>0, <1>4, <2>1, <2>2, <2>3, <2>4, QuietStep DEF load_hi, engine
<1>5. CASE decode_hits(t)
  <2>1. PICK S \in SUBSET call[t].ids :
          call' = [call EXCEPT ![t].ids = @ \ S,
                     ![t].found = @ \cup {record_of(i, field_bits) : i \in S}]
    BY <1>5 DEF decode_hits
  <2> DEFINE more == call[t].found \cup {record_of(i, field_bits) : i \in S}
             rest == call[t].ids \ S
             c == [call[t] EXCEPT !.ids = rest, !.found = more]
  <2>2. call[t].ids \in SUBSET Id /\ call[t].found \in SUBSET Int
    BY <1>0 DEF Calls
  <2>3. more \in SUBSET Int /\ rest \in SUBSET Id
    BY <2>2, RecordArithmetic DEF TablesInv, TypeOK
  <2>4. call' = [call EXCEPT ![t] = c]
    BY <2>1 DEF TablesInv, TypeOK
  <2> HIDE DEF more, rest
  <2>5. c \in Calls
    BY <1>0, <2>3 DEF Calls
  <2>6. pc[t] = "decode" /\ "decode" \in Labels \ LockedLabels /\ Goto(t, "decode")
    <3>1. pc[t] = "decode" /\ UNCHANGED pc
      BY <1>5, Zenon DEF decode_hits
    <3> QED BY <3>1 DEF Labels, Goto, TablesInv, TypeOK
  <2>7. CallOK(t)'
    <3>1. pc'[t] = "decode" /\ call'[t] = c
      BY <2>4, <2>6 DEF Goto, TablesInv, TypeOK
    <3>2. c.op = call[t].op /\ c.todo = call[t].todo /\ c.text = call[t].text
      BY <1>0 DEF Calls
    <3> HIDE DEF c
    <3> QED BY <1>0, <3>1, <3>2 DEF CallOK
  <2> QED BY <1>0, <1>5, <2>4, <2>5, <2>6, <2>7, QuietStep DEF decode_hits, engine
<1>6. CASE return_hits(t)
  BY <1>6, ReturnStep DEF return_hits, engine, TablesInv, TypeOK
<1> QED BY <1>1, <1>2, <1>3, <1>4, <1>5, <1>6 DEF load_max

-----------------------------------------------------------------------------
(* The locked sections. *)

\* Who can be writing when t holds the mutex, or when nobody does.
LEMMA HolderFacts ==
  ASSUME TablesInv, NEW t \in Threads, lock \in {t, NULL}
  PROVE  /\ \A u \in Threads \ {t} : pc[u] \notin LockedLabels
         /\ lock = NULL => pc[t] \notin LockedLabels
         /\ pc[t] # "tx" => tx = NULL
         /\ pc[t] \notin MidWrite /\ faults = 0 => db.torn = {}
         /\ pc[t] \in MidWrite /\ faults = 0 => db.torn \subseteq call[t].ids
<1>1. \A u \in Threads : pc[u] \in LockedLabels <=> lock = u
  BY DEF TablesInv, LockOK
<1>2. \A u \in Threads : u # NULL
  BY ConstantAssumption
<1>3. /\ \A u \in Threads \ {t} : pc[u] \notin LockedLabels
      /\ lock = NULL => pc[t] \notin LockedLabels
  BY <1>1, <1>2
<1>4. "tx" \in LockedLabels /\ \A l \in MidWrite : l \in LockedLabels
  BY DEF LockedLabels
<1>5. pc[t] # "tx" => tx = NULL
  BY <1>3, <1>4 DEF TablesInv, LockOK
<1>6. faults = 0 => \A i \in db.torn : pc[t] \in MidWrite /\ i \in call[t].ids
  BY <1>3, <1>4 DEF TablesInv, TornOK
<1> QED BY <1>3, <1>5, <1>6

LEMMA LockStep ==
  ASSUME TablesInv, NEW t \in Threads, locked_conn(t)
  PROVE  TablesInv'
<1> DEFINE l == Section(call[t].op)
<1>1. l \in Labels /\ l \in LockedLabels /\ l \notin MidWrite /\ l \notin {"max", "lo"}
  BY DEF Section, Labels, LockedLabels, MidWrite, MidIndex
<1> HIDE DEF l
<1>2. /\ lock = NULL /\ lock' = t /\ pc[t] = "lock"
      /\ pc' = [pc EXCEPT ![t] = l] /\ call' = [call EXCEPT ![t] = call[t]]
      /\ call[t] \in Calls /\ UNCHANGED <<db, engine, call, calls, faults>>
      /\ tx' = IF l # "tx" THEN tx
               ELSE IF call[t].op = "remove_all" THEN clear_ids(db, Id) ELSE db
      /\ pc'[t] = l /\ call'[t] = call[t]
  BY DEF locked_conn, Goto, TablesInv, TypeOK, l
<1>3. pc[t] \notin MidWrite /\ pc[t] # "tx" /\ pc[t] \notin LockedLabels
  BY <1>2 DEF MidWrite, MidIndex, LockedLabels
<1>4. /\ clear_ids(db, Id) \in Files /\ AgreeOutsideTorn(clear_ids(db, Id))
      /\ clear_ids(db, Id).torn = db.torn \ Id /\ db \in Files /\ AgreeOutsideTorn(db)
  BY ClearIds DEF TablesInv, TypeOK
<1>5. NULL \notin Files
  BY ConstantAssumption
<1>6. tx = NULL /\ (faults = 0 => db.torn = {})
  BY <1>2, <1>3, HolderFacts
<1>7. CallOK(t)'
  BY <1>1, <1>2 DEF CallOK, TablesInv, MidIndex, MidWrite
<1>8. WriteOK(t)'
  BY <1>1, <1>2 DEF WriteOK, MidWrite, MidIndex
<1>9. TornOK'
  BY <1>2, <1>4, <1>6 DEF TornOK
<1> QED
  BY <1>1, <1>2, <1>3, <1>4, <1>5, <1>6, <1>7, <1>8, <1>9, ThreadStep
     DEF TablesInv, TypeOK, engine

LEMMA WriteSteps ==
  ASSUME TablesInv, NEW t \in Threads,
         delete_docs(t) \/ insert_docs(t) \/ replace_entries(t) \/ delete_entries(t)
  PROVE  TablesInv'
<1> DEFINE S == call[t].ids
           rows == IndexRow(t)
<1>1. /\ lock = t /\ pc[t] \in {"del_docs", "ins_docs", "ins_entries", "del_entries"}
      /\ UNCHANGED <<tx, engine, calls, faults>>
  BY DEF delete_docs, insert_docs, replace_entries, delete_entries, Locked
<1>2. /\ db \in Files /\ call[t] \in Calls /\ S \in SUBSET Id /\ options \in Profiles
      /\ CallOK(t) /\ WriteOK(t) /\ AgreeOutsideTorn(db) /\ TypeOK /\ db.torn \in SUBSET Id
  BY DEF TablesInv, TypeOK, Calls, Files
<1>3. tx = NULL /\ (faults = 0 => db.torn \subseteq S)
  BY <1>1, HolderFacts DEF MidWrite, MidIndex
<1>4. pc[t] # "tx" /\ "tx" \notin {"ins_docs", "del_entries", "ins_entries", "idle"}
  BY <1>1
<1>5. CASE delete_docs(t)
  <2> DEFINE e == DeleteDocs(db, S)
             l == IF call[t].op = "index" THEN "ins_docs" ELSE "del_entries"
  <2>1. /\ pc' = [pc EXCEPT ![t] = l] /\ call' = [call EXCEPT ![t] = call[t]]
        /\ pc'[t] = l /\ call'[t] = call[t] /\ lock' = t /\ db' = Begun(e, S)
    BY <1>1, <1>2, <1>5 DEF delete_docs, Goto, TypeOK
  <2>2. /\ e \in Files /\ e.entries = db.entries /\ e.torn = db.torn
        /\ \A i \in Id : e.docs[i] = IF i \in S THEN NULL ELSE db.docs[i]
    BY <1>2, DeleteDocsFacts
  <2> HIDE DEF e
  <2>3. /\ db' \in Files /\ db'.torn = db.torn \cup S
        /\ db'.docs = e.docs /\ db'.entries = db.entries
    BY <1>2, <2>1, <2>2, TornFacts
  <2>4. AgreeOutsideTorn(db')
    BY <1>2, <2>2, <2>3 DEF AgreeOutsideTorn, Agree
  <2>5. CallOK(t)'
    BY <1>2, <2>1 DEF CallOK, MidIndex
  <2>6. WriteOK(t)'
    BY <1>2, <2>1, <2>2, <2>3 DEF WriteOK, MidWrite, MidIndex
  <2>7. TornOK'
    BY <1>1, <1>2, <1>3, <2>1, <2>3 DEF TornOK, MidWrite, MidIndex
  <2>8. l \in Labels /\ l \in LockedLabels /\ l # "tx"
    BY DEF Labels, LockedLabels, MidWrite, MidIndex
  <2> HIDE DEF l
  <2> QED
    BY <1>1, <1>2, <1>3, <1>4, <2>1, <2>3, <2>4, <2>5, <2>6, <2>7, <2>8, ThreadStep
       DEF TypeOK, engine
<1>6. ASSUME pc[t] \in MidIndex
      PROVE  rows \in [S -> Rows] /\ \A i \in S : rows[i].norm = Normalize(options, call[t].text)
  <2>1. call[t].text \in Texts
    BY <1>2, <1>6 DEF CallOK
  <2> QED BY <1>2, <2>1, RowFacts DEF IndexRow
<1> HIDE DEF rows
<1>7. CASE insert_docs(t)
  <2>1. /\ pc[t] = "ins_docs" /\ pc[t] \in MidWrite /\ pc[t] \in MidIndex
        /\ pc' = [pc EXCEPT ![t] = "ins_entries"] /\ call' = [call EXCEPT ![t] = call[t]]
        /\ pc'[t] = "ins_entries" /\ call'[t] = call[t] /\ lock' = t
        /\ db' = InsertDocs(db, rows)
    BY <1>1, <1>2, <1>7 DEF insert_docs, Goto, TypeOK, Locked, rows, MidWrite, MidIndex
  <2>2. /\ db' \in Files /\ db'.entries = db.entries /\ db'.torn = db.torn
        /\ \A i \in Id : db'.docs[i] = IF i \in S THEN rows[i].norm ELSE db.docs[i]
    <3>1. db \in Files /\ S \in SUBSET Id /\ rows \in [S -> Rows]
      BY <1>2, <1>6, <2>1
    <3> HIDE DEF S
    <3>2. /\ InsertDocs(db, rows) \in Files
          /\ InsertDocs(db, rows).entries = db.entries
          /\ InsertDocs(db, rows).torn = db.torn
          /\ \A i \in Id : InsertDocs(db, rows).docs[i] =
                             IF i \in S THEN rows[i].norm ELSE db.docs[i]
      BY <3>1, InsertDocsFacts
    <3> QED BY <2>1, <3>2
  <2>3. S \subseteq db.torn
    BY <1>2, <2>1 DEF WriteOK
  <2>4. AgreeOutsideTorn(db')
    BY <1>2, <2>2, <2>3 DEF AgreeOutsideTorn, Agree
  <2>5. CallOK(t)'
    BY <1>2, <2>1 DEF CallOK, MidIndex
  <2>6. WriteOK(t)'
    <3>1. \A i \in S : db'.docs[i] = Normalize(options, call[t].text)
      BY <1>2, <1>6, <2>1, <2>2
    <3> QED BY <1>1, <2>1, <2>2, <2>3, <3>1 DEF WriteOK, MidWrite, MidIndex, engine
  <2>7. TornOK'
    BY <1>1, <1>2, <1>3, <2>1, <2>2 DEF TornOK, MidWrite, MidIndex
  <2>8. "ins_entries" \in Labels /\ "ins_entries" \in LockedLabels
    BY DEF Labels, LockedLabels, MidWrite, MidIndex
  <2> QED
    BY <1>1, <1>2, <1>3, <1>4, <2>1, <2>2, <2>4, <2>5, <2>6, <2>7, <2>8, ThreadStep
       DEF TypeOK, engine
<1>8. ASSUME Return(t), db' \in Files, AgreeOutsideTorn(db'), db'.torn = db.torn \ S
      PROVE  TablesInv'
  <2>1. /\ pc' = [pc EXCEPT ![t] = "idle"] /\ call' = [call EXCEPT ![t] = NoCall]
        /\ pc'[t] = "idle" /\ call'[t] = NoCall /\ lock' = NULL
    BY <1>1, <1>2, <1>8 DEF Return, Goto, TypeOK
  <2>2. CallOK(t)' /\ WriteOK(t)'
    BY <2>1, NoCallFacts DEF CallOK, WriteOK, RecordOps, MidWrite, MidIndex
  <2>3. TornOK'
    BY <1>1, <1>3, <1>8 DEF TornOK
  <2>4. "idle" \in Labels /\ "idle" \notin LockedLabels
    BY DEF Labels, LockedLabels, MidWrite, MidIndex
  <2> QED
    BY <1>1, <1>2, <1>3, <1>4, <1>8, <2>1, <2>2, <2>3, <2>4, NoCallFacts, ThreadStep
       DEF TypeOK, engine
<1>9. CASE replace_entries(t)
  <2> DEFINE e == ReplaceEntries(db, rows)
  <2>1. /\ pc[t] = "ins_entries" /\ pc[t] \in MidWrite /\ pc[t] \in MidIndex
        /\ Return(t) /\ db' = Completed(e, S)
    BY <1>9 DEF replace_entries, Locked, rows, MidWrite, MidIndex
  <2>2. /\ e \in Files /\ e.docs = db.docs /\ e.torn = db.torn
        /\ \A i \in Id : e.entries[i] = IF i \in S THEN rows[i] ELSE db.entries[i]
    <3>1. db \in Files /\ S \in SUBSET Id /\ rows \in [S -> Rows]
      BY <1>2, <1>6, <2>1
    <3> HIDE DEF S
    <3>2. /\ ReplaceEntries(db, rows) \in Files
          /\ ReplaceEntries(db, rows).docs = db.docs
          /\ ReplaceEntries(db, rows).torn = db.torn
          /\ \A i \in Id : ReplaceEntries(db, rows).entries[i] =
                            IF i \in S THEN rows[i] ELSE db.entries[i]
      BY <3>1, ReplaceEntriesFacts
    <3> QED BY <3>2
  <2> HIDE DEF e
  <2>3. /\ db' \in Files /\ db'.torn = db.torn \ S
        /\ db'.docs = db.docs /\ db'.entries = e.entries
    BY <1>2, <2>1, <2>2, TornFacts
  <2>4. \A i \in S : db.docs[i] = rows[i].norm /\ rows[i] # NULL
    BY <1>2, <1>6, <2>1, ConstantAssumption DEF WriteOK
  <2>5. AgreeOutsideTorn(db')
    BY <1>2, <2>2, <2>3, <2>4 DEF AgreeOutsideTorn, Agree
  <2> QED BY <1>8, <2>1, <2>3, <2>5
<1>10. CASE delete_entries(t)
  <2> DEFINE e == DeleteEntries(db, S)
  <2>1. pc[t] = "del_entries" /\ Return(t) /\ db' = Completed(e, S)
    BY <1>10 DEF delete_entries, Locked
  <2>2. /\ e \in Files /\ e.docs = db.docs /\ e.torn = db.torn
        /\ \A i \in Id : e.entries[i] = IF i \in S THEN NULL ELSE db.entries[i]
    BY <1>2, DeleteEntriesFacts
  <2> HIDE DEF e
  <2>3. /\ db' \in Files /\ db'.torn = db.torn \ S
        /\ db'.docs = db.docs /\ db'.entries = e.entries
    BY <1>2, <2>1, <2>2, TornFacts
  <2>4. AgreeOutsideTorn(db')
    BY <1>2, <2>1, <2>2, <2>3 DEF AgreeOutsideTorn, Agree, WriteOK
  <2> QED BY <1>8, <2>1, <2>3, <2>4
<1> QED BY <1>5, <1>7, <1>9, <1>10

\* A step inside the mutex, between statements of no autocommitted write, that
\* leaves the file alone and puts e, or nothing, in the transaction.
LEMMA SectionStep ==
  ASSUME TablesInv, NEW t \in Threads, NEW c \in Calls,
         NEW l \in {"tx", "store"}, lock = t, pc[t] \notin MidWrite,
         Goto(t, l), call' = [call EXCEPT ![t] = c], lock' = t,
         UNCHANGED <<options, field_bits, alive, calls, faults>>,
         db' \in Files, AgreeOutsideTorn(db'), faults = 0 => db'.torn = {},
         l = "tx" => GoodImage(db', tx'),
         l = "store" => tx' = NULL,
         CallOK(t)'
  PROVE  TablesInv'
<1>1. l \in Labels /\ l \in LockedLabels /\ l \notin MidWrite
  BY DEF Labels, LockedLabels, MidWrite, MidIndex
<1>2. NULL \notin Files /\ tx' \in Files \cup {NULL} /\ (l = "tx" => tx' # NULL)
  BY ConstantAssumption DEF GoodImage
<1>3. pc'[t] = l
  BY DEF Goto, TablesInv, TypeOK
<1>4. WriteOK(t)'
  BY <1>1, <1>3 DEF WriteOK, MidWrite, MidIndex
<1>5. TornOK'
  BY DEF TornOK, GoodImage
<1>6. pc[t] # "tx" => tx = NULL
  BY HolderFacts
<1> QED
  BY <1>1, <1>2, <1>4, <1>5, <1>6, ThreadStep DEF TablesInv, TypeOK, Goto, GoodImage

LEMMA ReadSteps ==
  ASSUME TablesInv, NEW t \in Threads, read_exists(t) \/ fetch_hits(t)
  PROVE  TablesInv'
<1>1. CASE read_exists(t)
  BY <1>1, ReturnStep DEF read_exists, Locked, engine, TablesInv, TypeOK, MidWrite, MidIndex
<1>2. CASE fetch_hits(t)
  <2> DEFINE hits == {i \in Id : db.docs[i] = Normalize(options, call[t].text)}
             recs == {record_of(i, field_bits) : i \in hits}
             c == [call[t] EXCEPT !.ids = hits, !.owners = recs]
  <2>1. hits \in SUBSET Id /\ recs \in SUBSET Int
    BY RecordArithmetic DEF TablesInv, TypeOK
  <2>2. /\ lock = t /\ pc[t] = "search" /\ lock' = NULL
        /\ pc' = [pc EXCEPT ![t] = "decode"] /\ call' = [call EXCEPT ![t] = c]
        /\ UNCHANGED <<db, tx, engine, calls, faults>> /\ call[t] \in Calls /\ CallOK(t)
        /\ pc'[t] = "decode" /\ call'[t] = c
    BY <1>2 DEF fetch_hits, Locked, Goto, TablesInv, TypeOK
  <2> HIDE DEF hits, recs
  <2>3. c \in Calls
    BY <2>1, <2>2 DEF Calls
  <2>4. /\ "decode" \in Labels /\ "decode" \notin LockedLabels
        /\ pc[t] \notin MidWrite /\ "decode" \notin MidWrite
    BY <2>2 DEF Labels, LockedLabels, MidWrite, MidIndex
  <2>5. CallOK(t)' /\ WriteOK(t)'
    BY <2>2, <2>4 DEF CallOK, WriteOK, Calls, MidWrite, MidIndex
  <2>6. tx = NULL /\ (faults = 0 => db.torn = {})
    BY <2>2, <2>4, HolderFacts
  <2>7. TornOK'
    BY <2>2, <2>6 DEF TornOK
  <2>8. AgreeOutsideTorn(db') /\ (tx' # NULL => AgreeOutsideTorn(tx'))
    BY <2>2 DEF TablesInv
  <2> QED
    BY <2>2, <2>3, <2>4, <2>5, <2>6, <2>7, <2>8, ThreadStep DEF TablesInv, TypeOK, engine
<1> QED BY <1>1, <1>2

\* What the loop of a transaction starts from.
LEMMA TxFacts ==
  ASSUME TablesInv, NEW t \in Threads, Locked(t, "tx")
  PROVE  /\ lock = t /\ pc[t] = "tx" /\ pc[t] \notin MidWrite
         /\ tx \in Files /\ AgreeOutsideTorn(tx) /\ (faults = 0 => tx.torn = {})
         /\ db \in Files /\ AgreeOutsideTorn(db) /\ (faults = 0 => db.torn = {})
         /\ call[t] \in Calls /\ CallOK(t) /\ options \in Profiles
<1>1. lock = t /\ pc[t] = "tx" /\ pc[t] \notin MidWrite
  BY DEF Locked, MidWrite, MidIndex
<1>2. tx \in Files /\ AgreeOutsideTorn(tx) /\ (faults = 0 => tx.torn = {})
  BY <1>1 DEF TablesInv, LockOK, TypeOK, TornOK
<1>3. faults = 0 => db.torn = {}
  BY <1>1, HolderFacts
<1> QED BY <1>1, <1>2, <1>3 DEF TablesInv, TypeOK

\* A turn of the loop keeps the rest of the call's list of its type.
LEMMA ApplyStep ==
  ASSUME TablesInv, NEW t \in Threads, Locked(t, "tx"), call[t].todo # <<>>,
         NEW e, Apply(t, e), GoodImage(tx, e)
  PROVE  TablesInv'
<1> DEFINE rest == Tail(call[t].todo)
           c == [call[t] EXCEPT !.todo = rest]
<1>1. /\ call[t] \in Calls /\ CallOK(t) /\ lock = t /\ pc[t] = "tx"
      /\ call[t].todo \in Seq(Items) \cup Seq(Removals) \cup Seq(Records)
  BY TxFacts DEF Calls
<1>2. /\ call[t].todo \in Seq(Items) => rest \in Seq(Items)
      /\ call[t].todo \in Seq(Removals) => rest \in Seq(Removals)
      /\ call[t].todo \in Seq(Records) => rest \in Seq(Records)
  OBVIOUS
<1>3. /\ call' = [call EXCEPT ![t] = c] /\ tx' = e
      /\ UNCHANGED <<db, lock, engine, pc, calls, faults>>
  BY DEF Apply, TablesInv, TypeOK
<1> HIDE DEF rest
<1>4. c \in Calls
  BY <1>1, <1>2 DEF Calls
<1>5. pc'[t] = "tx" /\ call'[t] = c /\ Goto(t, "tx")
  BY <1>1, <1>3 DEF TablesInv, TypeOK, Goto
<1>6. CallOK(t)'
  BY <1>1, <1>2, <1>5 DEF CallOK, Calls, MidIndex
<1>7. TornOK'
  BY <1>3, TxFacts DEF TornOK, GoodImage, TablesInv
<1>8. WriteOK(t)'
  BY <1>5 DEF WriteOK, MidWrite, MidIndex
<1>9. "tx" \in Labels /\ "tx" \in LockedLabels
  BY DEF Labels, LockedLabels
<1>10. tx' \in Files /\ tx' # NULL /\ AgreeOutsideTorn(tx') /\ AgreeOutsideTorn(db')
  BY <1>3, ConstantAssumption DEF GoodImage, TablesInv
<1> QED
  BY <1>1, <1>3, <1>4, <1>5, <1>6, <1>7, <1>8, <1>9, <1>10, ThreadStep
     DEF TablesInv, TypeOK, Goto, engine

LEMMA ItemSteps ==
  ASSUME TablesInv, NEW t \in Threads, index_item(t) \/ remove_item(t) \/ record_item(t)
  PROVE  TablesInv'
<1>1. Locked(t, "tx") /\ call[t].todo # <<>>
  BY DEF index_item, remove_item, record_item
<1>2. /\ tx \in Files /\ AgreeOutsideTorn(tx) /\ CallOK(t) /\ options \in Profiles
      /\ pc[t] = "tx" /\ call[t] \in Calls
  BY <1>1, TxFacts
<1>3. CASE index_item(t)
  <2> DEFINE item == Head(call[t].todo)
  <2>1. item \in Items
    BY <1>1, <1>2, <1>3 DEF index_item, CallOK
  <2>2. GoodImage(tx, PutDocument(tx, item.id, item.text))
    BY <1>2, <2>1, PutDocumentImage DEF Items
  <2> QED BY <1>1, <1>3, <2>2, ApplyStep DEF index_item
<1>4. CASE remove_item(t)
  <2> DEFINE S == {Head(call[t].todo).id}
  <2>1. Head(call[t].todo) \in Removals
    BY <1>1, <1>2, <1>4 DEF remove_item, CallOK
  <2>2. S \in SUBSET Id
    BY <2>1 DEF Removals
  <2> HIDE DEF S
  <2>3. GoodImage(tx, clear_ids(tx, S))
    BY <1>2, <2>2, ClearIds DEF GoodImage
  <2> QED BY <1>1, <1>4, <2>3, ApplyStep DEF remove_item, S
<1>5. CASE record_item(t)
  <2> DEFINE r == Head(call[t].todo)
             single == call[t].op = "index_record"
             lo == IF single THEN call[t].lo ELSE range_lo(r.record, field_bits)
             ids == IF single THEN call[t].ids
                    ELSE (lo .. range_hi(lo, field_bits)) \cap Id
             cleared == clear_ids(tx, ids)
  <2>1. r \in Records
    BY <1>1, <1>2, <1>5 DEF record_item, CallOK, RecordOps
  <2>2. ids \in SUBSET Id
    BY <1>2 DEF Calls
  <2>3. \/ Rollback(t) /\ UNCHANGED faults
        \/ Apply(t, InsertFields(cleared, r.fields, lo))
    BY <1>5 DEF record_item
  <2> HIDE DEF ids, lo
  <2>4. cleared \in Files /\ AgreeOutsideTorn(cleared) /\ cleared.torn \subseteq tx.torn
    BY <1>2, <2>2, ClearIds
  <2>5. r.fields \in Seq(Fields)
    BY <2>1 DEF Records
  <2> HIDE DEF cleared, r
  <2>6. GoodImage(tx, InsertFields(cleared, r.fields, lo))
    <3>1. GoodImage(cleared, InsertFields(cleared, r.fields, lo))
      BY <1>2, <2>4, <2>5, InsertFieldsImage
    <3> QED BY <2>4, <3>1 DEF GoodImage
  <2>7. CASE Apply(t, InsertFields(cleared, r.fields, lo))
    BY <1>1, <2>6, <2>7, ApplyStep
  <2>8. CASE Rollback(t) /\ UNCHANGED faults
    <3>1. pc[t] \notin MidWrite
      BY <1>1, TxFacts
    <3> QED BY <1>2, <2>8, <3>1, ReturnStep DEF Rollback, engine, TablesInv, TypeOK
  <2> QED BY <2>3, <2>7, <2>8
<1> QED BY <1>3, <1>4, <1>5

LEMMA RebuildSteps ==
  ASSUME TablesInv, NEW t \in Threads, regenerate(t) \/ repack(t)
  PROVE  TablesInv'
<1>1. lock = t /\ pc[t] \notin MidWrite /\ pc[t] \notin {"tx"}
  BY DEF regenerate, repack, Locked, MidWrite, MidIndex
<1>2. /\ db \in Files /\ AgreeOutsideTorn(db) /\ options \in Profiles
      /\ call[t] \in Calls /\ CallOK(t) /\ (faults = 0 => db.torn = {})
  BY <1>1, HolderFacts DEF TablesInv, TypeOK
<1>3. ASSUME Goto(t, "tx"), UNCHANGED <<db, lock, engine, call, calls, faults>>,
             GoodImage(db, tx')
      PROVE  TablesInv'
  <2>1. call' = [call EXCEPT ![t] = call[t]] /\ pc'[t] = "tx" /\ call'[t] = call[t]
    BY <1>3 DEF Goto, TablesInv, TypeOK
  <2>2. CallOK(t)'
    BY <1>2, <2>1 DEF CallOK, MidIndex
  <2> QED BY <1>1, <1>2, <1>3, <2>1, <2>2, SectionStep DEF engine
<1>4. CASE regenerate(t)
  BY <1>2, <1>3, <1>4, ReindexedImage DEF regenerate
<1>5. CASE repack(t)
  <2>1. call[t].arg \in FieldBits
    BY <1>2 DEF Calls
  <2>2. CASE Return(t) /\ UNCHANGED tx
    BY <1>1, <1>5, <2>2, ReturnStep DEF repack, engine, TablesInv, TypeOK
  <2>3. CASE tx' = Repacked(db, field_bits, call[t].arg) /\ Goto(t, "tx")
             /\ UNCHANGED <<lock, call>>
    BY <1>2, <1>3, <1>5, <2>1, <2>3, RepackedImage DEF repack
  <2> QED BY <1>5, <2>2, <2>3 DEF repack
<1> QED BY <1>4, <1>5

\* A step after which t holds the mutex no more and no transaction is open.
LEMMA FinishStep ==
  ASSUME TablesInv, NEW t \in Threads, lock = t, Return(t), tx' = NULL,
         db' \in Files, AgreeOutsideTorn(db'), faults = 0 => db'.torn = {},
         options' = options, alive' \in BOOLEAN, field_bits' \in FieldBits,
         UNCHANGED <<calls, faults>>
  PROVE  TablesInv'
<1>1. /\ pc' = [pc EXCEPT ![t] = "idle"] /\ call' = [call EXCEPT ![t] = NoCall]
      /\ pc'[t] = "idle" /\ call'[t] = NoCall /\ lock' = NULL
  BY DEF Return, Goto, TablesInv, TypeOK
<1>2. "idle" \in Labels /\ "idle" \notin LockedLabels /\ "idle" \notin MidWrite
  BY DEF Labels, LockedLabels, MidWrite, MidIndex
<1>3. CallOK(t)' /\ WriteOK(t)'
  BY <1>1, <1>2, NoCallFacts DEF CallOK, WriteOK, MidWrite, MidIndex, RecordOps
<1>4. TornOK'
  BY DEF TornOK
<1>5. pc[t] # "tx" => tx = NULL
  BY HolderFacts
<1> QED
  BY <1>1, <1>2, <1>3, <1>4, <1>5, NoCallFacts, ThreadStep DEF TablesInv, TypeOK

LEMMA CommitSteps ==
  ASSUME TablesInv, NEW t \in Threads, commit(t) \/ store_field_bits(t)
  PROVE  TablesInv'
<1>1. CASE commit(t)
  <2>1. Locked(t, "tx") /\ db' = tx /\ tx' = NULL /\ UNCHANGED <<options, field_bits, calls, faults>>
    BY <1>1 DEF commit
  <2>2. /\ lock = t /\ pc[t] \notin MidWrite /\ db' \in Files /\ AgreeOutsideTorn(db')
        /\ (faults = 0 => db'.torn = {}) /\ call[t] \in Calls /\ CallOK(t)
    BY <2>1, TxFacts
  <2>3. alive' \in BOOLEAN
    BY <1>1 DEF commit
  <2>4. CASE Return(t)
    BY <2>1, <2>2, <2>3, <2>4, FinishStep DEF TablesInv, TypeOK
  <2>5. CASE call[t].op = "change_field_bits" /\ Goto(t, "store") /\ UNCHANGED <<lock, call>>
    <3>1. alive' = alive
      BY <1>1, <2>5 DEF commit, TablesInv, TypeOK
    <3>2. call' = [call EXCEPT ![t] = call[t]] /\ pc'[t] = "store" /\ call'[t] = call[t]
      BY <2>5 DEF Goto, TablesInv, TypeOK
    <3>3. CallOK(t)'
      BY <2>2, <3>2 DEF CallOK, MidIndex
    <3> QED BY <2>1, <2>2, <2>5, <3>1, <3>2, <3>3, SectionStep
  <2> QED BY <1>1, <2>4, <2>5 DEF commit
<1>2. CASE store_field_bits(t)
  <2>1. lock = t /\ pc[t] = "store" /\ pc[t] \notin MidWrite
    BY <1>2 DEF store_field_bits, Locked, MidWrite, MidIndex
  <2>2. call[t].arg \in FieldBits
    BY DEF TablesInv, TypeOK, Calls
  <2> QED BY <1>2, <2>1, <2>2, ReturnStep DEF store_field_bits, TablesInv, TypeOK
<1> QED BY <1>1, <1>2

-----------------------------------------------------------------------------
(* Opening, closing and failing. *)

LEMMA OpenSteps ==
  ASSUME TablesInv, NEW t \in Threads,
         open(t) \/ open_stamp_bits(t) \/ open_stamp_profile(t)
  PROVE  TablesInv'
<1> USE DEF TablesInv
<1>1. CASE open(t)
  <2>1. PICK p \in Profiles, bits \in FieldBits \cup {NULL}, m \in BOOLEAN :
          /\ lock = NULL /\ pc[t] = "idle" /\ calls < MaxCalls /\ options' = p
          /\ field_bits' = IF bits # NULL THEN bits
                           ELSE IF stored_field_bits(db) # NULL THEN stored_field_bits(db)
                           ELSE DefaultBits
          /\ lock' = t
          /\ call' = [call EXCEPT ![t] = [NoCall EXCEPT !.op = "open", !.mismatch = m]]
          /\ calls' = calls + 1 /\ Goto(t, "stamp_bits") /\ UNCHANGED <<db, tx, alive, faults>>
    BY <1>1 DEF open
  <2> DEFINE c == [NoCall EXCEPT !.op = "open", !.mismatch = m]
  <2>2. c \in Calls /\ c.op = "open"
    BY NoCallFacts DEF NoCall, Calls, Ops
  <2>3. /\ pc'[t] = "stamp_bits" /\ call'[t] = c /\ pc' = [pc EXCEPT ![t] = "stamp_bits"]
    BY <2>1 DEF Goto, TypeOK
  <2>4. field_bits' \in FieldBits
    BY <2>1, WordAssumption, ConstantAssumption DEF stored_field_bits, TypeOK, Files
  <2>5. calls' \in 0 .. MaxCalls
    BY <2>1, ConstantAssumption DEF TypeOK
  <2>6. /\ "stamp_bits" \in Labels /\ "stamp_bits" \in LockedLabels
        /\ "stamp_bits" \notin MidWrite /\ pc[t] \notin MidWrite /\ pc[t] # "tx"
    BY <2>1 DEF Labels, LockedLabels, MidWrite, MidIndex
  <2> HIDE DEF c
  <2>7. CallOK(t)' /\ WriteOK(t)'
    BY <2>2, <2>3, <2>6 DEF CallOK, WriteOK, RecordOps, MidWrite, MidIndex
  <2>8. TornOK'
    BY <2>1, <2>6, HolderFacts DEF TornOK
  <2>9. AgreeOutsideTorn(db') /\ (tx' # NULL => AgreeOutsideTorn(tx'))
    BY <2>1
  <2> QED
    BY <2>1, <2>2, <2>3, <2>4, <2>5, <2>6, <2>7, <2>8, <2>9, ThreadStep DEF TypeOK, c
<1>2. CASE open_stamp_bits(t)
  <2> DEFINE l == IF call[t].mismatch THEN "reindex" ELSE "stamp_profile"
  <2>1. /\ lock = t /\ pc[t] = "stamp_bits" /\ lock' = t
        /\ db' = stamp_field_bits(db, field_bits)
        /\ pc' = [pc EXCEPT ![t] = l] /\ call' = [call EXCEPT ![t] = call[t]]
        /\ pc'[t] = l /\ call'[t] = call[t] /\ call[t] \in Calls /\ CallOK(t)
        /\ UNCHANGED <<tx, engine, calls, faults>>
    BY <1>2 DEF open_stamp_bits, Locked, Goto, TypeOK
  <2>2. /\ l \in Labels /\ l \in LockedLabels /\ l \notin MidWrite /\ l # "tx"
        /\ l \notin {"max", "lo"} /\ pc[t] \notin MidWrite /\ pc[t] # "tx"
    BY <2>1 DEF Labels, LockedLabels, MidWrite, MidIndex
  <2> HIDE DEF l
  <2>3. db' \in Files /\ db'.docs = db.docs /\ db'.entries = db.entries /\ db'.torn = db.torn
    BY <2>1, StampFacts, ConstantAssumption DEF TypeOK
  <2>4. AgreeOutsideTorn(db')
    BY <2>3 DEF AgreeOutsideTorn, Agree
  <2>5. CallOK(t)' /\ WriteOK(t)'
    BY <2>1, <2>2 DEF CallOK, WriteOK, MidWrite, MidIndex
  <2>6. tx = NULL /\ (faults = 0 => db.torn = {})
    BY <2>1, <2>2, HolderFacts
  <2>7. TornOK'
    BY <2>1, <2>3, <2>6 DEF TornOK
  <2> QED
    BY <2>1, <2>2, <2>3, <2>4, <2>5, <2>6, <2>7, ThreadStep DEF TypeOK, engine
<1>3. CASE open_stamp_profile(t)
  <2>1. /\ lock = t /\ pc[t] = "stamp_profile" /\ db' = stamp_profile(db, options)
        /\ alive' = TRUE /\ Return(t) /\ UNCHANGED <<tx, options, field_bits, calls, faults>>
    BY <1>3 DEF open_stamp_profile, Locked
  <2>2. pc[t] \notin MidWrite /\ pc[t] # "tx"
    BY <2>1 DEF MidWrite, MidIndex
  <2>3. tx = NULL /\ (faults = 0 => db.torn = {})
    BY <2>1, <2>2, HolderFacts
  <2>4. db' \in Files /\ db'.docs = db.docs /\ db'.entries = db.entries /\ db'.torn = db.torn
    BY <2>1, StampFacts, WordAssumption DEF TypeOK
  <2>5. AgreeOutsideTorn(db')
    BY <2>4 DEF AgreeOutsideTorn, Agree
  <2> QED BY <2>1, <2>3, <2>4, <2>5, FinishStep DEF TypeOK
<1> QED BY <1>1, <1>2, <1>3

LEMMA FailStep ==
  ASSUME TablesInv, NEW t \in Threads, statement_fails(t)
  PROVE  TablesInv'
<1>1. faults' \in 0 .. MaxFaults /\ faults' # 0
  BY ConstantAssumption DEF statement_fails, TablesInv, TypeOK
<1>2. pc[t] # "tx" => tx = NULL
  BY HolderFacts DEF statement_fails
<1> QED
  BY <1>1, <1>2, ReturnStep DEF statement_fails, Rollback, engine, TablesInv, TypeOK

\* Whatever the threads were doing, the file is what the invariant says it is.
LEMMA StopStep ==
  ASSUME TablesInv, crash \/ close
  PROVE  TablesInv'
<1> USE DEF TablesInv
<1>1. Stopped /\ faults' \in 0 .. MaxFaults
  BY ConstantAssumption DEF crash, close, TypeOK
<1>2. /\ \A t \in Threads : pc'[t] = "idle" /\ call'[t] = NoCall
      /\ lock' = NULL /\ tx' = NULL /\ db' = db
  BY <1>1 DEF Stopped
<1>3. "idle" \in Labels /\ "idle" \notin LockedLabels /\ "idle" \notin MidWrite
  BY DEF Labels, LockedLabels, MidWrite, MidIndex
<1>4. TypeOK'
  BY <1>1, <1>3, NoCallFacts, ConstantAssumption, WordAssumption DEF TypeOK, Stopped
<1>5. LockOK'
  BY <1>2, <1>3, ConstantAssumption DEF LockOK, LockedLabels
<1>6. ASSUME NEW t \in Threads PROVE CallOK(t)' /\ WriteOK(t)'
  BY <1>2, <1>3, NoCallFacts DEF CallOK, WriteOK, RecordOps, MidWrite, MidIndex
<1>7. TornOK'
  <2>1. CASE crash
    BY <2>1 DEF crash, TornOK, TypeOK
  <2>2. CASE close
    <3>1. \A t \in Threads : pc[t] \notin MidWrite
      BY <1>3, <2>2 DEF close
    <3> QED BY <1>2, <2>2, <3>1 DEF close, TornOK
  <2> QED BY <2>1, <2>2
<1> QED BY <1>2, <1>4, <1>5, <1>6, <1>7

-----------------------------------------------------------------------------

LEMMA TablesInit == Init => TablesInv
<1> SUFFICES ASSUME Init PROVE TablesInv
  OBVIOUS
<1>1. PICK S \in {{}, LegacyIds}, x \in Texts :
        db = [docs |-> [i \in Id |-> IF i \in S THEN Normalize(Loose, x) ELSE NULL],
              entries |-> [i \in Id |-> IF i \in S
                             THEN [norm |-> Normalize(Loose, x), raw |-> NULL] ELSE NULL],
              profile |-> NULL, bits |-> NULL, torn |-> {}]
  BY DEF Init
<1>2. [norm |-> Normalize(Loose, x), raw |-> NULL] \in Rows
  BY RowFacts, ConstantAssumption DEF Rows
<1>3. db \in Files /\ db.torn = {}
  BY <1>1, <1>2, RowFacts, ConstantAssumption DEF Files
<1>4. AgreeOutsideTorn(db)
  BY <1>1, <1>2, ConstantAssumption DEF AgreeOutsideTorn, Agree
<1>5. "idle" \in Labels /\ "idle" \notin LockedLabels /\ "idle" \notin MidWrite
  BY DEF Labels, LockedLabels, MidWrite, MidIndex
<1>6. TypeOK
  <2>1. pc \in [Threads -> Labels] /\ call \in [Threads -> Calls]
    BY <1>5, NoCallFacts DEF Init
  <2>2. calls \in 0 .. MaxCalls /\ faults \in 0 .. MaxFaults
    BY ConstantAssumption DEF Init
  <2>3. alive \in BOOLEAN /\ options \in Profiles /\ field_bits \in FieldBits
    BY ConstantAssumption, WordAssumption DEF Init
  <2>4. tx \in Files \cup {NULL} /\ lock \in Threads \cup {NULL}
    BY DEF Init
  <2> QED BY <1>3, <2>1, <2>2, <2>3, <2>4 DEF TypeOK
<1>7. LockOK
  BY <1>5, ConstantAssumption DEF Init, LockOK, LockedLabels
<1>8. ASSUME NEW t \in Threads PROVE CallOK(t) /\ WriteOK(t)
  BY <1>5, NoCallFacts DEF Init, CallOK, WriteOK, RecordOps, MidWrite, MidIndex
<1>9. TornOK
  BY <1>3 DEF Init, TornOK
<1> QED BY <1>3, <1>4, <1>6, <1>7, <1>8, <1>9 DEF TablesInv, Init

\* Init establishes TablesInv and every step of every thread, crash and close
\* preserves it.
THEOREM TablesInvariant == Spec => []TablesInv
<1>1. ASSUME TablesInv, [Next]_vars PROVE TablesInv'
  <2>1. ASSUME NEW t \in Threads, Request(t) PROVE TablesInv'
    BY <1>1, <2>1, PlainRequest, ListRequest, OpenSteps DEF Request
  <2>2. ASSUME NEW t \in Threads, Step(t) PROVE TablesInv'
    BY <1>1, <2>2, LoadSteps, LockStep, WriteSteps, ReadSteps, ItemSteps, RebuildSteps,
       CommitSteps, OpenSteps DEF Step
  <2>3. ASSUME NEW t \in Threads, statement_fails(t) PROVE TablesInv'
    BY <1>1, <2>3, FailStep
  <2>4. CASE crash \/ close
    BY <1>1, <2>4, StopStep
  <2>5. CASE UNCHANGED <<db, tx, lock, engine, pc, call, calls, faults>>
    BY <1>1, <2>5 DEF engine, TablesInv, TypeOK, LockOK, CallOK, WriteOK,
       AgreeOutsideTorn, Agree, TornOK
  <2> QED BY <1>1, <2>1, <2>2, <2>3, <2>4, <2>5 DEF Next, Done, vars
<1> QED BY <1>1, TablesInit, PTL DEF Spec

\* The engine's variables keep their types through every call, failure and
\* crash: the mutex names a thread or nobody, field_bits stays a value
\* check_field_bits accepts, and the image of a transaction is a well-formed file.
THEOREM TypeCorrect == Spec => []TypeOK
<1>1. TablesInv => TypeOK
  BY DEF TablesInv
<1> QED BY <1>1, TablesInvariant, PTL

\* docs and entries agree on every document no interrupted index, remove or
\* remove_record left behind, for any number of threads, ids, calls and faults.
THEOREM TablesTogether == Spec => []TablesAgree
<1>1. TablesInv => TablesAgree
  BY DEF TablesInv, AgreeOutsideTorn, TablesAgree
<1> QED BY <1>1, TablesInvariant, PTL

\* While nothing fails, whoever takes the connection mutex finds the two tables
\* in agreement on every document.
THEOREM SearchSeesBoth == Spec => []InSync
<1>1. TablesInv => InSync
  <2> SUFFICES ASSUME TablesInv, faults = 0, lock = NULL PROVE \A i \in Id : Agree(db, i)
    BY DEF InSync
  <2>1. \A t \in Threads : pc[t] \notin MidWrite
    BY ConstantAssumption DEF TablesInv, LockOK, LockedLabels
  <2>2. \A i \in db.torn : FALSE
    BY <2>1 DEF TablesInv, TornOK
  <2> QED BY <2>2 DEF TablesInv, AgreeOutsideTorn
<1> QED BY <1>1, TablesInvariant, PTL

-----------------------------------------------------------------------------
(* The statements and the transactions' images. *)

\* e has the stamps of d.
SameStamps(d, e) == e.profile = d.profile /\ e.bits = d.bits

\* A row, if it kept its raw text, is normalized under p.
RowUnder(row, p) == row.raw # NULL => row.norm = Normalize(p, row.raw)

LEMMA StatementStamps ==
  ASSUME NEW d \in Files, NEW S, NEW f
  PROVE  /\ SameStamps(d, DeleteDocs(d, S)) /\ SameStamps(d, DeleteEntries(d, S))
         /\ SameStamps(d, InsertDocs(d, f)) /\ SameStamps(d, ReplaceEntries(d, f))
         /\ SameStamps(d, Begun(d, S)) /\ SameStamps(d, Completed(d, S))
BY DEF SameStamps, DeleteDocs, DeleteEntries, InsertDocs, ReplaceEntries, Begun,
       Completed, Files

\* The entries that statements on docs, on torn and on the stamps leave alone.
LEMMA SameEntries ==
  ASSUME NEW d \in Files, NEW e, e.entries = d.entries, NEW p, NormalizedUnder(d, p)
  PROVE  NormalizedUnder(e, p)
BY DEF NormalizedUnder

LEMMA DeleteEntriesStamps ==
  ASSUME NEW d \in Files, NEW S \in SUBSET Id, NEW p, NormalizedUnder(d, p)
  PROVE  NormalizedUnder(DeleteEntries(d, S), p)
<1>1. \A i \in Id : DeleteEntries(d, S).entries[i] = IF i \in S THEN NULL ELSE d.entries[i]
  BY DeleteEntriesFacts
<1> QED BY <1>1 DEF NormalizedUnder

LEMMA ReplaceEntriesStamps ==
  ASSUME NEW d \in Files, NEW D \in SUBSET Id, NEW f \in [D -> Rows], NEW p,
         NormalizedUnder(d, p), \A i \in D : RowUnder(f[i], p)
  PROVE  NormalizedUnder(ReplaceEntries(d, f), p)
<1>1. \A i \in Id : ReplaceEntries(d, f).entries[i] = IF i \in D THEN f[i] ELSE d.entries[i]
  BY ReplaceEntriesFacts
<1> QED BY <1>1 DEF NormalizedUnder, RowUnder

\* Clearing ids keeps the stamps and what they say.
LEMMA ClearStamps ==
  ASSUME NEW d \in Files, NEW S \in SUBSET Id, NEW p, NormalizedUnder(d, p)
  PROVE  /\ clear_ids(d, S) \in Files
         /\ SameStamps(d, clear_ids(d, S)) /\ NormalizedUnder(clear_ids(d, S), p)
<1> DEFINE e == DeleteDocs(d, S)
           f == DeleteEntries(e, S)
           g == Completed(f, S)
<1>1. e \in Files /\ SameStamps(d, e) /\ NormalizedUnder(e, p)
  BY DeleteDocsFacts, StatementStamps, SameEntries
<1> HIDE DEF e
<1>2. f \in Files /\ SameStamps(e, f) /\ NormalizedUnder(f, p)
  BY <1>1, DeleteEntriesFacts, StatementStamps, DeleteEntriesStamps
<1> HIDE DEF f
<1>3. g \in Files /\ SameStamps(f, g) /\ NormalizedUnder(g, p)
  BY <1>2, TornFacts, StatementStamps, SameEntries
<1>4. g = clear_ids(d, S)
  BY DEF e, f, clear_ids
<1> QED BY <1>1, <1>2, <1>3, <1>4 DEF SameStamps

\* So does writing rows that are normalized as stamped.
LEMMA WriteStamps ==
  ASSUME NEW d \in Files, NEW D \in SUBSET Id, NEW f \in [D -> Rows], NEW p,
         NormalizedUnder(d, p), \A i \in D : RowUnder(f[i], p)
  PROVE  /\ WriteRows(d, f) \in Files /\ Completed(WriteRows(d, f), D) \in Files
         /\ SameStamps(d, WriteRows(d, f)) /\ NormalizedUnder(WriteRows(d, f), p)
         /\ SameStamps(d, Completed(WriteRows(d, f), D))
         /\ NormalizedUnder(Completed(WriteRows(d, f), D), p)
<1> DEFINE e == InsertDocs(d, f)
           k == ReplaceEntries(e, f)
           g == Completed(k, D)
<1>1. e \in Files /\ SameStamps(d, e) /\ NormalizedUnder(e, p)
  BY InsertDocsFacts, StatementStamps, SameEntries
<1> HIDE DEF e
<1>2. k \in Files /\ SameStamps(e, k) /\ NormalizedUnder(k, p)
  BY <1>1, ReplaceEntriesFacts, StatementStamps, ReplaceEntriesStamps
<1> HIDE DEF k
<1>3. g \in Files /\ SameStamps(k, g) /\ NormalizedUnder(g, p)
  BY <1>2, TornFacts, StatementStamps, SameEntries
<1>4. k = WriteRows(d, f) /\ g = Completed(WriteRows(d, f), D)
  BY DEF e, k, WriteRows
<1> QED BY <1>1, <1>2, <1>3, <1>4 DEF SameStamps

LEMMA RowIsUnder ==
  ASSUME NEW p \in Profiles, NEW x \in Texts
  PROVE  Row(p, x) \in Rows /\ RowUnder(Row(p, x), p)
BY RowFacts DEF RowUnder, Row

LEMMA PutDocumentStamps ==
  ASSUME NEW d \in Files, options \in Profiles, NEW id \in Id, NEW x \in Texts,
         NormalizedUnder(d, options)
  PROVE  /\ SameStamps(d, PutDocument(d, id, x))
         /\ NormalizedUnder(PutDocument(d, id, x), options)
<1> DEFINE D == {id}
           row == [i \in D |-> Row(options, x)]
           e == DeleteDocs(d, D)
<1>1. row \in [D -> Rows] /\ D \in SUBSET Id /\ \A i \in D : RowUnder(row[i], options)
  BY RowIsUnder
<1>2. e \in Files /\ SameStamps(d, e) /\ NormalizedUnder(e, options)
  BY DeleteDocsFacts, StatementStamps, SameEntries
<1> HIDE DEF D, row, e
<1>3. /\ SameStamps(e, Completed(WriteRows(e, row), D))
      /\ NormalizedUnder(Completed(WriteRows(e, row), D), options)
  BY <1>1, <1>2, WriteStamps
<1> QED BY <1>2, <1>3 DEF PutDocument, e, row, D, SameStamps

LEMMA InsertFieldsStamps ==
  ASSUME NEW d \in Files, options \in Profiles, NEW fields \in Seq(Fields), NEW lo,
         NormalizedUnder(d, options)
  PROVE  /\ SameStamps(d, InsertFields(d, fields, lo))
         /\ NormalizedUnder(InsertFields(d, fields, lo), options)
<1> DEFINE at(i) == {k \in LiveFields(fields) : BitOr(lo, fields[k].slot) = i}
           D == {j \in Id : at(j) # {}}
           rows == [i \in D |-> Row(options, fields[CHOOSE k \in at(i) : TRUE].text)]
<1>1. ASSUME NEW i \in D PROVE rows[i] \in Rows /\ RowUnder(rows[i], options)
  <2>1. PICK k : k = CHOOSE j \in at(i) : TRUE
    OBVIOUS
  <2>2. k \in at(i)
    BY <2>1
  <2>3. k \in DOMAIN fields
    BY <2>2 DEF LiveFields
  <2>4. fields[k] \in Fields
    BY <2>3
  <2>5. fields[k].text \in Texts
    BY <2>4 DEF Fields
  <2>6. rows[i] = Row(options, fields[k].text)
    BY <2>1
  <2> QED BY <2>5, <2>6, RowIsUnder
<1>2. rows \in [D -> Rows] /\ DOMAIN rows = D /\ D \in SUBSET Id
  BY <1>1
<1>3. \A i \in D : RowUnder(rows[i], options)
  BY <1>1
<1> HIDE DEF rows, D
<1>4. /\ SameStamps(d, Completed(WriteRows(d, rows), D))
      /\ NormalizedUnder(Completed(WriteRows(d, rows), D), options)
  BY <1>2, <1>3, WriteStamps
<1> QED BY <1>2, <1>4 DEF InsertFields, rows, D

LEMMA StampFields ==
  ASSUME NEW d \in Files, NEW p, NEW b
  PROVE  /\ stamp_profile(d, p).profile = p /\ stamp_profile(d, p).bits = d.bits
         /\ stamp_profile(d, p).entries = d.entries
         /\ stamp_field_bits(d, b).bits = b /\ stamp_field_bits(d, b).profile = d.profile
         /\ stamp_field_bits(d, b).entries = d.entries
BY DEF stamp_profile, stamp_field_bits, Files

\* reindex normalizes every row that kept its text, whatever the rows were
\* before, and stamps the profile it used.
LEMMA ReindexedStamps ==
  ASSUME NEW d \in Files, options \in Profiles
  PROVE  /\ Reindexed(d).profile = options /\ Reindexed(d).bits = d.bits
         /\ NormalizedUnder(Reindexed(d), options)
<1> DEFINE D == {j \in Stored(d) : d.entries[j].raw # NULL}
           rows == [i \in D |-> Row(options, d.entries[i].raw)]
           k == InsertDocs(d, rows)
           w == ReplaceEntries(k, rows)
           e == Completed(w, D)
<1>1. D \in SUBSET Id
  BY DEF Stored
<1>2. ASSUME NEW i \in D PROVE rows[i] \in Rows /\ RowUnder(rows[i], options)
  <2>1. d.entries[i] \in Rows
    BY DEF Stored, Files
  <2>2. d.entries[i].raw \in Texts
    BY <2>1 DEF Rows
  <2> QED BY <2>2, RowIsUnder
<1>3. \A i \in Id \ D : d.entries[i] # NULL => d.entries[i].raw = NULL
  BY DEF Stored
<1>4. rows \in [D -> Rows] /\ DOMAIN rows = D /\ \A i \in D : RowUnder(rows[i], options)
  BY <1>2
<1> HIDE DEF rows, D
<1>5. k \in Files /\ k.entries = d.entries /\ SameStamps(d, k)
  BY <1>1, <1>4, InsertDocsFacts, StatementStamps
<1> HIDE DEF k
<1>6. /\ w \in Files /\ SameStamps(k, w)
      /\ \A i \in Id : w.entries[i] = IF i \in D THEN rows[i] ELSE k.entries[i]
  <2>1. k \in Files /\ D \in SUBSET Id /\ rows \in [D -> Rows]
    BY <1>1, <1>4, <1>5
  <2>2. /\ w \in Files
        /\ \A i \in Id : w.entries[i] = IF i \in D THEN rows[i] ELSE k.entries[i]
    BY <2>1, ReplaceEntriesFacts
  <2> QED BY <2>1, <2>2, StatementStamps
<1> HIDE DEF w
<1>7. e \in Files /\ e.entries = w.entries /\ SameStamps(w, e)
  BY <1>1, <1>6, TornFacts, StatementStamps
<1> HIDE DEF e
<1>8. \A i \in Id : e.entries[i] = IF i \in D THEN rows[i] ELSE d.entries[i]
  BY <1>5, <1>6, <1>7
<1>9. NormalizedUnder(e, options)
  BY <1>3, <1>4, <1>8 DEF NormalizedUnder, RowUnder
<1>10. Reindexed(d) = stamp_profile(e, options)
  BY <1>4 DEF Reindexed, WriteRows, k, w, e, rows, D
<1>11. e.bits = d.bits
  BY <1>5, <1>6, <1>7 DEF SameStamps
<1> QED BY <1>7, <1>9, <1>10, <1>11, StampFields, SameEntries

\* change_field_bits moves rows as they are.
LEMMA RepackedStamps ==
  ASSUME NEW d \in Files, NEW old, NEW new, NEW p, NormalizedUnder(d, p)
  PROVE  /\ Repacked(d, old, new).profile = d.profile /\ Repacked(d, old, new).bits = new
         /\ NormalizedUnder(Repacked(d, old, new), p)
<1> DEFINE from(i) == {j \in Stored(d) : Repack(j, old, new) = i}
           D == {k \in Id : from(k) # {}}
           rows == [i \in D |-> d.entries[CHOOSE j \in from(i) : TRUE]]
           c == clear_ids(d, Id)
           e == WriteRows(c, rows)
<1>1. ASSUME NEW i \in D PROVE rows[i] \in Rows /\ RowUnder(rows[i], p)
  <2>1. PICK j : j = CHOOSE k \in from(i) : TRUE
    OBVIOUS
  <2>2. j \in Id /\ d.entries[j] # NULL
    BY <2>1 DEF Stored
  <2>3. d.entries[j] \in Rows /\ RowUnder(d.entries[j], p)
    BY <2>2 DEF Files, NormalizedUnder, RowUnder
  <2> QED BY <2>1, <2>3
<1>2. rows \in [D -> Rows] /\ D \in SUBSET Id /\ \A i \in D : RowUnder(rows[i], p)
  BY <1>1
<1> HIDE DEF rows, D
<1>3. c \in Files /\ SameStamps(d, c) /\ NormalizedUnder(c, p)
  BY ClearStamps
<1> HIDE DEF c
<1>4. e \in Files /\ SameStamps(c, e) /\ NormalizedUnder(e, p)
  BY <1>2, <1>3, WriteStamps
<1> HIDE DEF e
<1>5. Repacked(d, old, new) = stamp_field_bits(e, new)
  BY DEF Repacked, rows, D, c, e
<1> QED BY <1>3, <1>4, <1>5, StampFields, SameEntries DEF SameStamps

-----------------------------------------------------------------------------
(* A step of one thread. *)

\* What another thread than t may assume of the stamps is none of t's business:
\* either t leaves them alone, or t has the mutex and the other is outside.
LEMMA StampsStep ==
  ASSUME TablesInv, StampsInv, NEW t \in Threads, NEW l, NEW c,
         pc' = [pc EXCEPT ![t] = l], call' = [call EXCEPT ![t] = c],
         UNCHANGED <<db, tx, engine>> \/ (lock \in {t, NULL} /\ (alive => alive')),
         FileStamps', ImageStamps', CallStamps(t)'
  PROVE  StampsInv'
<1> SUFFICES ASSUME NEW u \in Threads \ {t} PROVE CallStamps(u)'
  BY DEF StampsInv
<1>1. pc'[u] = pc[u] /\ call'[u] = call[u] /\ CallStamps(u)
  BY DEF TablesInv, TypeOK, StampsInv
<1>2. CASE UNCHANGED <<db, tx, engine>>
  BY <1>1, <1>2 DEF CallStamps, engine, NormalizedUnder
<1>3. CASE lock \in {t, NULL} /\ (alive => alive')
  <2>1. pc[u] \notin LockedLabels
    BY <1>3, HolderFacts
  <2>2. /\ pc[u] \notin {"stamp_bits", "stamp_profile", "reindex", "repack", "tx", "store"}
        /\ call[u].op # "open" /\ (pc[u] # "idle" => alive')
    BY <1>1, <1>3, <2>1 DEF CallStamps, LockedLabels
  <2> QED BY <1>1, <2>2 DEF CallStamps
<1> QED BY <1>2, <1>3

\* A returned call has nothing to answer for.
LEMMA IdleStamps ==
  ASSUME NEW t \in Threads, pc'[t] = "idle", call'[t] = NoCall
  PROVE  CallStamps(t)'
BY NoCallFacts DEF CallStamps

\* Nor has one of an open engine that is not rewriting the file.
PlainLabels == Labels \ {"stamp_bits", "stamp_profile", "reindex", "repack", "tx", "store"}

LEMMA PlainStamps ==
  ASSUME NEW t \in Threads, pc'[t] \in PlainLabels, call'[t].op # "open", alive'
  PROVE  CallStamps(t)'
BY DEF CallStamps, PlainLabels

\* Every call on an open engine but open itself.
LEMMA CallerFacts ==
  ASSUME StampsInv, NEW t \in Threads, pc[t] \in PlainLabels \ {"idle"}
  PROVE  alive /\ call[t].op # "open"
<1>1. CallStamps(t)
  BY DEF StampsInv
<1> QED BY <1>1 DEF CallStamps, PlainLabels

\* An open engine whose mutex nobody or t holds, t not about to store the atomic.
LEMMA AliveFacts ==
  ASSUME TablesInv, StampsInv, NEW t \in Threads, lock \in {t, NULL},
         pc[t] # "store", alive
  PROVE  /\ db.profile = options /\ db.bits = field_bits /\ options \in Profiles
         /\ NormalizedUnder(db, options)
<1>1. \A u \in Threads : pc[u] # "store"
  BY HolderFacts DEF LockedLabels
<1>2. options \in Profiles /\ options # NULL
  BY ConstantAssumption DEF TablesInv, TypeOK
<1> QED BY <1>1, <1>2 DEF StampsInv, FileStamps, StampedProfile

\* The file, the transaction and the engine are as before.
LEMMA SameFile ==
  ASSUME TablesInv, StampsInv, NEW t \in Threads, NEW l,
         pc' = [pc EXCEPT ![t] = l], pc[t] # "store", UNCHANGED <<db, tx, engine>>
  PROVE  FileStamps' /\ ImageStamps'
<1>1. \A u \in Threads : pc[u] = "store" => pc'[u] = "store"
  BY DEF TablesInv, TypeOK
<1>2. FileStamps'
  BY <1>1 DEF StampsInv, FileStamps, StampedProfile, NormalizedUnder, engine
<1>3. ImageStamps'
  BY DEF StampsInv, ImageStamps, NormalizedUnder, engine
<1> QED BY <1>2, <1>3

\* A step of a call on an open engine that touches no stamp, file or image.
LEMMA PlainStep ==
  ASSUME TablesInv, StampsInv, NEW t \in Threads, NEW l \in PlainLabels, NEW c,
         pc' = [pc EXCEPT ![t] = l], call' = [call EXCEPT ![t] = c],
         pc[t] # "store", alive, c.op # "open", UNCHANGED <<db, tx, engine>>
  PROVE  StampsInv'
<1>1. pc'[t] = l /\ call'[t] = c /\ alive'
  BY DEF TablesInv, TypeOK, engine
<1>2. CallStamps(t)'
  BY <1>1, PlainStamps
<1>3. FileStamps' /\ ImageStamps'
  BY SameFile
<1> QED BY <1>2, <1>3, StampsStep

\* A call that returns.
LEMMA ReturnStamps ==
  ASSUME TablesInv, StampsInv, NEW t \in Threads, Return(t),
         UNCHANGED <<db, tx, engine>> \/ (lock \in {t, NULL} /\ (alive => alive')),
         FileStamps', ImageStamps'
  PROVE  StampsInv'
<1>1. pc' = [pc EXCEPT ![t] = "idle"] /\ call' = [call EXCEPT ![t] = NoCall]
  BY DEF Return, Goto
<1>2. pc'[t] = "idle" /\ call'[t] = NoCall
  BY <1>1 DEF TablesInv, TypeOK
<1>3. CallStamps(t)'
  BY <1>2, IdleStamps
<1> QED BY <1>1, <1>3, StampsStep

LEMMA PlainReturn ==
  ASSUME TablesInv, StampsInv, NEW t \in Threads, Return(t), pc[t] # "store",
         UNCHANGED <<db, tx, engine>>
  PROVE  StampsInv'
<1>1. pc' = [pc EXCEPT ![t] = "idle"]
  BY DEF Return, Goto
<1> QED BY <1>1, SameFile, ReturnStamps

-----------------------------------------------------------------------------
(* The calls on an open engine, until they have the mutex. *)

LEMMA BeginStamps ==
  ASSUME TablesInv, StampsInv, NEW t \in Threads, NEW c, NEW l \in {"lock", "max"},
         Begin(t, c, l), c.op # "open"
  PROVE  StampsInv'
<1>1. l \in PlainLabels
  BY DEF PlainLabels, Labels
<1>2. /\ pc' = [pc EXCEPT ![t] = l] /\ call' = [call EXCEPT ![t] = c]
      /\ pc[t] # "store" /\ alive /\ UNCHANGED <<db, tx, engine>>
  BY DEF Begin, Goto
<1> QED BY <1>1, <1>2, PlainStep

LEMMA RequestStamps ==
  ASSUME TablesInv, StampsInv, NEW t \in Threads, Request(t), ~ open(t)
  PROVE  StampsInv'
<1>1. CASE index(t)
  BY <1>1, BeginStamps DEF index, NoCall
<1>2. CASE remove(t)
  BY <1>2, BeginStamps DEF remove, NoCall
<1>3. CASE index_batch(t)
  BY <1>3, BeginStamps DEF index_batch, NoCall
<1>4. CASE remove_batch(t)
  BY <1>4, BeginStamps DEF remove_batch, NoCall
<1>5. CASE remove_all(t)
  BY <1>5, BeginStamps DEF remove_all, NoCall
<1>6. CASE reindex(t)
  BY <1>6, BeginStamps DEF reindex, NoCall
<1>7. CASE change_field_bits(t)
  BY <1>7, BeginStamps DEF change_field_bits, NoCall
<1>8. CASE index_record(t)
  BY <1>8, BeginStamps DEF index_record, NoCall
<1>9. CASE index_records_batch(t)
  BY <1>9, BeginStamps DEF index_records_batch, NoCall
<1>10. CASE remove_record(t)
  BY <1>10, BeginStamps DEF remove_record, NoCall
<1>11. CASE contains_record(t)
  BY <1>11, BeginStamps DEF contains_record, NoCall
<1>12. CASE search_records(t)
  BY <1>12, BeginStamps DEF search_records, NoCall
<1>13. CASE match_count_records(t)
  BY <1>13, BeginStamps DEF match_count_records, NoCall
<1> QED
  BY <1>1, <1>2, <1>3, <1>4, <1>5, <1>6, <1>7,
     <1>8, <1>9, <1>10, <1>11, <1>12, <1>13
     DEF Request

LEMMA LoadStamps ==
  ASSUME TablesInv, StampsInv, NEW t \in Threads,
         load_max(t) \/ load_lo(t) \/ load_hi(t) \/ decode_hits(t) \/ return_hits(t)
  PROVE  StampsInv'
<1>1. /\ pc[t] \in {"max", "lo", "hi", "decode"} /\ UNCHANGED <<db, tx, engine>>
      /\ call[t] \in Calls /\ pc = [pc EXCEPT ![t] = pc[t]] /\ call = [call EXCEPT ![t] = call[t]]
  BY DEF load_max, load_lo, load_hi, decode_hits, return_hits, TablesInv, TypeOK
<1>2. pc[t] \in PlainLabels \ {"idle"} /\ {"lo", "hi", "lock", "decode"} \subseteq PlainLabels
  BY <1>1 DEF PlainLabels, Labels
<1>3. alive /\ call[t].op # "open" /\ pc[t] # "store"
  BY <1>1, <1>2, CallerFacts
<1>4. CASE Return(t)
  BY <1>1, <1>3, <1>4, PlainReturn
<1>5. CASE load_max(t) /\ ~ Return(t)
  <2>1. PICK l \in {"lock", "lo"} : Goto(t, l)
    BY <1>5 DEF load_max
  <2>2. call' = [call EXCEPT ![t] = call[t]]
    BY <1>1, <1>5 DEF load_max
  <2> QED BY <1>1, <1>2, <1>3, <2>1, <2>2, PlainStep DEF Goto
<1>6. CASE load_lo(t)
  <2> DEFINE lo == range_lo(call[t].todo[1].record, field_bits)
             c == [call[t] EXCEPT !.lo = lo]
  <2>1. call' = [call EXCEPT ![t] = c] /\ pc' = [pc EXCEPT ![t] = "hi"]
    BY <1>6 DEF load_lo, Goto, TablesInv, TypeOK
  <2> HIDE DEF lo
  <2>2. c.op # "open"
    BY <1>1, <1>3 DEF Calls
  <2> QED BY <1>1, <1>2, <1>3, <2>1, <2>2, PlainStep
<1>7. CASE load_hi(t)
  <2> DEFINE ids == (call[t].lo .. range_hi(call[t].lo, field_bits)) \cap Id
             c == [call[t] EXCEPT !.ids = ids]
  <2>1. call' = [call EXCEPT ![t] = c] /\ pc' = [pc EXCEPT ![t] = "lock"]
    BY <1>7 DEF load_hi, Goto, TablesInv, TypeOK
  <2> HIDE DEF ids
  <2>2. c.op # "open"
    BY <1>1, <1>3 DEF Calls
  <2> QED BY <1>1, <1>2, <1>3, <2>1, <2>2, PlainStep
<1>8. CASE decode_hits(t)
  <2>1. PICK S \in SUBSET call[t].ids :
          call' = [call EXCEPT ![t].ids = @ \ S,
                     ![t].found = @ \cup {record_of(i, field_bits) : i \in S}]
    BY <1>8 DEF decode_hits
  <2> DEFINE more == call[t].found \cup {record_of(i, field_bits) : i \in S}
             rest == call[t].ids \ S
             c == [call[t] EXCEPT !.ids = rest, !.found = more]
  <2>2. call' = [call EXCEPT ![t] = c]
    BY <2>1 DEF TablesInv, TypeOK
  <2> HIDE DEF more, rest
  <2>3. c.op # "open"
    BY <1>1, <1>3 DEF Calls
  <2>4. pc[t] = "decode" /\ UNCHANGED pc
    BY <1>8, Zenon DEF decode_hits
  <2>5. pc' = [pc EXCEPT ![t] = "decode"]
    BY <1>1, <2>4
  <2> QED BY <1>1, <1>2, <1>3, <2>2, <2>3, <2>5, PlainStep
<1> QED BY <1>4, <1>5, <1>6, <1>7, <1>8 DEF return_hits

-----------------------------------------------------------------------------
(* The locked sections. *)

LEMMA LockStamps ==
  ASSUME TablesInv, StampsInv, NEW t \in Threads, locked_conn(t)
  PROVE  StampsInv'
<1> DEFINE l == Section(call[t].op)
<1>1. /\ lock = NULL /\ pc[t] = "lock" /\ UNCHANGED <<db, engine>>
      /\ pc' = [pc EXCEPT ![t] = l] /\ call' = [call EXCEPT ![t] = call[t]]
      /\ pc'[t] = l /\ call'[t] = call[t]
      /\ tx' = IF l # "tx" THEN tx
               ELSE IF call[t].op = "remove_all" THEN clear_ids(db, Id) ELSE db
  BY DEF locked_conn, Goto, TablesInv, TypeOK
<1>2. pc[t] \in PlainLabels \ {"idle"} /\ pc[t] # "store"
  BY <1>1 DEF PlainLabels, Labels
<1>3. alive /\ call[t].op # "open" /\ alive'
  BY <1>1, <1>2, CallerFacts DEF engine
<1>4. /\ db.profile = options /\ db.bits = field_bits /\ options \in Profiles
      /\ NormalizedUnder(db, options)
  BY <1>1, <1>2, <1>3, AliveFacts
<1>5. /\ l \in {"del_docs", "contains", "search", "reindex", "repack", "tx"}
      /\ l = "reindex" <=> call[t].op = "reindex"
      /\ l = "repack" <=> call[t].op = "change_field_bits"
  BY DEF Section
<1> HIDE DEF l
<1>6. l = "tx" => /\ tx'.profile = options /\ tx'.bits = field_bits
                  /\ NormalizedUnder(tx', options)
  <2>1. db \in Files
    BY DEF TablesInv, TypeOK
  <2>2. SameStamps(db, clear_ids(db, Id)) /\ NormalizedUnder(clear_ids(db, Id), options)
    BY <1>4, <2>1, ClearStamps
  <2> QED BY <1>1, <1>4, <2>2 DEF SameStamps
<1>7. l # "tx" => tx' = NULL
  <2>1. pc[t] # "tx" /\ lock \in {t, NULL}
    BY <1>1
  <2>2. tx = NULL
    BY <2>1, HolderFacts
  <2> QED BY <1>1, <2>2
<1>8. options' = options /\ field_bits' = field_bits /\ alive' = alive
  BY <1>1 DEF engine
<1>9. ImageStamps'
  BY <1>6, <1>7, <1>8 DEF ImageStamps
<1>10. FileStamps'
  <2>1. \A u \in Threads : pc[u] = "store" => pc'[u] = "store"
    BY <1>1 DEF TablesInv, TypeOK
  <2> QED BY <1>1, <1>8, <2>1 DEF StampsInv, FileStamps, StampedProfile, NormalizedUnder
<1>11. CallStamps(t)'
  BY <1>1, <1>3, <1>4, <1>5, <1>6, <1>8 DEF CallStamps
<1>12. lock \in {t, NULL} /\ (alive => alive')
  BY <1>1, <1>8
<1> QED BY <1>1, <1>9, <1>10, <1>11, <1>12, StampsStep

\* A statement of a call on an open engine, outside a transaction, that keeps
\* the file's stamps and writes rows they describe.
LEMMA StatementStep ==
  ASSUME TablesInv, StampsInv, NEW t \in Threads, lock = t, NEW l \in PlainLabels,
         pc[t] \in PlainLabels \ {"idle"}, NEW c, c.op # "open",
         pc' = [pc EXCEPT ![t] = l], call' = [call EXCEPT ![t] = c],
         UNCHANGED <<tx, engine>>, SameStamps(db, db'), NormalizedUnder(db', options)
  PROVE  StampsInv'
<1>1. alive /\ pc[t] \notin {"store", "tx"} /\ options' = options /\ alive' = alive
      /\ field_bits' = field_bits /\ tx' = tx
  BY CallerFacts DEF PlainLabels, engine
<1>2. db.profile = options /\ db.bits = field_bits /\ options \in Profiles
  BY <1>1, AliveFacts
<1>3. options # NULL
  BY <1>2, ConstantAssumption
<1>4. FileStamps'
  BY <1>1, <1>2, <1>3 DEF FileStamps, StampedProfile, SameStamps
<1>5. tx = NULL
  BY <1>1, HolderFacts
<1>6. ImageStamps'
  BY <1>1, <1>5 DEF ImageStamps
<1>7. pc'[t] = l /\ call'[t] = c
  BY DEF TablesInv, TypeOK
<1>8. CallStamps(t)'
  BY <1>1, <1>7, PlainStamps
<1> QED BY <1>1, <1>4, <1>6, <1>8, StampsStep

LEMMA WriteStepStamps ==
  ASSUME TablesInv, StampsInv, NEW t \in Threads,
         delete_docs(t) \/ insert_docs(t) \/ replace_entries(t) \/ delete_entries(t)
  PROVE  StampsInv'
<1> DEFINE S == call[t].ids
           rows == IndexRow(t)
<1>1. /\ lock = t /\ pc[t] \in {"del_docs", "ins_docs", "ins_entries", "del_entries"}
      /\ UNCHANGED <<tx, engine>>
  BY DEF delete_docs, insert_docs, replace_entries, delete_entries, Locked
<1>2. pc[t] \in PlainLabels \ {"idle"} /\ {"ins_docs", "ins_entries", "del_entries", "idle"}
        \subseteq PlainLabels /\ pc[t] # "store"
  BY <1>1 DEF PlainLabels, Labels
<1>3. alive /\ call[t].op # "open" /\ NormalizedUnder(db, options) /\ options \in Profiles
  BY <1>1, <1>2, CallerFacts, AliveFacts
<1>4. db \in Files /\ S \in SUBSET Id /\ call[t] \in Calls /\ CallOK(t)
  BY DEF TablesInv, TypeOK, Calls
<1>5. call = [call EXCEPT ![t] = call[t]]
  BY DEF TablesInv, TypeOK
<1>6. ASSUME NEW l \in {"ins_docs", "ins_entries", "del_entries"},
             Goto(t, l), UNCHANGED call, SameStamps(db, db'), NormalizedUnder(db', options)
      PROVE  StampsInv'
  BY <1>1, <1>2, <1>3, <1>5, <1>6, StatementStep DEF Goto
<1>7. ASSUME Return(t), SameStamps(db, db'), NormalizedUnder(db', options)
      PROVE  StampsInv'
  <2>1. NoCall.op # "open"
    BY NoCallFacts
  <2> QED BY <1>1, <1>2, <1>7, <2>1, StatementStep DEF Return, Goto
<1>8. ASSUME pc[t] \in MidIndex
      PROVE  rows \in [S -> Rows] /\ \A i \in S : RowUnder(rows[i], options)
  <2>1. call[t].text \in Texts
    BY <1>4, <1>8 DEF CallOK
  <2> QED BY <1>3, <1>4, <2>1, RowIsUnder DEF IndexRow
<1> HIDE DEF rows, S
<1>9. CASE delete_docs(t)
  <2> DEFINE e == DeleteDocs(db, S)
             g == Begun(e, S)
  <2>1. e \in Files /\ SameStamps(db, e) /\ NormalizedUnder(e, options)
    BY <1>3, <1>4, DeleteDocsFacts, StatementStamps, SameEntries
  <2> HIDE DEF e
  <2>2. SameStamps(e, g) /\ NormalizedUnder(g, options)
    BY <1>4, <2>1, TornFacts, StatementStamps, SameEntries
  <2>3. db' = g /\ UNCHANGED call
        /\ Goto(t, IF call[t].op = "index" THEN "ins_docs" ELSE "del_entries")
    BY <1>9 DEF delete_docs, e, S
  <2> HIDE DEF g
  <2>4. SameStamps(db, db') /\ NormalizedUnder(db', options)
    BY <2>1, <2>2, <2>3 DEF SameStamps
  <2> QED BY <1>6, <2>3, <2>4
<1>10. CASE insert_docs(t)
  <2>1. pc[t] \in MidIndex /\ db' = InsertDocs(db, rows) /\ UNCHANGED call
        /\ Goto(t, "ins_entries")
    BY <1>10 DEF insert_docs, Locked, MidIndex, rows
  <2>2. rows \in [S -> Rows]
    BY <1>8, <2>1
  <2>3. SameStamps(db, db') /\ NormalizedUnder(db', options)
    BY <1>3, <1>4, <2>1, <2>2, InsertDocsFacts, StatementStamps, SameEntries
  <2> QED BY <1>6, <2>1, <2>3
<1>11. CASE replace_entries(t)
  <2> DEFINE e == ReplaceEntries(db, rows)
             g == Completed(e, S)
  <2>1. pc[t] \in MidIndex /\ db' = g /\ Return(t)
    BY <1>11 DEF replace_entries, Locked, MidIndex, rows, S
  <2>2. rows \in [S -> Rows] /\ \A i \in S : RowUnder(rows[i], options)
    BY <1>8, <2>1
  <2>3. e \in Files /\ SameStamps(db, e) /\ NormalizedUnder(e, options)
    BY <1>3, <1>4, <2>2, ReplaceEntriesFacts, ReplaceEntriesStamps, StatementStamps
  <2> HIDE DEF e
  <2>4. SameStamps(e, g) /\ NormalizedUnder(g, options)
    BY <1>4, <2>3, TornFacts, StatementStamps, SameEntries
  <2> HIDE DEF g
  <2>5. SameStamps(db, db') /\ NormalizedUnder(db', options)
    BY <2>1, <2>3, <2>4 DEF SameStamps
  <2> QED BY <1>7, <2>1, <2>5
<1>12. CASE delete_entries(t)
  <2> DEFINE e == DeleteEntries(db, S)
             g == Completed(e, S)
  <2>1. db' = g /\ Return(t)
    BY <1>12 DEF delete_entries, S
  <2>2. e \in Files /\ SameStamps(db, e) /\ NormalizedUnder(e, options)
    BY <1>3, <1>4, DeleteEntriesFacts, DeleteEntriesStamps, StatementStamps
  <2> HIDE DEF e
  <2>3. SameStamps(e, g) /\ NormalizedUnder(g, options)
    BY <1>4, <2>2, TornFacts, StatementStamps, SameEntries
  <2> HIDE DEF g
  <2>4. SameStamps(db, db') /\ NormalizedUnder(db', options)
    BY <2>1, <2>2, <2>3 DEF SameStamps
  <2> QED BY <1>7, <2>1, <2>4
<1> QED BY <1>9, <1>10, <1>11, <1>12

LEMMA ReadStamps ==
  ASSUME TablesInv, StampsInv, NEW t \in Threads, read_exists(t) \/ fetch_hits(t)
  PROVE  StampsInv'
<1>1. CASE read_exists(t)
  BY <1>1, PlainReturn DEF read_exists, Locked
<1>2. CASE fetch_hits(t)
  <2> DEFINE hits == {i \in Id : db.docs[i] = Normalize(options, call[t].text)}
             recs == {record_of(i, field_bits) : i \in hits}
             c == [call[t] EXCEPT !.ids = hits, !.owners = recs]
  <2>1. /\ pc[t] = "search" /\ pc' = [pc EXCEPT ![t] = "decode"]
        /\ call' = [call EXCEPT ![t] = c] /\ UNCHANGED <<db, tx, engine>>
        /\ call[t] \in Calls
    BY <1>2 DEF fetch_hits, Locked, Goto, TablesInv, TypeOK
  <2> HIDE DEF hits, recs
  <2>2. pc[t] \in PlainLabels \ {"idle"} /\ "decode" \in PlainLabels
    BY <2>1 DEF PlainLabels, Labels
  <2>3. alive /\ call[t].op # "open"
    BY <2>2, CallerFacts
  <2>4. c.op # "open"
    BY <2>1, <2>3 DEF Calls
  <2> QED BY <2>1, <2>2, <2>3, <2>4, PlainStep
<1> QED BY <1>1, <1>2

-----------------------------------------------------------------------------
(* Transactions. *)

\* A step that leaves the file as it is and t with a transaction under way.
LEMMA ImageStep ==
  ASSUME TablesInv, StampsInv, NEW t \in Threads, lock = t, pc[t] # "store",
         NEW c, pc' = [pc EXCEPT ![t] = "tx"], call' = [call EXCEPT ![t] = c],
         UNCHANGED <<db, engine>>, tx'.profile = options, NormalizedUnder(tx', options),
         c.op = call[t].op, c.mismatch = call[t].mismatch, pc[t] # "idle",
         tx'.bits = IF c.op = "change_field_bits" THEN c.arg ELSE field_bits
  PROVE  StampsInv'
<1>1. /\ pc'[t] = "tx" /\ call'[t] = c /\ db' = db /\ options' = options
      /\ field_bits' = field_bits /\ alive' = alive
  BY DEF TablesInv, TypeOK, engine
<1>2. FileStamps'
  <2>1. \A u \in Threads : pc[u] = "store" => pc'[u] = "store"
    BY DEF TablesInv, TypeOK
  <2> QED BY <1>1, <2>1 DEF StampsInv, FileStamps, StampedProfile, NormalizedUnder
<1>3. ImageStamps'
  BY <1>1 DEF ImageStamps
<1>4. CallStamps(t)
  BY DEF StampsInv
<1>5. CallStamps(t)'
  BY <1>1, <1>4 DEF CallStamps
<1> QED BY <1>1, <1>2, <1>3, <1>5, StampsStep

\* What a transaction's loop starts from.
LEMMA ImageFacts ==
  ASSUME TablesInv, StampsInv, NEW t \in Threads, Locked(t, "tx")
  PROVE  /\ tx.profile = options /\ NormalizedUnder(tx, options)
         /\ tx.bits = IF call[t].op = "change_field_bits" THEN call[t].arg ELSE field_bits
<1>1. pc[t] = "tx" /\ tx # NULL
  BY DEF Locked, TablesInv, LockOK
<1>2. CallStamps(t) /\ ImageStamps
  BY DEF StampsInv
<1> QED BY <1>1, <1>2 DEF CallStamps, ImageStamps

LEMMA ApplyStamps ==
  ASSUME TablesInv, StampsInv, NEW t \in Threads, Locked(t, "tx"),
         NEW e, Apply(t, e), SameStamps(tx, e), NormalizedUnder(e, options)
  PROVE  StampsInv'
<1> DEFINE rest == Tail(call[t].todo)
           c == [call[t] EXCEPT !.todo = rest]
<1>1. /\ call' = [call EXCEPT ![t] = c] /\ tx' = e /\ UNCHANGED <<db, engine>>
      /\ lock = t /\ pc[t] = "tx" /\ pc' = [pc EXCEPT ![t] = "tx"] /\ call[t] \in Calls
  BY DEF Apply, Locked, TablesInv, TypeOK
<1> HIDE DEF rest
<1>2. c.op = call[t].op /\ c.mismatch = call[t].mismatch /\ c.arg = call[t].arg
  BY <1>1 DEF Calls
<1>3. tx'.profile = options /\ NormalizedUnder(tx', options)
      /\ tx'.bits = IF c.op = "change_field_bits" THEN c.arg ELSE field_bits
  BY <1>1, <1>2, ImageFacts DEF SameStamps
<1> QED BY <1>1, <1>2, <1>3, ImageStep

\* A transaction that is dropped.
LEMMA RollbackStamps ==
  ASSUME TablesInv, StampsInv, NEW t \in Threads, lock = t, pc[t] # "store", Rollback(t)
  PROVE  StampsInv'
<1>1. /\ Return(t) /\ tx' = NULL /\ UNCHANGED <<db, engine>>
      /\ pc' = [pc EXCEPT ![t] = "idle"] /\ (alive => alive')
  BY DEF Rollback, Return, Goto, engine
<1>2. FileStamps'
  <2>1. \A u \in Threads : pc[u] = "store" => pc'[u] = "store"
    BY <1>1 DEF TablesInv, TypeOK
  <2> QED BY <1>1, <2>1 DEF StampsInv, FileStamps, StampedProfile, NormalizedUnder, engine
<1>3. ImageStamps'
  BY <1>1 DEF ImageStamps
<1> QED BY <1>1, <1>2, <1>3, ReturnStamps

LEMMA ItemStamps ==
  ASSUME TablesInv, StampsInv, NEW t \in Threads,
         index_item(t) \/ remove_item(t) \/ record_item(t)
  PROVE  StampsInv'
<1>1. Locked(t, "tx") /\ call[t].todo # <<>>
  BY DEF index_item, remove_item, record_item
<1>2. /\ tx \in Files /\ CallOK(t) /\ options \in Profiles /\ lock = t /\ pc[t] # "store"
      /\ call[t] \in Calls /\ NormalizedUnder(tx, options)
  BY <1>1, TxFacts, ImageFacts
<1>3. CASE index_item(t)
  <2> DEFINE item == Head(call[t].todo)
  <2>1. item \in Items
    BY <1>1, <1>2, <1>3 DEF index_item, CallOK
  <2>2. /\ SameStamps(tx, PutDocument(tx, item.id, item.text))
        /\ NormalizedUnder(PutDocument(tx, item.id, item.text), options)
    BY <1>2, <2>1, PutDocumentStamps DEF Items
  <2> QED BY <1>1, <1>3, <2>2, ApplyStamps DEF index_item
<1>4. CASE remove_item(t)
  <2> DEFINE S == {Head(call[t].todo).id}
  <2>1. Head(call[t].todo) \in Removals
    BY <1>1, <1>2, <1>4 DEF remove_item, CallOK
  <2>2. S \in SUBSET Id
    BY <2>1 DEF Removals
  <2> HIDE DEF S
  <2>3. SameStamps(tx, clear_ids(tx, S)) /\ NormalizedUnder(clear_ids(tx, S), options)
    BY <1>2, <2>2, ClearStamps
  <2> QED BY <1>1, <1>4, <2>3, ApplyStamps DEF remove_item, S
<1>5. CASE record_item(t)
  <2> DEFINE r == Head(call[t].todo)
             single == call[t].op = "index_record"
             lo == IF single THEN call[t].lo ELSE range_lo(r.record, field_bits)
             ids == IF single THEN call[t].ids
                    ELSE (lo .. range_hi(lo, field_bits)) \cap Id
             cleared == clear_ids(tx, ids)
  <2>1. r \in Records
    BY <1>1, <1>2, <1>5 DEF record_item, CallOK, RecordOps
  <2>2. ids \in SUBSET Id
    BY <1>2 DEF Calls
  <2>3. \/ Rollback(t)
        \/ Apply(t, InsertFields(cleared, r.fields, lo))
    BY <1>5 DEF record_item
  <2> HIDE DEF ids, lo
  <2>4. cleared \in Files /\ SameStamps(tx, cleared) /\ NormalizedUnder(cleared, options)
    BY <1>2, <2>2, ClearStamps
  <2>5. r.fields \in Seq(Fields)
    BY <2>1 DEF Records
  <2> HIDE DEF cleared, r
  <2> DEFINE e == InsertFields(cleared, r.fields, lo)
  <2>6. SameStamps(cleared, e) /\ NormalizedUnder(e, options)
    BY <1>2, <2>4, <2>5, InsertFieldsStamps
  <2> HIDE DEF e
  <2>7. SameStamps(tx, e)
    BY <2>4, <2>6 DEF SameStamps
  <2>8. CASE Apply(t, e)
    BY <1>1, <2>6, <2>7, <2>8, ApplyStamps
  <2>9. CASE Rollback(t)
    BY <1>2, <2>9, RollbackStamps
  <2> QED BY <2>3, <2>8, <2>9 DEF e
<1> QED BY <1>3, <1>4, <1>5

\* The rows of an engine about to reindex need not be normalized as it would; of
\* one about to repack they are.
LEMMA RebuildStamps ==
  ASSUME TablesInv, StampsInv, NEW t \in Threads, regenerate(t) \/ repack(t)
  PROVE  StampsInv'
<1>1. /\ lock = t /\ pc[t] \in {"reindex", "repack"} /\ pc[t] \notin {"store", "idle"}
      /\ UNCHANGED <<db, engine>>
  BY DEF regenerate, repack, Locked
<1>2. db \in Files /\ options \in Profiles /\ call = [call EXCEPT ![t] = call[t]]
  BY DEF TablesInv, TypeOK
<1>3. CallStamps(t)
  BY DEF StampsInv
<1>4. ASSUME NEW e, tx' = e, Goto(t, "tx"), UNCHANGED call, e.profile = options,
             NormalizedUnder(e, options),
             e.bits = IF call[t].op = "change_field_bits" THEN call[t].arg ELSE field_bits
      PROVE  StampsInv'
  BY <1>1, <1>2, <1>4, ImageStep DEF Goto
<1>5. CASE regenerate(t)
  <2>1. pc[t] = "reindex" /\ tx' = Reindexed(db) /\ Goto(t, "tx") /\ UNCHANGED call
    BY <1>5 DEF regenerate, Locked
  <2>2. db.bits = field_bits /\ call[t].op # "change_field_bits"
    BY <1>3, <2>1 DEF CallStamps
  <2> QED BY <1>2, <1>4, <2>1, <2>2, ReindexedStamps
<1>6. CASE repack(t)
  <2>1. pc[t] = "repack"
    BY <1>6 DEF repack, Locked
  <2>2. alive /\ call[t].op = "change_field_bits"
    BY <1>3, <2>1 DEF CallStamps
  <2>3. db.profile = options /\ NormalizedUnder(db, options)
    BY <1>1, <2>2, AliveFacts
  <2> DEFINE e == Repacked(db, field_bits, call[t].arg)
  <2>4. e.profile = options /\ e.bits = call[t].arg /\ NormalizedUnder(e, options)
    BY <1>2, <2>3, RepackedStamps
  <2> HIDE DEF e
  <2>5. CASE Return(t) /\ UNCHANGED tx
    BY <1>1, <2>5, PlainReturn
  <2>6. CASE tx' = e /\ Goto(t, "tx") /\ UNCHANGED <<lock, call>>
    BY <1>4, <2>2, <2>4, <2>6
  <2> QED BY <1>6, <2>5, <2>6 DEF repack, e
<1> QED BY <1>5, <1>6

LEMMA CommitStamps ==
  ASSUME TablesInv, StampsInv, NEW t \in Threads, commit(t) \/ store_field_bits(t)
  PROVE  StampsInv'
<1>1. options \in Profiles /\ options # NULL
  BY ConstantAssumption DEF TablesInv, TypeOK
<1>2. CASE commit(t)
  <2>1. /\ Locked(t, "tx") /\ lock = t /\ pc[t] = "tx" /\ db' = tx /\ tx' = NULL
        /\ options' = options /\ field_bits' = field_bits
        /\ alive' = (alive \/ call[t].op = "open")
    BY <1>2 DEF commit, Locked
  <2>2. /\ tx.profile = options /\ NormalizedUnder(tx, options)
        /\ tx.bits = IF call[t].op = "change_field_bits" THEN call[t].arg ELSE field_bits
    BY <2>1, ImageFacts
  <2>3. NormalizedUnder(db', StampedProfile(db')) /\ db'.profile = options'
    BY <1>1, <2>1, <2>2 DEF StampedProfile
  <2>4. ImageStamps'
    BY <2>1 DEF ImageStamps
  <2>5. alive => alive'
    BY <2>1
  <2>6. CASE call[t].op = "change_field_bits"
    <3>1. /\ pc' = [pc EXCEPT ![t] = "store"] /\ call' = [call EXCEPT ![t] = call[t]]
          /\ pc'[t] = "store" /\ call'[t] = call[t]
      BY <1>2, <2>6 DEF commit, Goto, TablesInv, TypeOK
    <3>2. FileStamps'
      BY <2>3, <3>1 DEF FileStamps
    <3>3. alive
      BY <2>1, <2>6 DEF StampsInv, CallStamps
    <3>4. CallStamps(t)'
      BY <2>1, <2>2, <2>5, <2>6, <3>1, <3>3 DEF CallStamps
    <3> QED BY <2>1, <2>4, <2>5, <3>1, <3>2, <3>4, StampsStep
  <2>7. CASE call[t].op # "change_field_bits"
    <3>1. Return(t) /\ db'.bits = field_bits'
      BY <1>2, <2>1, <2>2, <2>7 DEF commit
    <3>2. FileStamps'
      BY <2>3, <3>1 DEF FileStamps
    <3> QED BY <2>1, <2>4, <2>5, <3>1, <3>2, ReturnStamps
  <2> QED BY <2>6, <2>7
<1>3. CASE store_field_bits(t)
  <2>1. /\ lock = t /\ pc[t] = "store" /\ Return(t) /\ field_bits' = call[t].arg
        /\ UNCHANGED <<db, tx, alive, options>>
    BY <1>3 DEF store_field_bits, Locked
  <2>2. db.bits = call[t].arg
    BY <2>1 DEF StampsInv, CallStamps
  <2>3. FileStamps'
    BY <2>1, <2>2 DEF StampsInv, FileStamps, StampedProfile, NormalizedUnder
  <2>4. ImageStamps'
    BY <2>1 DEF StampsInv, ImageStamps, NormalizedUnder
  <2>5. alive => alive'
    BY <2>1
  <2> QED BY <2>1, <2>3, <2>4, <2>5, ReturnStamps
<1> QED BY <1>2, <1>3

-----------------------------------------------------------------------------
(* Opening, closing and failing. *)

\* The constructor has read that the rows are normalized as asked, that there
\* are none, or that they have to be regenerated.
LEMMA OpenStamps ==
  ASSUME TablesInv, StampsInv, NEW t \in Threads, open(t)
  PROVE  StampsInv'
<1>1. PICK p \in Profiles, m \in BOOLEAN :
        /\ ~ alive /\ lock = NULL /\ pc[t] = "idle" /\ options' = p
        /\ m = (stored_profile(db) \notin {NULL, p})
        /\ call' = [call EXCEPT ![t] = [NoCall EXCEPT !.op = "open", !.mismatch = m]]
        /\ pc' = [pc EXCEPT ![t] = "stamp_bits"] /\ UNCHANGED <<db, tx, alive>>
  <2>1. PICK p \in Profiles, bits \in FieldBits \cup {NULL}, rebuild \in BOOLEAN :
          /\ ~ alive /\ lock = NULL /\ pc[t] = "idle" /\ options' = p
          /\ call' = [call EXCEPT ![t] = [NoCall EXCEPT !.op = "open",
                         !.mismatch = stored_profile(db) \notin {NULL, p}]]
          /\ Goto(t, "stamp_bits") /\ UNCHANGED <<db, tx, alive>>
    BY DEF open
  <2> DEFINE m == stored_profile(db) \notin {NULL, p}
  <2>2. m \in BOOLEAN
    OBVIOUS
  <2> QED BY <2>1, <2>2 DEF Goto
<1> DEFINE c == [NoCall EXCEPT !.op = "open", !.mismatch = m]
<1>2. c.op = "open" /\ c.mismatch = m
  BY DEF NoCall
<1>3. pc'[t] = "stamp_bits" /\ call'[t] = c
  BY <1>1 DEF TablesInv, TypeOK
<1> HIDE DEF c
<1>4. ~ m => NormalizedUnder(db, p)
  <2>1. SUFFICES ASSUME stored_profile(db) \in {NULL, p} PROVE NormalizedUnder(db, p)
    BY <1>1
  <2>2. CASE Stored(db) = {}
    BY <2>2 DEF Stored, NormalizedUnder
  <2>3. CASE Stored(db) # {}
    <3>1. stored_profile(db) = StampedProfile(db) /\ stored_profile(db) # NULL
      BY <2>3, ConstantAssumption DEF stored_profile, StampedProfile
    <3> QED BY <2>1, <3>1 DEF StampsInv, FileStamps
  <2> QED BY <2>2, <2>3
<1>5. CallStamps(t)'
  BY <1>1, <1>2, <1>3, <1>4 DEF CallStamps, NormalizedUnder
<1>6. FileStamps'
  BY <1>1 DEF StampsInv, FileStamps, StampedProfile, NormalizedUnder
<1>7. ImageStamps'
  <2>1. tx = NULL
    BY <1>1, HolderFacts
  <2> QED BY <1>1, <2>1 DEF ImageStamps
<1>8. lock \in {t, NULL} /\ (alive => alive')
  BY <1>1
<1> QED BY <1>1, <1>5, <1>6, <1>7, <1>8, StampsStep DEF c

LEMMA StampSteps ==
  ASSUME TablesInv, StampsInv, NEW t \in Threads,
         open_stamp_bits(t) \/ open_stamp_profile(t)
  PROVE  StampsInv'
<1>1. /\ lock = t /\ pc[t] \in {"stamp_bits", "stamp_profile"}
      /\ options' = options /\ field_bits' = field_bits /\ tx' = tx
  BY DEF open_stamp_bits, open_stamp_profile, Locked, engine
<1>2. CallStamps(t) /\ call[t].op = "open" /\ ~ alive
  BY <1>1 DEF StampsInv, CallStamps
<1>3. tx = NULL /\ db \in Files /\ options \in Profiles /\ options # NULL
  BY <1>1, HolderFacts, ConstantAssumption DEF TablesInv, TypeOK
<1>4. ImageStamps'
  BY <1>1, <1>3 DEF ImageStamps
<1>5. CASE open_stamp_bits(t)
  <2> DEFINE l == IF call[t].mismatch THEN "reindex" ELSE "stamp_profile"
  <2>1. /\ pc' = [pc EXCEPT ![t] = l] /\ call' = [call EXCEPT ![t] = call[t]]
        /\ pc'[t] = l /\ call'[t] = call[t] /\ db' = stamp_field_bits(db, field_bits)
        /\ pc[t] = "stamp_bits" /\ alive' = alive
    BY <1>5 DEF open_stamp_bits, Locked, Goto, TablesInv, TypeOK, engine
  <2>2. db'.bits = field_bits /\ db'.profile = db.profile /\ db'.entries = db.entries
    BY <1>3, <2>1, StampFields
  <2>3. StampedProfile(db') = StampedProfile(db)
    BY <2>2 DEF StampedProfile
  <2>4. FileStamps'
    BY <1>2, <2>1, <2>2, <2>3 DEF StampsInv, FileStamps, NormalizedUnder
  <2>5. ~ call[t].mismatch => NormalizedUnder(db', options)
    BY <1>2, <1>3, <2>2, SameEntries DEF CallStamps
  <2>6. CallStamps(t)'
    BY <1>1, <1>2, <2>1, <2>2, <2>5 DEF CallStamps
  <2> HIDE DEF l
  <2> QED BY <1>1, <1>2, <1>4, <2>1, <2>4, <2>6, StampsStep
<1>6. CASE open_stamp_profile(t)
  <2>1. pc[t] = "stamp_profile" /\ db' = stamp_profile(db, options) /\ alive' = TRUE /\ Return(t)
    BY <1>6 DEF open_stamp_profile, Locked
  <2>2. NormalizedUnder(db, options) /\ db.bits = field_bits
    BY <1>2, <2>1 DEF CallStamps
  <2>3. db'.profile = options /\ db'.bits = field_bits /\ db'.entries = db.entries
    BY <1>3, <2>1, <2>2, StampFields
  <2>4. NormalizedUnder(db', options)
    BY <1>3, <2>2, <2>3, SameEntries
  <2>5. FileStamps'
    BY <1>1, <1>3, <2>3, <2>4 DEF FileStamps, StampedProfile
  <2> QED BY <1>1, <1>4, <2>1, <2>5, ReturnStamps
<1> QED BY <1>5, <1>6

\* Whatever was under way, a crash leaves the file as the last commit did, and
\* the stamps in it were true then.
LEMMA StopStamps ==
  ASSUME TablesInv, StampsInv, crash \/ close
  PROVE  StampsInv'
<1>1. /\ db' = db /\ tx' = NULL /\ alive' = FALSE
      /\ \A t \in Threads : pc'[t] = "idle" /\ call'[t] = NoCall
  BY DEF crash, close, Stopped
<1>2. \A t \in Threads : CallStamps(t)'
  BY <1>1, IdleStamps
<1>3. FileStamps'
  BY <1>1 DEF StampsInv, FileStamps, StampedProfile, NormalizedUnder
<1>4. ImageStamps'
  BY <1>1 DEF ImageStamps
<1> QED BY <1>2, <1>3, <1>4 DEF StampsInv

-----------------------------------------------------------------------------

LEMMA StampsInit == Init => StampsInv
<1> SUFFICES ASSUME Init PROVE StampsInv
  OBVIOUS
<1>1. PICK S \in {{}, LegacyIds}, x \in Texts :
        db = [docs |-> [i \in Id |-> IF i \in S THEN Normalize(Loose, x) ELSE NULL],
              entries |-> [i \in Id |-> IF i \in S
                             THEN [norm |-> Normalize(Loose, x), raw |-> NULL] ELSE NULL],
              profile |-> NULL, bits |-> NULL, torn |-> {}]
  BY DEF Init
<1>2. \A i \in Id : db.entries[i] # NULL => db.entries[i].raw = NULL
  BY <1>1
<1>3. FileStamps
  BY <1>2 DEF Init, FileStamps, NormalizedUnder
<1>4. ImageStamps
  BY DEF Init, ImageStamps
<1>5. \A t \in Threads : CallStamps(t)
  BY NoCallFacts DEF Init, CallStamps
<1> QED BY <1>3, <1>4, <1>5 DEF StampsInv

\* Every step of every thread, crash and close keeps the file's stamps true:
\* what the rows are normalized under, and what an open engine works with.
THEOREM StampsInvariant == Spec => []StampsInv
<1>1. ASSUME TablesInv, StampsInv, [Next]_vars PROVE StampsInv'
  <2>1. ASSUME NEW t \in Threads, Request(t) PROVE StampsInv'
    BY <1>1, <2>1, RequestStamps, OpenStamps
  <2>2. ASSUME NEW t \in Threads, Step(t) PROVE StampsInv'
    BY <1>1, <2>2, LoadStamps, LockStamps, WriteStepStamps, ReadStamps, ItemStamps,
       RebuildStamps, CommitStamps, StampSteps DEF Step
  <2>3. ASSUME NEW t \in Threads, statement_fails(t) PROVE StampsInv'
    BY <1>1, <2>3, RollbackStamps DEF statement_fails
  <2>4. CASE crash \/ close
    BY <1>1, <2>4, StopStamps
  <2>5. CASE UNCHANGED <<db, tx, lock, engine, pc, call, calls, faults>>
    BY <1>1, <2>5 DEF engine, StampsInv, FileStamps, ImageStamps, CallStamps,
       StampedProfile, NormalizedUnder
  <2> QED BY <1>1, <2>1, <2>2, <2>3, <2>4, <2>5 DEF Next, Done, vars
<1> QED BY <1>1, StampsInit, TablesInvariant, PTL DEF Spec

\* An index that reindexStatus reports as up to date for a profile has every row
\* that kept its text normalized under that profile, in every state a crash can
\* expose, for any profiles, threads and inputs.
THEOREM UpToDateMeansNormalized == Spec => []NormalizedAsStamped
<1>1. StampsInv => NormalizedAsStamped
  <2> SUFFICES ASSUME StampsInv, NEW p \in Profiles, reindex_status_for(db, p) = "UpToDate",
                      NEW i \in Stored(db), db.entries[i].raw # NULL
               PROVE  db.entries[i].norm = Normalize(p, db.entries[i].raw)
    BY DEF NormalizedAsStamped
  <2>1. stored_profile(db) = p /\ Stored(db) # {}
    BY DEF reindex_status_for
  <2>2. StampedProfile(db) = p
    BY <2>1 DEF stored_profile, StampedProfile
  <2> QED BY <2>2 DEF StampsInv, FileStamps, NormalizedUnder, Stored
<1> QED BY <1>1, StampsInvariant, PTL

\* An open engine never works with another normalization or another field_bits
\* than its file is stamped with, but for change_field_bits' own store.
THEOREM StampsAreTheEngines == Spec => []StampsMatch
<1>1. TablesInv /\ StampsInv => StampsMatch
  <2> SUFFICES ASSUME TablesInv, StampsInv, alive
               PROVE  /\ db.profile = options
                      /\ \/ db.bits = field_bits
                         \/ \E t \in Threads : Locked(t, "store") /\ db.bits = call[t].arg
    BY DEF StampsMatch
  <2>1. CASE \E t \in Threads : pc[t] = "store"
    <3>1. PICK t \in Threads : pc[t] = "store"
      BY <2>1
    <3>2. lock = t
      BY <3>1 DEF TablesInv, LockOK, LockedLabels
    <3>3. db.bits = call[t].arg
      BY <3>1 DEF StampsInv, CallStamps
    <3> QED BY <3>1, <3>2, <3>3 DEF Locked, StampsInv, FileStamps
  <2> QED BY <2>1 DEF StampsInv, FileStamps
<1> QED BY <1>1, TablesInvariant, StampsInvariant, PTL

-----------------------------------------------------------------------------
(* The encoding of the stored ids. *)

\* A step of t is no step of another thread.
LEMMA OtherThreads ==
  ASSUME TablesInv, NEW t \in Threads, Request(t) \/ Step(t) \/ statement_fails(t)
  PROVE  \A u \in Threads \ {t} : pc'[u] = pc[u] /\ call'[u] = call[u]
<1>1. pc \in [Threads -> Labels] /\ call \in [Threads -> Calls]
  BY DEF TablesInv, TypeOK
<1>2. ASSUME NEW l, Goto(t, l) PROVE \A u \in Threads \ {t} : pc'[u] = pc[u]
  BY <1>1, <1>2 DEF Goto
<1>3. ASSUME NEW c, call' = [call EXCEPT ![t] = c]
      PROVE  \A u \in Threads \ {t} : call'[u] = call[u]
  BY <1>1, <1>3
<1>4. ASSUME NEW l, NEW c, Begin(t, c, l)
      PROVE  \A u \in Threads \ {t} : pc'[u] = pc[u] /\ call'[u] = call[u]
  BY <1>2, <1>3, <1>4 DEF Begin
<1>5. ASSUME Return(t)
      PROVE  \A u \in Threads \ {t} : pc'[u] = pc[u] /\ call'[u] = call[u]
  BY <1>2, <1>3, <1>5 DEF Return
<1>6. ASSUME NEW e, Apply(t, e)
      PROVE  \A u \in Threads \ {t} : pc'[u] = pc[u] /\ call'[u] = call[u]
  <2> DEFINE c == [call[t] EXCEPT !.todo = Tail(@)]
  <2>1. pc' = pc /\ call' = [call EXCEPT ![t] = c]
    BY <1>6, Zenon DEF Apply
  <2> HIDE DEF c
  <2> QED BY <1>3, <2>1
<1>7. CASE Request(t)
  <2>1. CASE open(t)
    BY <1>2, <1>3, <2>1 DEF open
  <2>2. CASE \E c, l : Begin(t, c, l)
    BY <1>4, <2>2, Zenon
  <2> QED
    BY <1>7, <2>1, <2>2
       DEF Request, index, remove, index_batch, remove_batch, remove_all, reindex,
           change_field_bits, index_record, index_records_batch, remove_record,
           contains_record, search_records, match_count_records
<1>8. CASE load_max(t) \/ locked_conn(t) \/ delete_docs(t) \/ insert_docs(t)
  BY <1>1, <1>2, <1>5, <1>8 DEF load_max, locked_conn, delete_docs, insert_docs
<1>9. CASE load_lo(t) \/ load_hi(t) \/ fetch_hits(t) \/ decode_hits(t)
  BY <1>1, <1>9 DEF load_lo, load_hi, fetch_hits, decode_hits, Goto
<1>10. CASE \/ replace_entries(t) \/ delete_entries(t) \/ read_exists(t) \/ return_hits(t)
            \/ store_field_bits(t) \/ open_stamp_profile(t) \/ statement_fails(t)
  BY <1>5, <1>10
     DEF replace_entries, delete_entries, read_exists, return_hits, store_field_bits,
         open_stamp_profile, statement_fails, Rollback
<1>11. CASE index_item(t) \/ remove_item(t) \/ record_item(t)
  BY <1>5, <1>6, <1>11 DEF index_item, remove_item, record_item, Rollback
<1>12. CASE regenerate(t) \/ repack(t) \/ commit(t) \/ open_stamp_bits(t)
  BY <1>2, <1>5, <1>12 DEF regenerate, repack, commit, open_stamp_bits
<1> QED BY <1>7, <1>8, <1>9, <1>10, <1>11, <1>12 DEF Step

\* What EncodingOK says of t depends on nothing else.
LEMMA SameEncoding ==
  ASSUME NEW t \in Threads, EncodingOK(t), pc'[t] = pc[t], call'[t] = call[t],
         UNCHANGED <<db, tx, field_bits>>
  PROVE  EncodingOK(t)'
BY DEF EncodingOK, stored_field_bits, Stored

\* Either t leaves file, transaction and encoding alone, or the others are
\* outside their locked sections.
LEMMA EncodingStep ==
  ASSUME TablesInv, EncodingInv, NEW t \in Threads,
         Request(t) \/ Step(t) \/ statement_fails(t),
         UNCHANGED <<db, tx, field_bits>> \/ lock \in {t, NULL},
         pc'[t] \in {"stamp_bits", "tx"} => EncodingOK(t)'
  PROVE  \A u \in Threads : EncodingOK(u)'
<1>1. EncodingOK(t)'
  BY DEF EncodingOK
<1> SUFFICES ASSUME NEW u \in Threads \ {t} PROVE EncodingOK(u)'
  BY <1>1
<1>2. pc'[u] = pc[u] /\ call'[u] = call[u] /\ EncodingOK(u)
  BY OtherThreads DEF EncodingInv
<1>3. CASE UNCHANGED <<db, tx, field_bits>>
  BY <1>2, <1>3, SameEncoding
<1>4. CASE lock \in {t, NULL}
  <2>1. pc[u] \notin {"stamp_bits", "tx"}
    BY <1>4, HolderFacts DEF LockedLabels
  <2> QED BY <1>2, <2>1 DEF EncodingOK
<1> QED BY <1>3, <1>4

LEMMA RequestEncoding ==
  ASSUME TablesInv, EncodingInv, NEW t \in Threads, Request(t)
  PROVE  \A u \in Threads : EncodingOK(u)'
<1>1. pc \in [Threads -> Labels]
  BY DEF TablesInv, TypeOK
<1>2. ASSUME NEW l \in {"lock", "max"}, NEW c, Begin(t, c, l)
      PROVE  pc'[t] \notin {"stamp_bits", "tx"} /\ UNCHANGED <<db, tx, field_bits>>
  BY <1>1, <1>2 DEF Begin, Goto, engine
<1>3. CASE open(t)
  <2>1. pc'[t] = "stamp_bits" /\ lock = NULL /\ db' = db
    BY <1>1, <1>3 DEF open, Goto
  <2>2. stored_field_bits(db) \in {NULL, field_bits'}
    BY <1>3 DEF open
  <2>3. EncodingOK(t)'
    BY <2>1, <2>2 DEF EncodingOK, stored_field_bits, Stored
  <2> QED BY <2>1, <2>3, EncodingStep
<1>4. CASE \E l \in {"lock", "max"} : \E c : Begin(t, c, l)
  BY <1>2, <1>4, EncodingStep
<1>5. \/ open(t) \/ \E l \in {"lock", "max"} : \E c : Begin(t, c, l)
  BY Zenon
     DEF Request, index, remove, index_batch, remove_batch, remove_all, reindex,
         change_field_bits, index_record, index_records_batch, remove_record,
         contains_record, search_records, match_count_records
<1> QED BY <1>3, <1>4, <1>5

LEMMA ReadEncoding ==
  ASSUME TablesInv, EncodingInv, NEW t \in Threads,
         \/ load_max(t) \/ load_lo(t) \/ load_hi(t) \/ read_exists(t) \/ fetch_hits(t)
         \/ decode_hits(t) \/ return_hits(t)
  PROVE  \A u \in Threads : EncodingOK(u)'
<1>1. UNCHANGED <<db, tx, field_bits>> /\ Step(t) /\ pc \in [Threads -> Labels]
  BY DEF load_max, load_lo, load_hi, read_exists, fetch_hits, decode_hits, return_hits,
         engine, Step, TablesInv, TypeOK
<1>2. CASE decode_hits(t)
  <2>1. pc'[t] = "decode"
    BY <1>2, Zenon DEF decode_hits
  <2> QED BY <1>1, <2>1, EncodingStep
<1>3. CASE ~ decode_hits(t)
  <2>1. PICK l \in {"lo", "hi", "lock", "decode", "idle"} : Goto(t, l)
    BY <1>3, Zenon
       DEF load_max, load_lo, load_hi, read_exists, fetch_hits, return_hits, Return
  <2>2. pc'[t] \notin {"stamp_bits", "tx"}
    BY <1>1, <2>1 DEF Goto
  <2> QED BY <1>1, <2>2, EncodingStep
<1> QED BY <1>2, <1>3

\* A transaction begins on a file of the engine's encoding: nobody is between
\* change_field_bits' commit and its store.
LEMMA LockEncoding ==
  ASSUME TablesInv, EncodingInv, NEW t \in Threads, locked_conn(t)
  PROVE  \A u \in Threads : EncodingOK(u)'
<1> DEFINE l == Section(call[t].op)
<1>1. /\ lock = NULL /\ pc[t] = "lock" /\ UNCHANGED <<db, field_bits, call>> /\ pc'[t] = l
  BY DEF locked_conn, Goto, TablesInv, TypeOK, engine
<1>2. l # "stamp_bits" /\ (l = "tx" => call[t].op # "change_field_bits")
  BY DEF Section
<1> HIDE DEF l
<1>3. pc[t] \in PlainLabels \ {"idle"} /\ pc[t] # "store"
  BY <1>1 DEF PlainLabels, Labels
<1>4. db.bits = field_bits
  BY <1>1, <1>3, CallerFacts, AliveFacts DEF EncodingInv
<1>5. EncodingOK(t)'
  BY <1>1, <1>2, <1>4 DEF EncodingOK
<1> QED BY <1>1, <1>5, EncodingStep DEF Step

\* A step that leaves no transaction of t's behind.
LEMMA HolderEncoding ==
  ASSUME TablesInv, EncodingInv, NEW t \in Threads, lock = t,
         Step(t) \/ statement_fails(t), NEW l, l \notin {"stamp_bits", "tx"}, Goto(t, l)
  PROVE  \A u \in Threads : EncodingOK(u)'
<1>1. pc'[t] = l
  BY DEF Goto, TablesInv, TypeOK
<1> QED BY <1>1, EncodingStep

LEMMA WriteEncoding ==
  ASSUME TablesInv, EncodingInv, NEW t \in Threads,
         \/ delete_docs(t) \/ insert_docs(t) \/ replace_entries(t) \/ delete_entries(t)
         \/ commit(t) \/ store_field_bits(t) \/ open_stamp_bits(t) \/ open_stamp_profile(t)
         \/ statement_fails(t)
  PROVE  \A u \in Threads : EncodingOK(u)'
<1>1. lock = t /\ (Step(t) \/ statement_fails(t))
  BY DEF Step, delete_docs, insert_docs, replace_entries, delete_entries, commit,
         store_field_bits, open_stamp_bits, open_stamp_profile, statement_fails, Locked
<1>2. \E l : l \notin {"stamp_bits", "tx"} /\ Goto(t, l)
  <2>1. CASE delete_docs(t) \/ insert_docs(t) \/ open_stamp_bits(t)
    BY <2>1 DEF delete_docs, insert_docs, open_stamp_bits
  <2>2. CASE commit(t)
    <3>1. Goto(t, "store") \/ Goto(t, "idle")
      BY <2>2 DEF commit, Return
    <3> QED BY <3>1
  <2>3. CASE \/ replace_entries(t) \/ delete_entries(t) \/ store_field_bits(t)
             \/ open_stamp_profile(t) \/ statement_fails(t)
    <3>1. Goto(t, "idle")
      BY <2>3 DEF replace_entries, delete_entries, store_field_bits, open_stamp_profile,
                  statement_fails, Rollback, Return
    <3> QED BY <3>1
  <2> QED BY <2>1, <2>2, <2>3
<1> QED BY <1>1, <1>2, HolderEncoding

\* change_field_bits' transaction has no loop; the others keep the encoding.
LEMMA ItemEncoding ==
  ASSUME TablesInv, EncodingInv, NEW t \in Threads,
         index_item(t) \/ remove_item(t) \/ record_item(t)
  PROVE  \A u \in Threads : EncodingOK(u)'
<1>1. /\ lock = t /\ pc[t] = "tx" /\ call[t].op # "change_field_bits" /\ Step(t)
      /\ call[t] \in Calls /\ EncodingOK(t)
  BY DEF index_item, remove_item, record_item, Locked, Step, TablesInv, TypeOK, EncodingInv
<1>2. CASE Goto(t, "idle")
  BY <1>1, <1>2, HolderEncoding
<1>3. ASSUME NEW e, Apply(t, e)
      PROVE  \A u \in Threads : EncodingOK(u)'
  <2> DEFINE c == [call[t] EXCEPT !.todo = Tail(@)]
  <2>1. pc' = pc /\ UNCHANGED <<db, field_bits>> /\ call' = [call EXCEPT ![t] = c]
    BY <1>3, Zenon DEF Apply, engine
  <2>2. c.op = call[t].op
    BY <1>1 DEF Calls
  <2> HIDE DEF c
  <2>3. pc'[t] = "tx" /\ call'[t] = c
    BY <1>1, <2>1 DEF TablesInv, TypeOK
  <2>4. EncodingOK(t)'
    BY <1>1, <2>1, <2>2, <2>3 DEF EncodingOK
  <2> QED BY <1>1, <2>4, EncodingStep
<1>4. Goto(t, "idle") \/ \E e : Apply(t, e)
  BY DEF index_item, remove_item, record_item, Rollback, Return
<1> QED BY <1>2, <1>3, <1>4

\* repack finds what it checks and rewrites in the engine's encoding.
LEMMA RebuildEncoding ==
  ASSUME TablesInv, EncodingInv, NEW t \in Threads, regenerate(t) \/ repack(t)
  PROVE  \A u \in Threads : EncodingOK(u)'
<1>1. /\ lock = t /\ pc[t] \in {"reindex", "repack"} /\ Step(t) /\ CallStamps(t)
      /\ UNCHANGED <<db, field_bits>>
  BY DEF regenerate, repack, Locked, Step, EncodingInv, StampsInv, engine
<1>2. CASE regenerate(t)
  <2>1. pc[t] = "reindex" /\ pc'[t] = "tx" /\ call' = call
    BY <1>2 DEF regenerate, Locked, Goto, TablesInv, TypeOK
  <2>2. db.bits = field_bits /\ call[t].op # "change_field_bits"
    BY <1>1, <2>1 DEF CallStamps
  <2>3. EncodingOK(t)'
    BY <1>1, <2>1, <2>2 DEF EncodingOK
  <2> QED BY <1>1, <2>3, EncodingStep
<1>3. CASE repack(t) /\ ~ Return(t)
  <2> DEFINE new == call[t].arg
  <2>1. /\ pc[t] = "repack" /\ pc'[t] = "tx" /\ call' = call
        /\ tx' = Repacked(db, field_bits, new) /\ ~ RepackRejected(db, field_bits, new)
    BY <1>3 DEF repack, Locked, Goto, TablesInv, TypeOK
  <2>2. alive
    BY <1>1, <2>1 DEF CallStamps
  <2>3. db.bits = field_bits
    BY <1>1, <2>1, <2>2, AliveFacts DEF EncodingInv
  <2>4. EncodingOK(t)'
    BY <1>1, <2>1, <2>3 DEF EncodingOK
  <2> QED BY <1>1, <2>4, EncodingStep
<1>4. CASE Return(t)
  BY <1>1, <1>4, HolderEncoding DEF Return
<1> QED BY <1>2, <1>3, <1>4

\* open adopts the encoding of the rows it finds, and a change_field_bits about
\* to commit has every row of the file at the id its record and slot have under
\* the new one, whatever failed and wherever the process stopped before.
THEOREM EncodingInvariance == Spec => []EncodingInv
<1>1. ASSUME Init PROVE \A t \in Threads : EncodingOK(t)
  BY <1>1 DEF Init, EncodingOK
<1>2. ASSUME TablesInv, EncodingInv, [Next]_vars PROVE \A t \in Threads : EncodingOK(t)'
  <2>1. ASSUME NEW t \in Threads, Request(t) \/ Step(t) \/ statement_fails(t)
        PROVE  \A u \in Threads : EncodingOK(u)'
    BY <1>2, <2>1, RequestEncoding, ReadEncoding, LockEncoding, WriteEncoding,
       ItemEncoding, RebuildEncoding DEF Step
  <2>2. CASE crash \/ close
    BY <2>2 DEF crash, close, Stopped, EncodingOK
  <2>3. CASE UNCHANGED <<db, tx, lock, engine, pc, call, calls, faults>>
    BY <1>2, <2>3, SameEncoding DEF engine, EncodingInv
  <2> QED BY <1>2, <2>1, <2>2, <2>3 DEF Next, Done, vars
<1>3. Spec => [](\A t \in Threads : EncodingOK(t))
  <2> DEFINE I == \A t \in Threads : EncodingOK(t)
  <2>1. Init => I
    BY <1>1
  <2>2. I /\ TablesInv /\ StampsInv /\ [Next]_vars => I'
    BY <1>2 DEF EncodingInv
  <2> HIDE DEF I
  <2>3. Spec => []I
    BY <2>1, <2>2, TablesInvariant, StampsInvariant, PTL DEF Spec
  <2> QED BY <2>3 DEF I
<1> QED BY <1>3, StampsInvariant, PTL DEF EncodingInv

-----------------------------------------------------------------------------
(* What a step does to the meaning of the stored ids. *)

\* Repacked empties the tables and puts each row it found where it belongs.
LEMMA RepackedMoves ==
  ASSUME NEW d \in Files, NEW old, NEW new
  PROVE  LET e == Repacked(d, old, new)
         IN  /\ \A i \in Id : e.entries[i] # NULL =>
                  \E j \in Stored(d) : Repack(j, old, new) = i /\ e.entries[i] = d.entries[j]
             /\ \A j \in Stored(d) : Repack(j, old, new) \in Id =>
                  \E k \in Stored(d) : /\ Repack(k, old, new) = Repack(j, old, new)
                                       /\ e.entries[Repack(j, old, new)] = d.entries[k]
<1> DEFINE from(i) == {j \in Stored(d) : Repack(j, old, new) = i}
           D == {k \in Id : from(k) # {}}
           src(i) == CHOOSE j \in from(i) : TRUE
           rows == [i \in D |-> d.entries[src(i)]]
           c1 == DeleteDocs(d, Id)
           c2 == DeleteEntries(c1, Id)
           c3 == Completed(c2, Id)
           w1 == InsertDocs(c3, rows)
           w2 == ReplaceEntries(w1, rows)
           e == stamp_field_bits(w2, new)
<1>1. ASSUME NEW i \in D
      PROVE  src(i) \in Stored(d) /\ Repack(src(i), old, new) = i
  <2>1. src(i) \in from(i)
    OBVIOUS
  <2> HIDE DEF src
  <2> QED BY <2>1
<1>2. \A i \in D : d.entries[src(i)] \in Rows
  BY <1>1 DEF Stored, Files
<1> HIDE DEF src
<1>3. /\ D \in SUBSET Id /\ rows \in [D -> Rows]
      /\ \A i \in D : rows[i] = d.entries[src(i)]
      /\ \A j \in Stored(d) : Repack(j, old, new) \in Id => Repack(j, old, new) \in D
  BY <1>2
<1> HIDE DEF D, rows
<1>4. c3 \in Files /\ \A i \in Id : c3.entries[i] = NULL
  <2>1. c1 \in Files
    BY DeleteDocsFacts
  <2> HIDE DEF c1
  <2>2. c2 \in Files /\ \A i \in Id : c2.entries[i] = NULL
    BY <2>1, DeleteEntriesFacts
  <2> HIDE DEF c2
  <2> QED BY <2>2, TornFacts
<1>5. Repacked(d, old, new) = e
  BY DEF Repacked, WriteRows, clear_ids, rows, D, src
<1> HIDE DEF c3
<1>6. w2 \in Files /\ \A i \in Id : w2.entries[i] = IF i \in D THEN rows[i] ELSE NULL
  <2>1. w1 \in Files /\ w1.entries = c3.entries
    BY <1>3, <1>4, InsertDocsFacts
  <2> HIDE DEF w1
  <2>2. D \in SUBSET Id /\ rows \in [D -> Rows] /\ w1 \in Files
    BY <1>3, <2>1
  <2>3. /\ w2 \in Files
        /\ \A i \in Id : w2.entries[i] = IF i \in D THEN rows[i] ELSE w1.entries[i]
    BY <2>2, ReplaceEntriesFacts
  <2> HIDE DEF w2
  <2> QED BY <1>4, <2>1, <2>3
<1> HIDE DEF w2
<1>7. e.entries = w2.entries
  BY <1>6, StampFields
<1> HIDE DEF e
<1>8. \A i \in Id : e.entries[i] = IF i \in D THEN d.entries[src(i)] ELSE NULL
  BY <1>3, <1>6, <1>7
<1>9. \A i \in D : \E j \in Stored(d) : Repack(j, old, new) = i /\ e.entries[i] = d.entries[j]
  BY <1>1, <1>3, <1>8
<1>10. \A i \in Id : e.entries[i] # NULL => i \in D
  BY <1>8
<1>11. \A j \in Stored(d) : Repack(j, old, new) \in Id =>
         \E k \in Stored(d) : /\ Repack(k, old, new) = Repack(j, old, new)
                              /\ e.entries[Repack(j, old, new)] = d.entries[k]
  BY <1>3, <1>9
<1> QED BY <1>5, <1>9, <1>10, <1>11

\* Where every row fits, the same records hold the same texts afterwards.
LEMMA RepackedMeaning ==
  ASSUME NEW d \in Files, NEW old \in FieldBits, NEW new \in FieldBits,
         d.bits = old, ~ RepackRejected(d, old, new), Repacked(d, old, new).bits = new
  PROVE  Meaning(Repacked(d, old, new)) = Meaning(d)
<1> DEFINE e == Repacked(d, old, new)
           to(j) == Repack(j, old, new)
           Said(f, i, b) == <<record_of(i, b), slot_bits(i, b), f.entries[i].norm, f.entries[i].raw>>
<1>1. \A j \in Stored(d) : j \in Id /\ Fits(j, old, new)
  BY DEF Stored, RepackRejected
<1>2. \A j, k \in Stored(d) : to(j) = to(k) => j = k
  BY DEF RepackRejected
<1>3. ASSUME NEW j \in Stored(d)
      PROVE  to(j) \in Id /\ record_of(to(j), new) = record_of(j, old)
                          /\ slot_bits(to(j), new) = slot_bits(j, old)
  <2>1. /\ to(j) \in 0 .. MaxId /\ record_of(to(j), new) = record_of(j, old)
        /\ slot_bits(to(j), new) = slot_bits(j, old)
    BY <1>1, RepackedKeeps
  <2>2. 0 .. MaxId \subseteq Id
    BY PowerType, WordAssumption DEF Id, MaxId
  <2> QED BY <2>1, <2>2
<1>4. /\ \A i \in Stored(e) : \E j \in Stored(d) : to(j) = i /\ e.entries[i] = d.entries[j]
      /\ \A j \in Stored(d) : \E k \in Stored(d) : to(k) = to(j) /\ e.entries[to(j)] = d.entries[k]
  BY <1>3, RepackedMoves DEF Stored
<1> HIDE DEF to, e
<1>5. \A j \in Stored(d) : to(j) \in Stored(e) /\ e.entries[to(j)] = d.entries[j]
  BY <1>2, <1>3, <1>4 DEF Stored
<1>6. \A j \in Stored(d) : Said(e, to(j), new) = Said(d, j, old)
  BY <1>3, <1>5
<1>7. {Said(e, i, new) : i \in Stored(e)} = {Said(d, j, old) : j \in Stored(d)}
  <2> DEFINE now(i) == Said(e, i, new)
             was(j) == Said(d, j, old)
  <2>1. \A i \in Stored(e) : \E j \in Stored(d) : to(j) = i
    BY <1>4
  <2>2. \A j \in Stored(d) : to(j) \in Stored(e) /\ now(to(j)) = was(j)
    BY <1>5, <1>6
  <2> HIDE DEF now, was
  <2>3. {now(i) : i \in Stored(e)} = {was(j) : j \in Stored(d)}
    BY <2>1, <2>2
  <2> QED BY <2>3 DEF now, was
<1>8. old # NULL /\ new # NULL /\ e.bits = new
  BY ConstantAssumption DEF e
<1>9. CASE Stored(d) = {}
  <2>1. Stored(e) = {}
    BY <1>4, <1>9
  <2> QED BY <1>9, <2>1 DEF Meaning, e
<1>10. CASE Stored(d) # {}
  <2>1. Stored(e) # {}
    BY <1>5, <1>10
  <2>2. stored_field_bits(e) = new /\ stored_field_bits(d) = old
    BY <1>8, <1>10, <2>1 DEF stored_field_bits
  <2>3. Meaning(e) = {Said(e, i, new) : i \in Stored(e)}
    BY <2>2 DEF Meaning
  <2>4. Meaning(d) = {Said(d, j, old) : j \in Stored(d)}
    BY <2>2 DEF Meaning
  <2> QED BY <1>7, <2>3, <2>4 DEF e
<1> QED BY <1>9, <1>10

\* Every statement but the stamp of open and every step but a commit leaves the
\* stamped encoding alone.
LEMMA BitsStay ==
  ASSUME TablesInv, NEW t \in Threads, Request(t) \/ Step(t) \/ statement_fails(t),
         ~ open_stamp_bits(t), ~ commit(t)
  PROVE  db'.bits = db.bits
<1>1. db \in Files
  BY DEF TablesInv, TypeOK
<1>2. CASE Request(t)
  <2>1. db' = db \/ \E c, l : Begin(t, c, l)
    BY <1>2, Zenon
       DEF Request, index, remove, index_batch, remove_batch, remove_all, reindex,
           change_field_bits, index_record, index_records_batch, remove_record,
           contains_record, search_records, match_count_records, open
  <2> QED BY <2>1 DEF Begin
<1>3. CASE delete_docs(t) \/ insert_docs(t)
  BY <1>1, <1>3 DEF delete_docs, insert_docs, Begun, DeleteDocs, InsertDocs, Files
<1>4. CASE replace_entries(t) \/ delete_entries(t)
  BY <1>1, <1>4
     DEF replace_entries, delete_entries, Completed, ReplaceEntries, DeleteEntries, Files
<1>5. CASE open_stamp_profile(t)
  BY <1>1, <1>5, StampFields DEF open_stamp_profile
<1>6. CASE \/ load_max(t) \/ load_lo(t) \/ load_hi(t) \/ locked_conn(t)
           \/ read_exists(t) \/ fetch_hits(t) \/ decode_hits(t) \/ return_hits(t)
           \/ index_item(t) \/ remove_item(t) \/ record_item(t)
           \/ regenerate(t) \/ repack(t) \/ store_field_bits(t) \/ statement_fails(t)
  <2>1. db' = db
    BY <1>6
       DEF load_max, load_lo, load_hi, locked_conn, read_exists, fetch_hits, decode_hits,
           return_hits, index_item, remove_item, record_item, Apply, Rollback,
           regenerate, repack, store_field_bits, statement_fails
  <2> QED BY <2>1
<1> QED BY <1>2, <1>3, <1>4, <1>5, <1>6 DEF Step

\* A step that changes the encoding stamped in the file keeps every document,
\* under the same record and slot: the commit of change_field_bits moves them
\* all, and a constructor stamps another encoding only where there are none.
THEOREM RepackingKeepsRecords == Spec => RepackKeepsRecords
<1>1. ASSUME TablesInv, EncodingInv, [Next]_vars
      PROVE  db'.bits # db.bits => Meaning(db') = Meaning(db)
  <2> SUFFICES ASSUME db'.bits # db.bits PROVE Meaning(db') = Meaning(db)
    OBVIOUS
  <2>1. db \in Files /\ field_bits \in FieldBits /\ field_bits # NULL
    BY <1>1, ConstantAssumption DEF TablesInv, TypeOK
  <2>2. PICK t \in Threads : open_stamp_bits(t) \/ commit(t)
    <3>1. ~ (crash \/ close \/ Done \/ UNCHANGED vars)
      BY DEF crash, close, Done, Stopped, vars
    <3> QED BY <1>1, <3>1, BitsStay DEF Next
  <2>3. CASE open_stamp_bits(t)
    <3>1. /\ pc[t] = "stamp_bits" /\ db' = stamp_field_bits(db, field_bits)
          /\ stored_field_bits(db) \in {NULL, field_bits}
      BY <1>1, <2>3 DEF open_stamp_bits, Locked, EncodingInv, EncodingOK
    <3>2. db'.bits = field_bits /\ db'.entries = db.entries
      BY <2>1, <3>1, StampFields
    <3>3. Stored(db') = Stored(db)
      BY <3>2 DEF Stored
    <3>4. CASE Stored(db) = {}
      BY <3>3, <3>4 DEF Meaning
    <3>5. CASE Stored(db) # {}
      <4>1. stored_field_bits(db) # NULL
        BY <3>5, WordAssumption, ConstantAssumption DEF stored_field_bits
      <4>2. stored_field_bits(db) = field_bits /\ stored_field_bits(db') = field_bits
        BY <2>1, <3>1, <3>2, <3>3, <3>5, <4>1 DEF stored_field_bits
      <4> QED BY <3>2, <3>3, <4>2 DEF Meaning
    <3> QED BY <3>4, <3>5
  <2>4. CASE commit(t)
    <3>1. /\ Locked(t, "tx") /\ pc[t] = "tx" /\ db' = tx /\ db.bits = field_bits
          /\ EncodingOK(t) /\ call[t] \in Calls
      BY <1>1, <2>4 DEF commit, Locked, EncodingInv, EncodingOK, TablesInv, TypeOK
    <3>2. tx.bits = IF call[t].op = "change_field_bits" THEN call[t].arg ELSE field_bits
      BY <1>1, <3>1, ImageFacts DEF EncodingInv
    <3>3. call[t].op = "change_field_bits" /\ tx.bits = call[t].arg
      BY <3>1, <3>2
    <3>4. call[t].arg \in FieldBits
      BY <3>1 DEF Calls
    <3>5. /\ tx = Repacked(db, field_bits, call[t].arg)
          /\ ~ RepackRejected(db, field_bits, call[t].arg)
      BY <3>1, <3>3 DEF EncodingOK
    <3> QED BY <2>1, <3>1, <3>3, <3>4, <3>5, RepackedMeaning
  <2> QED BY <2>2, <2>3, <2>4
<1> QED BY <1>1, TablesInvariant, EncodingInvariance, PTL DEF Spec, RepackKeepsRecords

-----------------------------------------------------------------------------
(* The operators of RecordIndex, read through the mapping. *)

\* What is held at id i.
At(i, b, x) == <<record_of(i, b), slot_bits(i, b), x>>

LEMMA Read ==
  /\ \A i, x, b : Abstract!Entry(i, x, b) = At(i, b, x)
  /\ Abstract!FieldBits = FieldBits
  /\ \A r, b : Abstract!ValidRecord(r, b) <=> ValidUnder(r, b)
  /\ \A r : Abstract!Entries(r, options) =
       {<<r.record, r.fields[k].slot, r.fields[k].text>> : k \in LiveFields(r.fields)}
<1>1. \A i, x, b : Abstract!Entry(i, x, b) = At(i, b, x)
  BY DEF Abstract!Entry, Abstract!record_of, Abstract!slot_bits, Abstract!Shr, At,
         record_of, slot_bits, Shr
<1>2. Abstract!FieldBits = FieldBits
  BY DEF Abstract!FieldBits, Abstract!MaxFieldBits, FieldBits, MaxFieldBits
<1>3. \A r, b : Abstract!ValidRecord(r, b) <=> ValidUnder(r, b)
  BY DEF Abstract!ValidRecord, ValidUnder, SlotsValid, Abstract!max_record_id,
         Abstract!Shr, Abstract!MaxId, max_record_id, Shr, MaxId
<1>4. \A r : Abstract!Entries(r, options) =
        {<<r.record, r.fields[k].slot, r.fields[k].text>> : k \in LiveFields(r.fields)}
  BY DEF Abstract!Entries, LiveFields
<1> QED BY <1>1, <1>2, <1>3, <1>4

\* The record and the slot tell ids apart.
LEMMA KeysDiffer ==
  ASSUME NEW i \in Id, NEW j \in Id, NEW b \in FieldBits,
         record_of(i, b) = record_of(j, b), slot_bits(i, b) = slot_bits(j, b)
  PROVE  i = j
<1> DEFINE d == 2^b
<1>1. d \in Nat \ {0} /\ i \in Int /\ j \in Int
  BY PowerType, WordAssumption DEF Id, FieldBits, MaxFieldBits
<1>2. i \div d = j \div d /\ i % d = j % d
  BY DEF record_of, slot_bits, Shr
<1> HIDE DEF d
<1>3. i = d * (i \div d) + (i % d)
  BY <1>1, DivMod
<1>4. j = d * (j \div d) + (j % d)
  BY <1>1, DivMod
<1> QED BY <1>2, <1>3, <1>4

\* A list and its tail.
LEMMA HeadAndTail ==
  ASSUME NEW S, NEW list \in Seq(S), list # <<>>
  PROVE  /\ Head(list) = list[1] /\ Head(list) \in S /\ Tail(list) \in Seq(S)
         /\ DOMAIN list = 1 .. Len(list) /\ Len(list) \in Nat \ {0}
         /\ DOMAIN Tail(list) = 1 .. Len(list) - 1
         /\ \A n \in DOMAIN Tail(list) : Tail(list)[n] = list[n + 1]
OBVIOUS

\* What keys a list names, and where last, by those of its tail.
Last(key, N) == {n \in 1 .. N : \A m \in 1 .. N : m > n => key[m] # key[n]}

LEMMA LastAfterHead ==
  ASSUME NEW N \in Nat \ {0}, NEW f, NEW g, \A n \in 1 .. N - 1 : g[n] = f[n + 1]
  PROVE  /\ {f[n] : n \in 1 .. N} = {f[1]} \cup {g[n] : n \in 1 .. N - 1}
         /\ 1 \in Last(f, N) <=> f[1] \notin {g[n] : n \in 1 .. N - 1}
         /\ \A n \in Last(f, N) \ {1} : n - 1 \in Last(g, N - 1) /\ (n - 1) + 1 = n
         /\ \A n \in Last(g, N - 1) : n + 1 \in Last(f, N)
<1>1. /\ \A n \in 1 .. N : n = 1 \/ (n - 1 \in 1 .. N - 1 /\ (n - 1) + 1 = n)
      /\ \A n \in 1 .. N - 1 : n + 1 \in 1 .. N /\ n + 1 > 1
      /\ 1 \in 1 .. N
  OBVIOUS
<1>2. {f[n] : n \in 1 .. N} = {f[1]} \cup {g[n] : n \in 1 .. N - 1}
  <2>1. \A n \in 1 .. N : f[n] \in {f[1]} \cup {g[k] : k \in 1 .. N - 1}
    BY <1>1
  <2>2. \A n \in 1 .. N - 1 : g[n] \in {f[k] : k \in 1 .. N}
    BY <1>1
  <2> QED BY <1>1, <2>1, <2>2
<1>3. 1 \in Last(f, N) <=> f[1] \notin {g[n] : n \in 1 .. N - 1}
  <2>1. 1 \in Last(f, N) <=> \A m \in 1 .. N : m > 1 => f[m] # f[1]
    BY <1>1 DEF Last
  <2>2. ASSUME \A m \in 1 .. N : m > 1 => f[m] # f[1], NEW n \in 1 .. N - 1
        PROVE  g[n] # f[1]
    BY <1>1, <2>2
  <2>3. ASSUME \A n \in 1 .. N - 1 : g[n] # f[1], NEW m \in 1 .. N, m > 1
        PROVE  f[m] # f[1]
    <3>1. m - 1 \in 1 .. N - 1 /\ (m - 1) + 1 = m
      BY <2>3
    <3> QED BY <2>3, <3>1
  <2> QED BY <2>1, <2>2, <2>3
<1>4. ASSUME NEW n \in Last(f, N) \ {1}
      PROVE  n - 1 \in Last(g, N - 1) /\ (n - 1) + 1 = n
  <2>1. n \in 1 .. N /\ \A m \in 1 .. N : m > n => f[m] # f[n]
    BY DEF Last
  <2>2. n - 1 \in 1 .. N - 1 /\ (n - 1) + 1 = n /\ g[n - 1] = f[n]
    BY <1>1, <2>1
  <2>3. ASSUME NEW m \in 1 .. N - 1, m > n - 1 PROVE g[m] # g[n - 1]
    <3>1. m + 1 \in 1 .. N /\ m + 1 > n
      BY <2>1, <2>3
    <3> QED BY <2>1, <2>2, <3>1
  <2> QED BY <2>2, <2>3 DEF Last
<1>5. ASSUME NEW n \in Last(g, N - 1) PROVE n + 1 \in Last(f, N)
  <2>1. n \in 1 .. N - 1 /\ \A m \in 1 .. N - 1 : m > n => g[m] # g[n]
    BY DEF Last
  <2>2. ASSUME NEW m \in 1 .. N, m > n + 1 PROVE f[m] # f[n + 1]
    <3>1. m - 1 \in 1 .. N - 1 /\ m - 1 > n /\ (m - 1) + 1 = m
      BY <2>1, <2>2
    <3> QED BY <2>1, <3>1
  <2> QED BY <2>1, <2>2 DEF Last
<1> QED BY <1>2, <1>3, <1>4, <1>5

\* The head of index_batch's list applied first, and then the rest.
LEMMA ItemsInOrder ==
  ASSUME NEW R, NEW items \in Seq(Items), items # <<>>, NEW b \in FieldBits
  PROVE  LET h == Head(items)
             Q == Abstract!WithoutIds(R, {h.id}, b) \cup {At(h.id, b, h.text)}
         IN  Abstract!ItemsIndexed(Q, Tail(items), b) = Abstract!ItemsIndexed(R, items, b)
<1> DEFINE h == Head(items)
           rest == Tail(items)
           at == At(h.id, b, h.text)
           Q == Abstract!WithoutIds(R, {h.id}, b) \cup {at}
           ids == {items[n].id : n \in DOMAIN items}
           others == {rest[n].id : n \in DOMAIN rest}
           new == {Abstract!Entry(items[n].id, items[n].text, b) : n \in Abstract!LastOfId(items)}
           newer == {Abstract!Entry(rest[n].id, rest[n].text, b) : n \in Abstract!LastOfId(rest)}
           first == IF h.id \in others THEN {} ELSE {at}
<1>1. /\ h = items[1] /\ h \in Items /\ rest \in Seq(Items)
      /\ DOMAIN items = 1 .. Len(items) /\ Len(items) \in Nat \ {0}
      /\ DOMAIN rest = 1 .. Len(items) - 1
      /\ \A n \in DOMAIN rest : rest[n] = items[n + 1]
  BY HeadAndTail
<1> HIDE DEF h, rest
<1>2. h.id \in Id /\ others \subseteq Id
  <2>1. \A i \in Items : i.id \in Id
    BY DEF Items
  <2>2. \A n \in DOMAIN rest : rest[n] \in Items
    BY <1>1
  <2> QED BY <1>1, <2>1, <2>2
<1> DEFINE N == Len(items)
           f == [n \in 1 .. N |-> items[n].id]
           g == [n \in 1 .. N - 1 |-> rest[n].id]
<1>3. \A n \in 1 .. N - 1 : g[n] = f[n + 1] /\ rest[n] = items[n + 1]
  <2>1. \A n \in 1 .. N - 1 : n + 1 \in 1 .. N
    BY <1>1
  <2> QED BY <1>1, <2>1
<1>4. /\ ids = {f[n] : n \in 1 .. N} /\ others = {g[n] : n \in 1 .. N - 1} /\ h.id = f[1]
      /\ Abstract!LastOfId(items) = Last(f, N) /\ Abstract!LastOfId(rest) = Last(g, N - 1)
  <2>1. ids = {f[n] : n \in 1 .. N} /\ others = {g[n] : n \in 1 .. N - 1} /\ h.id = f[1]
    BY <1>1
  <2>2. Abstract!LastOfId(items) = Last(f, N)
    BY <1>1 DEF Abstract!LastOfId, Last
  <2>3. Abstract!LastOfId(rest) = Last(g, N - 1)
    BY <1>1 DEF Abstract!LastOfId, Last
  <2> QED BY <2>1, <2>2, <2>3
<1> HIDE DEF f, g
<1>5. /\ ids = {h.id} \cup others
      /\ 1 \in Abstract!LastOfId(items) <=> h.id \notin others
      /\ \A n \in Abstract!LastOfId(items) \ {1} :
           n - 1 \in Abstract!LastOfId(rest) /\ (n - 1) + 1 = n
      /\ \A n \in Abstract!LastOfId(rest) : n + 1 \in Abstract!LastOfId(items)
  <2>1. N \in Nat \ {0} /\ \A n \in 1 .. N - 1 : g[n] = f[n + 1]
    BY <1>1, <1>3
  <2> HIDE DEF N
  <2>2. /\ {f[n] : n \in 1 .. N} = {f[1]} \cup {g[n] : n \in 1 .. N - 1}
        /\ 1 \in Last(f, N) <=> f[1] \notin {g[n] : n \in 1 .. N - 1}
        /\ \A n \in Last(f, N) \ {1} : n - 1 \in Last(g, N - 1) /\ (n - 1) + 1 = n
        /\ \A n \in Last(g, N - 1) : n + 1 \in Last(f, N)
    BY <2>1, LastAfterHead
  <2> HIDE DEF ids, others
  <2> QED BY <1>4, <2>2 DEF N
<1>6. \A n \in Abstract!LastOfId(rest) : rest[n] = items[n + 1]
  BY <1>3, <1>4 DEF Last
<1>7. at = Abstract!Entry(items[1].id, items[1].text, b)
  BY <1>1, Read
<1>8. new = newer \cup first
  <2> DEFINE e(n) == Abstract!Entry(items[n].id, items[n].text, b)
             k(n) == Abstract!Entry(rest[n].id, rest[n].text, b)
  <2>1. \A n \in Abstract!LastOfId(rest) : k(n) = e(n + 1)
    BY <1>6
  <2>2. at = e(1)
    BY <1>7
  <2> HIDE DEF e, k, at
  <2>3. {e(n) : n \in Abstract!LastOfId(items)} =
          {k(n) : n \in Abstract!LastOfId(rest)} \cup first
    BY <1>5, <2>1, <2>2
  <2> QED BY <2>3 DEF e, k
<1>9. \A id \in others : at = Abstract!Entry(id, at[3], b) => id = h.id
  <2>1. at[3] = h.text
    BY DEF At
  <2> SUFFICES ASSUME NEW id \in others, at = Abstract!Entry(id, h.text, b) PROVE id = h.id
    BY <2>1
  <2>2. At(h.id, b, h.text) = At(id, b, h.text)
    BY Read
  <2>3. record_of(h.id, b) = record_of(id, b) /\ slot_bits(h.id, b) = slot_bits(id, b)
    BY <2>2 DEF At
  <2> QED BY <1>2, <2>3, KeysDiffer
<1>10. at = Abstract!Entry(h.id, at[3], b)
  BY Read DEF At
<1> HIDE DEF at
<1>11. Abstract!WithoutIds(Q, others, b) = Abstract!WithoutIds(R, ids, b) \cup first
  BY <1>5, <1>9, <1>10 DEF Abstract!WithoutIds
<1>12. Abstract!ItemsIndexed(Q, rest, b) = Abstract!ItemsIndexed(R, items, b)
  BY <1>8, <1>11 DEF Abstract!ItemsIndexed
<1> QED BY <1>12 DEF h, rest, at

\* The same of remove_batch's list.
LEMMA RemovalsInOrder ==
  ASSUME NEW R, NEW list \in Seq(Removals), list # <<>>, NEW b
  PROVE  Abstract!IdsRemoved(Abstract!WithoutIds(R, {Head(list).id}, b), Tail(list), b)
           = Abstract!IdsRemoved(R, list, b)
<1> DEFINE h == Head(list)
           rest == Tail(list)
           ids == {list[n].id : n \in DOMAIN list}
           others == {rest[n].id : n \in DOMAIN rest}
<1>1. /\ h = list[1] /\ DOMAIN list = 1 .. Len(list) /\ Len(list) \in Nat \ {0}
      /\ DOMAIN rest = 1 .. Len(list) - 1 /\ \A n \in DOMAIN rest : rest[n] = list[n + 1]
  BY HeadAndTail
<1> HIDE DEF h, rest
<1> DEFINE N == Len(list)
           f == [n \in 1 .. N |-> list[n].id]
           g == [n \in 1 .. N - 1 |-> rest[n].id]
<1>2. ids = {f[n] : n \in 1 .. N} /\ others = {g[n] : n \in 1 .. N - 1} /\ h.id = f[1]
  BY <1>1
<1>3. N \in Nat \ {0} /\ \A n \in 1 .. N - 1 : g[n] = f[n + 1]
  BY <1>1
<1> HIDE DEF f, g, N
<1>4. /\ {f[n] : n \in 1 .. N} = {f[1]} \cup {g[n] : n \in 1 .. N - 1}
      /\ 1 \in Last(f, N) <=> f[1] \notin {g[n] : n \in 1 .. N - 1}
      /\ \A n \in Last(f, N) \ {1} : n - 1 \in Last(g, N - 1) /\ (n - 1) + 1 = n
      /\ \A n \in Last(g, N - 1) : n + 1 \in Last(f, N)
  BY <1>3, LastAfterHead
<1>5. ids = {h.id} \cup others
  BY <1>2, <1>4
<1> HIDE DEF ids, others
<1>6. Abstract!WithoutIds(Abstract!WithoutIds(R, {h.id}, b), others, b) = Abstract!WithoutIds(R, ids, b)
  BY <1>5 DEF Abstract!WithoutIds
<1> QED BY <1>6 DEF Abstract!IdsRemoved, h, rest, ids, others

\* The same of the list of index_record and index_records_batch.
LEMMA RecordsInOrder ==
  ASSUME NEW R, NEW list \in Seq(Records), list # <<>>, NEW p
  PROVE  LET h == Head(list)
             Q == Abstract!WithoutRecords(R, {h.record}) \cup Abstract!Entries(h, p)
         IN  Abstract!RecordsIndexed(Q, Tail(list), p) = Abstract!RecordsIndexed(R, list, p)
<1> DEFINE h == Head(list)
           rest == Tail(list)
           Q == Abstract!WithoutRecords(R, {h.record}) \cup Abstract!Entries(h, p)
           rs == {list[n].record : n \in DOMAIN list}
           others == {rest[n].record : n \in DOMAIN rest}
           e(n) == Abstract!Entries(list[n], p)
           k(n) == Abstract!Entries(rest[n], p)
           first == IF h.record \in others THEN {} ELSE Abstract!Entries(h, p)
<1>1. /\ h = list[1] /\ DOMAIN list = 1 .. Len(list) /\ Len(list) \in Nat \ {0}
      /\ DOMAIN rest = 1 .. Len(list) - 1 /\ \A n \in DOMAIN rest : rest[n] = list[n + 1]
  BY HeadAndTail
<1> HIDE DEF h, rest
<1> DEFINE N == Len(list)
           f == [n \in 1 .. N |-> list[n].record]
           g == [n \in 1 .. N - 1 |-> rest[n].record]
<1>2. /\ rs = {f[n] : n \in 1 .. N} /\ others = {g[n] : n \in 1 .. N - 1} /\ h.record = f[1]
      /\ Abstract!LastOfRecord(list) = Last(f, N)
      /\ Abstract!LastOfRecord(rest) = Last(g, N - 1)
  <2>1. rs = {f[n] : n \in 1 .. N} /\ others = {g[n] : n \in 1 .. N - 1} /\ h.record = f[1]
    BY <1>1
  <2>2. Abstract!LastOfRecord(list) = Last(f, N)
    BY <1>1 DEF Abstract!LastOfRecord, Last
  <2>3. Abstract!LastOfRecord(rest) = Last(g, N - 1)
    BY <1>1 DEF Abstract!LastOfRecord, Last
  <2> QED BY <2>1, <2>2, <2>3
<1>3. N \in Nat \ {0} /\ \A n \in 1 .. N - 1 : g[n] = f[n + 1] /\ rest[n] = list[n + 1]
  BY <1>1
<1> HIDE DEF f, g, N
<1>4. /\ {f[n] : n \in 1 .. N} = {f[1]} \cup {g[n] : n \in 1 .. N - 1}
      /\ 1 \in Last(f, N) <=> f[1] \notin {g[n] : n \in 1 .. N - 1}
      /\ \A n \in Last(f, N) \ {1} : n - 1 \in Last(g, N - 1) /\ (n - 1) + 1 = n
      /\ \A n \in Last(g, N - 1) : n + 1 \in Last(f, N)
  BY <1>3, LastAfterHead
<1> HIDE DEF rs, others
<1>5. /\ rs = {h.record} \cup others
      /\ 1 \in Last(f, N) <=> h.record \notin others
  BY <1>2, <1>4
<1>6. \A n \in Last(g, N - 1) : k(n) = e(n + 1)
  BY <1>3 DEF Last
<1>7. Abstract!Entries(h, p) = e(1)
  BY <1>1
<1> HIDE DEF e, k
<1> DEFINE new == UNION {e(n) : n \in Last(f, N)}
           newer == UNION {k(n) : n \in Last(g, N - 1)}
<1>8. new = newer \cup first
  <2>1. CASE h.record \in others
    <3>1. {e(n) : n \in Last(f, N)} = {k(n) : n \in Last(g, N - 1)}
      BY <1>4, <1>5, <1>6, <2>1
    <3> QED BY <2>1, <3>1
  <2>2. CASE h.record \notin others
    <3>1. {e(n) : n \in Last(f, N)} = {e(1)} \cup {k(n) : n \in Last(g, N - 1)}
      BY <1>4, <1>5, <1>6, <2>2
    <3>2. UNION ({e(1)} \cup {k(n) : n \in Last(g, N - 1)}) = e(1) \cup newer
      OBVIOUS
    <3>3. new = e(1) \cup newer
      BY <3>1, <3>2
    <3> HIDE DEF new, newer
    <3> QED BY <1>7, <2>2, <3>3
  <2> QED BY <2>1, <2>2
<1>9. \A x \in Abstract!Entries(h, p) : x[1] = h.record
  BY DEF Abstract!Entries
<1>10. Abstract!WithoutRecords(Q, others) = Abstract!WithoutRecords(R, rs) \cup first
  BY <1>5, <1>9 DEF Abstract!WithoutRecords
<1>11. /\ Abstract!RecordsIndexed(Q, rest, p) = Abstract!WithoutRecords(Q, others) \cup newer
       /\ Abstract!RecordsIndexed(R, list, p) = Abstract!WithoutRecords(R, rs) \cup new
  BY <1>2 DEF Abstract!RecordsIndexed, rs, others, e, k
<1> HIDE DEF new, newer, first, Q
<1>12. Abstract!RecordsIndexed(Q, rest, p) = Abstract!RecordsIndexed(R, list, p)
  BY <1>8, <1>10, <1>11
<1> QED BY <1>12 DEF h, rest, Q

\* Nothing left to apply.
LEMMA NothingLeft ==
  ASSUME NEW R, NEW b, NEW p
  PROVE  /\ Abstract!ItemsIndexed(R, <<>>, b) = R
         /\ Abstract!IdsRemoved(R, <<>>, b) = R
         /\ Abstract!RecordsIndexed(R, <<>>, p) = R
<1>1. DOMAIN <<>> = {}
  OBVIOUS
<1>2. Abstract!ItemsIndexed(R, <<>>, b) = R
  BY <1>1 DEF Abstract!ItemsIndexed, Abstract!WithoutIds, Abstract!LastOfId
<1>3. Abstract!IdsRemoved(R, <<>>, b) = R
  BY <1>1 DEF Abstract!IdsRemoved, Abstract!WithoutIds
<1>4. Abstract!RecordsIndexed(R, <<>>, p) = R
  BY <1>1 DEF Abstract!RecordsIndexed, Abstract!WithoutRecords, Abstract!LastOfRecord
<1> QED BY <1>2, <1>3, <1>4

-----------------------------------------------------------------------------
(* What the images hold. *)

LEMMA ClearedEntries ==
  ASSUME NEW d \in Files, NEW S \in SUBSET Id
  PROVE  /\ clear_ids(d, S) \in Files
         /\ \A i \in Id : clear_ids(d, S).entries[i] = IF i \in S THEN NULL ELSE d.entries[i]
<1> DEFINE e == DeleteDocs(d, S)
           k == DeleteEntries(e, S)
           g == Completed(k, S)
<1>1. e \in Files /\ e.entries = d.entries
  BY DeleteDocsFacts
<1> HIDE DEF e
<1>2. k \in Files /\ \A i \in Id : k.entries[i] = IF i \in S THEN NULL ELSE e.entries[i]
  BY <1>1, DeleteEntriesFacts
<1> HIDE DEF k
<1>3. g \in Files /\ g.entries = k.entries
  BY <1>2, TornFacts
<1> HIDE DEF g
<1>4. g = clear_ids(d, S)
  BY DEF clear_ids, g, k, e
<1> QED BY <1>1, <1>2, <1>3, <1>4

LEMMA WrittenEntries ==
  ASSUME NEW d \in Files, NEW D \in SUBSET Id, NEW f \in [D -> Rows]
  PROVE  /\ Completed(WriteRows(d, f), D) \in Files
         /\ \A i \in Id : Completed(WriteRows(d, f), D).entries[i]
                            = IF i \in D THEN f[i] ELSE d.entries[i]
<1> DEFINE e == InsertDocs(d, f)
           k == ReplaceEntries(e, f)
           g == Completed(k, D)
<1>1. e \in Files /\ e.entries = d.entries
  BY InsertDocsFacts
<1> HIDE DEF e
<1>2. k \in Files /\ \A i \in Id : k.entries[i] = IF i \in D THEN f[i] ELSE e.entries[i]
  <2>1. e \in Files
    BY <1>1
  <2> QED BY <2>1, ReplaceEntriesFacts
<1> HIDE DEF k
<1>3. g \in Files /\ g.entries = k.entries
  BY <1>2, TornFacts
<1> HIDE DEF g
<1>4. g = Completed(WriteRows(d, f), D)
  BY DEF WriteRows, g, k, e
<1> QED BY <1>1, <1>2, <1>3, <1>4

\* What is held but for the ids of S, and what an image holds there.
Kept(H, S, b) == {x \in H : \A i \in S : x # At(i, b, x[3])}

Put(e, S, b) == {At(i, b, e.entries[i].raw) : i \in S \cap Stored(e)}

\* What an image holds after a change at the ids of S.
LEMMA HeldSplit ==
  ASSUME NEW d \in Files, NEW e \in Files, NEW S \in SUBSET Id, NEW b \in FieldBits,
         \A i \in Id \ S : e.entries[i] = d.entries[i]
  PROVE  Held(e, b) = Kept(Held(d, b), S, b) \cup Put(e, S, b)
<1> DEFINE before(i) == At(i, b, d.entries[i].raw)
           after(i) == At(i, b, e.entries[i].raw)
<1>1. Held(d, b) = {before(i) : i \in Stored(d)} /\ Held(e, b) = {after(i) : i \in Stored(e)}
  BY DEF Held, At
<1>2. \A i \in Id \ S : after(i) = before(i) /\ (i \in Stored(e) <=> i \in Stored(d))
  BY DEF Stored
<1>3. \A i \in Id, j \in Id : before(i) = At(j, b, before(i)[3]) => i = j
  <2> SUFFICES ASSUME NEW i \in Id, NEW j \in Id, before(i) = At(j, b, before(i)[3])
               PROVE  i = j
    OBVIOUS
  <2>1. record_of(i, b) = record_of(j, b) /\ slot_bits(i, b) = slot_bits(j, b)
    BY DEF At
  <2> QED BY <2>1, KeysDiffer
<1>4. \A i \in Id : before(i) = At(i, b, before(i)[3])
  BY DEF At
<1>5. Stored(d) \subseteq Id /\ Stored(e) \subseteq Id
  BY DEF Stored
<1>6. ASSUME NEW i \in Stored(e)
      PROVE  \/ i \in S /\ after(i) \in {after(j) : j \in S \cap Stored(e)}
             \/ after(i) \in Held(d, b) /\ \A j \in S : after(i) # At(j, b, after(i)[3])
  <2>1. CASE i \in S
    BY <2>1
  <2>2. CASE i \notin S
    <3>1. i \in Stored(d) /\ after(i) = before(i)
      BY <1>2, <1>5, <2>2
    <3> HIDE DEF before, after
    <3> QED BY <1>1, <1>3, <1>5, <2>2, <3>1
  <2> QED BY <2>1, <2>2
<1>7. ASSUME NEW i \in Stored(d), \A j \in S : before(i) # At(j, b, before(i)[3])
      PROVE  before(i) \in Held(e, b)
  <2>1. i \notin S
    BY <1>4, <1>5, <1>7
  <2> HIDE DEF before, after
  <2> QED BY <1>1, <1>2, <1>5, <2>1
<1> HIDE DEF before
<1>8. ASSUME NEW x \in Held(e, b)
      PROVE  x \in {y \in Held(d, b) : \A i \in S : y # At(i, b, y[3])}
                     \cup {after(i) : i \in S \cap Stored(e)}
  <2>1. PICK i \in Stored(e) : x = after(i)
    BY <1>1
  <2> HIDE DEF after
  <2> QED BY <1>6, <2>1
<1>9. ASSUME NEW x \in Held(d, b), \A i \in S : x # At(i, b, x[3])
      PROVE  x \in Held(e, b)
  <2>1. PICK i \in Stored(d) : x = before(i)
    BY <1>1
  <2> QED BY <1>7, <1>9, <2>1
<1>10. \A i \in S \cap Stored(e) : after(i) \in Held(e, b)
  BY <1>1
<1> QED BY <1>8, <1>9, <1>10 DEF Kept, Put

\* The entries of some ids are those that WithoutIds takes out.
LEMMA WithoutIdsHeld ==
  ASSUME NEW H, NEW S, NEW b
  PROVE  Kept(H, S, b) = Abstract!WithoutIds(H, S, b)
BY Read DEF Abstract!WithoutIds, Kept

LEMMA PutDocumentHeld ==
  ASSUME NEW d \in Files, options \in Profiles, NEW id \in Id, NEW x \in Texts,
         NEW b \in FieldBits
  PROVE  Held(PutDocument(d, id, x), b)
           = Abstract!WithoutIds(Held(d, b), {id}, b) \cup {At(id, b, x)}
<1> DEFINE D == {id}
           row == [i \in D |-> Row(options, x)]
           e == DeleteDocs(d, D)
           k == Completed(WriteRows(e, row), D)
<1>1. row \in [D -> Rows] /\ D \in SUBSET Id /\ row[id] = Row(options, x)
  BY RowFacts
<1>2. e \in Files /\ e.entries = d.entries
  BY DeleteDocsFacts
<1> HIDE DEF row, e
<1>3. k \in Files /\ \A i \in Id : k.entries[i] = IF i \in D THEN row[i] ELSE e.entries[i]
  <2> HIDE DEF D
  <2> QED BY <1>1, <1>2, WrittenEntries
<1>4. k = PutDocument(d, id, x)
  BY DEF PutDocument, k, e, row, D
<1> HIDE DEF k
<1>5. /\ \A i \in Id \ D : k.entries[i] = d.entries[i]
      /\ k.entries[id] = Row(options, x) /\ Row(options, x) # NULL /\ Row(options, x).raw = x
  <2>1. Row(options, x) \in Rows /\ Row(options, x).raw = x
    BY RowFacts DEF Row
  <2> QED BY <1>1, <1>2, <1>3, <2>1, ConstantAssumption
<1>6. Held(k, b) = Kept(Held(d, b), D, b) \cup Put(k, D, b)
  <2>1. b \in FieldBits /\ D \in SUBSET Id /\ \A i \in Id \ D : k.entries[i] = d.entries[i]
    BY <1>1, <1>5
  <2> HIDE DEF D
  <2> QED BY <1>3, <2>1, HeldSplit
<1>7. Put(k, D, b) = {At(id, b, x)}
  BY <1>5 DEF Put, Stored
<1>8. Kept(Held(d, b), D, b) = Abstract!WithoutIds(Held(d, b), D, b)
  BY WithoutIdsHeld
<1> QED BY <1>4, <1>6, <1>7, <1>8

\* Removing rows from entries, in whatever way, leaves what is held elsewhere.
LEMMA RemovedHeld ==
  ASSUME NEW d \in Files, NEW e \in Files, NEW S \in SUBSET Id, NEW b \in FieldBits,
         \A i \in Id : e.entries[i] = IF i \in S THEN NULL ELSE d.entries[i]
  PROVE  Held(e, b) = Abstract!WithoutIds(Held(d, b), S, b)
<1>1. b \in FieldBits /\ \A i \in Id \ S : e.entries[i] = d.entries[i]
  OBVIOUS
<1>2. Held(e, b) = Kept(Held(d, b), S, b) \cup Put(e, S, b)
  BY <1>1, HeldSplit
<1>3. Put(e, S, b) = {}
  BY DEF Put, Stored
<1> QED BY <1>2, <1>3, WithoutIdsHeld

\* The ids of a record's range are those that WithoutRecords takes out.
LEMMA WithoutRange ==
  ASSUME NEW d, NEW b \in FieldBits, NEW r \in 0 .. max_record_id(b),
         NEW S, S = (range_lo(r, b) .. range_hi(range_lo(r, b), b)) \cap Id
  PROVE  Kept(Held(d, b), S, b) = Abstract!WithoutRecords(Held(d, b), {r})
<1>1. \A i \in Id : i \in S <=> record_of(i, b) = r
  BY RangeIsTheRecord
<1>2. S \subseteq Id
  OBVIOUS
<1>3. ASSUME NEW x \in Held(d, b)
      PROVE  (\A i \in S : x # At(i, b, x[3])) <=> x[1] # r
  <2>1. PICK j \in Stored(d) : x = At(j, b, d.entries[j].raw)
    BY DEF Held, At
  <2>2. j \in Id /\ x[1] = record_of(j, b) /\ x = At(j, b, x[3])
    BY <2>1 DEF Stored, At
  <2>3. \A i \in S : x = At(i, b, x[3]) => x[1] = record_of(i, b)
    BY DEF At
  <2> QED BY <1>1, <1>2, <2>2, <2>3
<1> QED BY <1>3 DEF Abstract!WithoutRecords, Kept

\* reindex and open's rebuild keep every text.
LEMMA ReindexedHeld ==
  ASSUME NEW d \in Files, options \in Profiles, NEW b
  PROVE  Held(Reindexed(d), b) = Held(d, b)
<1> DEFINE D == {j \in Stored(d) : d.entries[j].raw # NULL}
           rows == [i \in D |-> Row(options, d.entries[i].raw)]
           e == Completed(WriteRows(d, rows), D)
<1>1. ASSUME NEW i \in D
      PROVE  rows[i] \in Rows /\ rows[i].raw = d.entries[i].raw
  <2>1. d.entries[i] \in Rows
    BY DEF Stored, Files
  <2>2. d.entries[i].raw \in Texts
    BY <2>1 DEF Rows
  <2> QED BY <2>2, RowFacts DEF Row
<1>2. /\ D \in SUBSET Id /\ rows \in [D -> Rows] /\ DOMAIN rows = D
      /\ \A i \in D : rows[i].raw = d.entries[i].raw /\ d.entries[i] # NULL
  BY <1>1 DEF Stored
<1> HIDE DEF rows, D
<1>3. e \in Files /\ \A i \in Id : e.entries[i] = IF i \in D THEN rows[i] ELSE d.entries[i]
  BY <1>2, WrittenEntries
<1>4. Reindexed(d) = stamp_profile(e, options)
  BY <1>2 DEF Reindexed, rows, D
<1> HIDE DEF e
<1>5. Reindexed(d).entries = e.entries
  BY <1>3, <1>4, StampFields
<1>6. \A i \in D : rows[i] # NULL
  BY <1>2, ConstantAssumption
<1>7. \A i \in Id : /\ e.entries[i] # NULL <=> d.entries[i] # NULL
                    /\ d.entries[i] # NULL => e.entries[i].raw = d.entries[i].raw
  BY <1>2, <1>3, <1>6
<1> QED BY <1>5, <1>7 DEF Held, Stored

\* A record written again holds its fields and no other ones.
LEMMA RecordHeld ==
  ASSUME NEW d \in Files, options \in Profiles, NEW b \in FieldBits,
         NEW r \in Records, ValidUnder(r, b), NEW lo, lo = range_lo(r.record, b),
         NEW S, S = (lo .. range_hi(lo, b)) \cap Id
  PROVE  Held(InsertFields(clear_ids(d, S), r.fields, lo), b)
           = Abstract!WithoutRecords(Held(d, b), {r.record}) \cup Abstract!Entries(r, options)
<1> DEFINE fields == r.fields
           live == LiveFields(fields)
           id(k) == BitOr(lo, fields[k].slot)
           at(i) == {k \in live : id(k) = i}
           D == {j \in Id : at(j) # {}}
           rows == [i \in D |-> Row(options, fields[CHOOSE k \in at(i) : TRUE].text)]
           c == clear_ids(d, S)
           e == Completed(WriteRows(c, rows), D)
<1>1. /\ r.record \in 0 .. max_record_id(b) /\ fields \in Seq(Fields) /\ r.record \in Int
      /\ \A k \in DOMAIN fields : fields[k].slot < 2^b
      /\ \A j, k \in DOMAIN fields : j # k => fields[j].slot # fields[k].slot
  BY DEF ValidUnder, SlotsValid, Records
<1>2. live \subseteq DOMAIN fields
  BY DEF LiveFields
<1>3. ASSUME NEW k \in live
      PROVE  /\ id(k) \in Id /\ record_of(id(k), b) = r.record
             /\ slot_bits(id(k), b) = fields[k].slot /\ fields[k].text \in Texts
  <2>1. fields[k] \in Fields /\ k \in DOMAIN fields
    BY <1>1, <1>2
  <2>2. fields[k].slot \in Nat /\ fields[k].text \in Texts /\ fields[k].slot < 2^b
    BY <1>1, <2>1 DEF Fields
  <2>3. 2^b \in Nat
    BY PowerType, WordAssumption DEF FieldBits, MaxFieldBits
  <2>4. fields[k].slot \in 0 .. 2^b - 1
    BY <2>2, <2>3
  <2>5. pack(r.record, fields[k].slot, b) = id(k)
    BY DEF pack, range_lo
  <2>6. id(k) \in 0 .. MaxId /\ record_of(id(k), b) = r.record
          /\ slot_bits(id(k), b) = fields[k].slot
    BY <1>1, <2>4, <2>5, PackedComesBack
  <2>7. 0 .. MaxId \subseteq Id
    BY PowerType, WordAssumption DEF Id, MaxId
  <2> QED BY <2>2, <2>6, <2>7
<1>4. \A j, k \in live : id(j) = id(k) => j = k
  BY <1>1, <1>2, <1>3
<1>5. S \in SUBSET Id /\ \A i \in Id : i \in S <=> record_of(i, b) = r.record
  BY <1>1, RangeIsTheRecord
<1> HIDE DEF live, id
<1>6. ASSUME NEW k \in live
      PROVE  id(k) \in D /\ (CHOOSE j \in at(id(k)) : TRUE) = k
  <2>1. at(id(k)) = {k}
    BY <1>4
  <2> QED BY <1>3, <2>1
<1>7. \A i \in D : \E k \in live : id(k) = i
  OBVIOUS
<1>8. \A k \in live : rows[id(k)] = Row(options, fields[k].text)
  BY <1>6
<1>9. /\ rows \in [D -> Rows] /\ DOMAIN rows = D /\ D \in SUBSET Id
      /\ \A k \in live : rows[id(k)].raw = fields[k].text
  <2>1. \A k \in live : /\ Row(options, fields[k].text) \in Rows
                        /\ Row(options, fields[k].text).raw = fields[k].text
    BY <1>3, RowFacts DEF Row
  <2>2. DOMAIN rows = D /\ rows = [i \in D |-> rows[i]]
    OBVIOUS
  <2> HIDE DEF rows
  <2>3. \A i \in D : rows[i] \in Rows
    BY <1>7, <1>8, <2>1
  <2> QED BY <1>8, <2>1, <2>2, <2>3
<1>10. InsertFields(c, fields, lo) = e
  BY <1>9 DEF InsertFields, rows, live, id
<1>11. c \in Files /\ \A i \in Id : c.entries[i] = IF i \in S THEN NULL ELSE d.entries[i]
  BY <1>5, ClearedEntries
<1>12. D \subseteq S
  BY <1>3, <1>5, <1>7
<1> HIDE DEF rows, D, c
<1>13. e \in Files /\ \A i \in Id : e.entries[i] = IF i \in D THEN rows[i] ELSE c.entries[i]
  BY <1>9, <1>11, WrittenEntries
<1> HIDE DEF e
<1>14. \A i \in Id \ S : e.entries[i] = d.entries[i]
  BY <1>11, <1>12, <1>13
<1>15. S \cap Stored(e) = D
  BY <1>5, <1>9, <1>11, <1>12, <1>13, ConstantAssumption DEF Stored
<1>16. Held(e, b) = Kept(Held(d, b), S, b) \cup Put(e, S, b)
  BY <1>5, <1>13, <1>14, HeldSplit
<1>17. Put(e, S, b) = Abstract!Entries(r, options)
  <2> DEFINE was(k) == <<r.record, fields[k].slot, fields[k].text>>
             now(i) == At(i, b, e.entries[i].raw)
  <2>1. Abstract!Entries(r, options) = {was(k) : k \in live}
    BY Read DEF live
  <2>2. \A k \in live : id(k) \in D /\ now(id(k)) = was(k)
    BY <1>3, <1>6, <1>9, <1>13 DEF At
  <2> HIDE DEF was, now
  <2>3. {now(i) : i \in D} = {was(k) : k \in live}
    BY <1>7, <2>2
  <2> QED BY <1>15, <2>1, <2>3 DEF now, Put
<1>18. Kept(Held(d, b), S, b) = Abstract!WithoutRecords(Held(d, b), {r.record})
  BY <1>1, WithoutRange
<1> QED BY <1>10, <1>16, <1>17, <1>18 DEF c

-----------------------------------------------------------------------------
(* EffectsInv: a step of one thread. *)

\* An idle thread has nothing to answer for.
LEMMA IdleEffects ==
  ASSUME NEW t \in Threads, pc'[t] = "idle", call'[t] = NoCall
  PROVE  EffectOK(t)'
<1>1. call'[t].op = "none"
  BY NoCallFacts
<1> QED BY <1>1 DEF EffectOK, AsAsked, AsEncoded, AsPromised

\* What a thread has done of its call depends on nothing that the others write
\* outside their locked sections.
LEMMA SameEffects ==
  ASSUME NEW u \in Threads, pc'[u] = pc[u], call'[u] = call[u],
         AsAsked(u), AsEncoded(u), AsPromised(u), field_bits' = field_bits,
         pc[u] = "tx" => UNCHANGED <<db, tx, options>>
  PROVE  AsAsked(u)' /\ AsEncoded(u)' /\ AsPromised(u)'
<1>1. AsAsked(u)'
  BY DEF AsAsked
<1>2. AsEncoded(u)'
  BY DEF AsEncoded
<1>3. AsPromised(u)'
  <2>1. pc[u] = "tx" => BitsInForce' = BitsInForce
    BY DEF BitsInForce
  <2> QED BY <2>1 DEF AsPromised, Held, Stored
<1> QED BY <1>1, <1>2, <1>3

\* A change_field_bits overtakes every call under way but the one that made it.
LEMMA EffectStep ==
  ASSUME TablesInv, EffectsInv, NEW t \in Threads,
         Request(t) \/ Step(t) \/ statement_fails(t), Overtaking,
         UNCHANGED <<db, tx, engine>> \/ lock \in {t, NULL}, EffectOK(t)'
  PROVE  \A u \in Threads : EffectOK(u)'
<1> SUFFICES ASSUME NEW u \in Threads \ {t} PROVE EffectOK(u)'
  OBVIOUS
<1>1. pc'[u] = pc[u] /\ call'[u] = call[u] /\ EffectOK(u) /\ CallStamps(u)
  BY OtherThreads DEF EffectsInv, EncodingInv, StampsInv
<1>2. CASE pc[u] = "idle"
  <2>1. call'[u].op = "none" /\ pc'[u] = "idle"
    BY <1>1, <1>2 DEF EffectOK
  <2> QED BY <2>1 DEF EffectOK, AsAsked, AsEncoded, AsPromised
<1>3. CASE pc[u] # "idle"
  <2>1. u \notin overtaken' => u \notin overtaken /\ field_bits' = field_bits
    BY <1>1, <1>3 DEF Overtaking
  <2>2. lock \in {t, NULL} => pc[u] # "tx" /\ call[u].op # "open"
    <3>1. lock \in {t, NULL} => pc[u] \notin LockedLabels
      BY HolderFacts
    <3>2. call[u].op = "open" => pc[u] \in LockedLabels
      BY <1>1 DEF CallStamps, LockedLabels
    <3> QED BY <3>1, <3>2 DEF LockedLabels
  <2>3. SUFFICES ASSUME u \notin overtaken' \/ call'[u].op = "open"
                 PROVE  AsAsked(u)' /\ AsEncoded(u)' /\ AsPromised(u)'
    BY <1>1, <1>3 DEF EffectOK
  <2>4. AsAsked(u) /\ AsEncoded(u) /\ AsPromised(u)
    BY <1>1, <2>1, <2>3 DEF EffectOK
  <2>5. field_bits' = field_bits /\ (pc[u] = "tx" => UNCHANGED <<db, tx, options>>)
    BY <1>1, <2>1, <2>2, <2>3 DEF engine
  <2> QED BY <1>1, <2>4, <2>5, SameEffects
<1> QED BY <1>2, <1>3

\* A call that returns.
LEMMA ReturnEffects ==
  ASSUME TablesInv, EffectsInv, NEW t \in Threads,
         Request(t) \/ Step(t) \/ statement_fails(t), Overtaking, Return(t),
         UNCHANGED <<db, tx, engine>> \/ lock \in {t, NULL}
  PROVE  \A u \in Threads : EffectOK(u)'
<1>1. pc'[t] = "idle" /\ call'[t] = NoCall
  BY DEF Return, Goto, TablesInv, TypeOK
<1> QED BY <1>1, IdleEffects, EffectStep

\* What the thread taking a step may assume of its call.
LEMMA OwnEffects ==
  ASSUME TablesInv, EffectsInv, NEW t \in Threads, Overtaking, pc[t] # "idle",
         pc'[t] # "idle", call'[t].op = call[t].op,
         t \notin overtaken' \/ call'[t].op = "open"
  PROVE  /\ AsAsked(t) /\ AsEncoded(t) /\ AsPromised(t)
         /\ call[t].op # "open" => field_bits' = field_bits
<1>1. EffectOK(t)
  BY DEF EffectsInv
<1>2. t \notin overtaken' => t \notin overtaken /\ field_bits' = field_bits
  BY DEF Overtaking
<1> QED BY <1>1, <1>2 DEF EffectOK

\* A new call.
LEMMA BeginEffects ==
  ASSUME TablesInv, EffectsInv, NEW t \in Threads, NEW c, NEW l \in {"lock", "max"},
         Begin(t, c, l), Overtaking, Request(t),
         c.op \in Ops \ {"none", "open"},
         c.op \in {"index", "remove"} => \E id \in DocIds : c.ids = {id},
         c.op = "remove_record" => \E r \in RecordIds : c.todo = OneRecord(r, <<>>),
         c.op = "index_batch" => c.todo \in ItemLists,
         c.op = "remove_batch" => c.todo \in IdLists,
         c.op \in {"index_record", "index_records_batch"} =>
           c.todo \in RecordArguments(c.op) /\ c.cap = field_bits,
         l = "lock" => c.op \notin {"index_record", "index_records_batch", "remove_record"}
  PROVE  \A u \in Threads : EffectOK(u)'
<1>1. pc'[t] = l /\ call'[t] = c /\ UNCHANGED <<db, tx, engine>>
  BY DEF Begin, Goto, TablesInv, TypeOK, engine
<1>2. AsAsked(t)'
  <2>1. ASSUME c.op = "index_record" PROVE Len(c.todo) <= 1
    <3>1. PICK r \in RecordIds, fs \in FieldLists : c.todo = OneRecord(r, fs)
      BY <2>1 DEF RecordArguments
    <3> QED BY <3>1 DEF OneRecord
  <2> QED BY <1>1, <2>1 DEF AsAsked, RecordArguments
<1>3. AsEncoded(t)'
  <2>1. field_bits' = field_bits
    BY <1>1 DEF engine
  <2> QED BY <1>1, <2>1 DEF AsEncoded
<1>4. AsPromised(t)'
  BY <1>1 DEF AsPromised
<1>5. EffectOK(t)'
  BY <1>1, <1>2, <1>3, <1>4 DEF EffectOK
<1> QED BY <1>1, <1>5, EffectStep

LEMMA RequestEffects ==
  ASSUME TablesInv, EffectsInv, NEW t \in Threads, Request(t), Overtaking
  PROVE  \A u \in Threads : EffectOK(u)'
<1>1. CASE index(t)
  BY <1>1, BeginEffects DEF index, NoCall, Ops
<1>2. CASE remove(t)
  BY <1>2, BeginEffects DEF remove, NoCall, Ops
<1>3. CASE index_batch(t)
  BY <1>3, BeginEffects DEF index_batch, NoCall, Ops
<1>4. CASE remove_batch(t)
  BY <1>4, BeginEffects DEF remove_batch, NoCall, Ops
<1>5. CASE remove_all(t)
  BY <1>5, BeginEffects DEF remove_all, NoCall, Ops
<1>6. CASE reindex(t)
  BY <1>6, BeginEffects DEF reindex, NoCall, Ops
<1>7. CASE change_field_bits(t)
  BY <1>7, BeginEffects DEF change_field_bits, NoCall, Ops
<1>8. CASE index_record(t)
  <2>1. PICK r \in RecordIds, fields \in FieldLists :
          Begin(t, [NoCall EXCEPT !.op = "index_record", !.cap = field_bits,
                                  !.todo = OneRecord(r, fields)], "max")
    BY <1>8 DEF index_record, OneRecord
  <2>2. OneRecord(r, fields) \in RecordArguments("index_record")
    BY DEF RecordArguments
  <2> QED BY <2>1, <2>2, BeginEffects DEF NoCall, Ops
<1>9. CASE index_records_batch(t)
  <2>1. PICK records \in RecordLists :
          Begin(t, [NoCall EXCEPT !.op = "index_records_batch", !.cap = field_bits,
                                  !.todo = records], "max")
    BY <1>9 DEF index_records_batch
  <2>2. records \in RecordArguments("index_records_batch")
    BY DEF RecordArguments
  <2> QED BY <2>1, <2>2, BeginEffects DEF NoCall, Ops
<1>10. CASE remove_record(t)
  <2>1. PICK r \in RecordIds :
          Begin(t, [NoCall EXCEPT !.op = "remove_record",
                                  !.todo = OneRecord(r, <<>>)], "max")
    BY <1>10 DEF remove_record, OneRecord
  <2> QED BY <2>1, BeginEffects DEF NoCall, Ops
<1>11. CASE contains_record(t)
  BY <1>11, BeginEffects DEF contains_record, NoCall, Ops
<1>12. CASE search_records(t)
  BY <1>12, BeginEffects DEF search_records, NoCall, Ops
<1>13. CASE match_count_records(t)
  BY <1>13, BeginEffects DEF match_count_records, NoCall, Ops
<1>14. CASE open(t)
  <2>1. lock = NULL /\ pc'[t] = "stamp_bits" /\ call'[t].op = "open"
    BY <1>14 DEF open, Goto, TablesInv, TypeOK, NoCall
  <2>2. EffectOK(t)'
    BY <2>1 DEF EffectOK, AsAsked, AsEncoded, AsPromised
  <2> QED BY <2>1, <2>2, EffectStep
<1> QED
  BY <1>1, <1>2, <1>3, <1>4, <1>5, <1>6, <1>7,
     <1>8, <1>9, <1>10, <1>11, <1>12, <1>13, <1>14
     DEF Request

\* A call that goes on.
LEMMA MoveEffects ==
  ASSUME TablesInv, EffectsInv, NEW t \in Threads, Step(t), Overtaking,
         pc[t] # "idle", pc'[t] # "idle", call'[t].op = call[t].op,
         UNCHANGED <<db, tx, engine>> \/ lock \in {t, NULL},
         /\ AsAsked(t) /\ AsEncoded(t) /\ AsPromised(t)
         /\ call[t].op # "open" => field_bits' = field_bits
         => AsAsked(t)' /\ AsEncoded(t)' /\ AsPromised(t)'
  PROVE  \A u \in Threads : EffectOK(u)'
<1>1. ASSUME t \notin overtaken' \/ call'[t].op = "open"
      PROVE  AsAsked(t)' /\ AsEncoded(t)' /\ AsPromised(t)'
  BY <1>1, OwnEffects
<1>2. EffectOK(t)'
  BY <1>1 DEF EffectOK
<1> QED BY <1>2, EffectStep

LEMMA LoadEffects ==
  ASSUME TablesInv, EffectsInv, NEW t \in Threads, Overtaking,
         load_max(t) \/ load_lo(t) \/ load_hi(t) \/ decode_hits(t) \/ return_hits(t)
  PROVE  \A u \in Threads : EffectOK(u)'
<1>1. call[t] \in Calls /\ pc \in [Threads -> Labels] /\ call \in [Threads -> Calls]
  BY DEF TablesInv, TypeOK
<1>2. Step(t) /\ UNCHANGED <<db, tx, engine>>
  BY DEF Step, load_max, load_lo, load_hi, decode_hits, return_hits
<1>3. CASE load_max(t)
  <2>1. CASE Return(t)
    BY <1>2, <2>1, ReturnEffects
  <2>2. CASE ~ Return(t)
    <3>1. /\ pc[t] = "max" /\ call' = call
          /\ \A k \in DOMAIN call[t].todo :
               /\ call[t].todo[k].record \in 0 .. max_record_id(field_bits)
               /\ SlotsValid(call[t].todo[k].fields, call[t].cap)
          /\ pc'[t] = IF call[t].op = "index_records_batch" THEN "lock" ELSE "lo"
      BY <1>1, <1>3, <2>2 DEF load_max, Goto
    <3>2. AsAsked(t) => AsAsked(t)'
      BY <3>1 DEF AsAsked
    <3>3. AsAsked(t) /\ AsEncoded(t) => AsEncoded(t)'
      <4> SUFFICES ASSUME AsAsked(t), AsEncoded(t) PROVE AsEncoded(t)'
        OBVIOUS
      <4>1. field_bits' = field_bits
        BY <1>2 DEF engine
      <4>2. call[t].op \in {"index_record", "index_records_batch", "remove_record"}
              => AllValid(call[t].todo, field_bits)
        <5>1. call[t].op \in {"index_record", "index_records_batch"}
                => AllValid(call[t].todo, field_bits)
          BY <3>1 DEF AsEncoded, AllValid, ValidUnder
        <5>2. ASSUME call[t].op = "remove_record" PROVE AllValid(call[t].todo, field_bits)
          <6>1. PICK r \in RecordIds : call[t].todo = OneRecord(r, <<>>)
            BY <5>2 DEF AsAsked
          <6>2. \A n \in DOMAIN OneRecord(r, <<>>) : OneRecord(r, <<>>)[n].fields = <<>>
            BY DEF OneRecord
          <6>3. SlotsValid(<<>>, field_bits)
            BY DEF SlotsValid
          <6> QED BY <3>1, <6>1, <6>2, <6>3 DEF AllValid, ValidUnder
        <5> QED BY <5>1, <5>2
      <4> QED BY <3>1, <4>1, <4>2 DEF AsEncoded
    <3>4. AsPromised(t)'
      BY <3>1 DEF AsPromised
    <3> QED BY <1>2, <3>1, <3>2, <3>3, <3>4, MoveEffects
  <2> QED BY <2>1, <2>2
<1>4. CASE load_lo(t)
  <2>1. /\ pc[t] = "lo" /\ pc'[t] = "hi" /\ field_bits' = field_bits
        /\ call'[t] = [call[t] EXCEPT !.lo = range_lo(call[t].todo[1].record, field_bits)]
    BY <1>1, <1>4, Zenon DEF load_lo, Goto, engine
  <2>2. /\ call'[t].op = call[t].op /\ call'[t].todo = call[t].todo
        /\ call'[t].ids = call[t].ids /\ call'[t].cap = call[t].cap
        /\ call'[t].lo = range_lo(call[t].todo[1].record, field_bits)
    BY <1>1, <2>1 DEF Calls
  <2>3. call[t].op \in RecordOps
    BY <2>1 DEF TablesInv, CallOK
  <2>4. AsAsked(t) => AsAsked(t)'
    BY <2>1, <2>2, <2>3 DEF AsAsked
  <2>5. AsEncoded(t) => AsEncoded(t)'
    BY <2>1, <2>2 DEF AsEncoded
  <2>6. AsPromised(t)'
    BY <2>1 DEF AsPromised
  <2> QED BY <1>2, <2>1, <2>2, <2>4, <2>5, <2>6, MoveEffects
<1>5. CASE load_hi(t)
  <2>1. /\ pc[t] = "hi" /\ pc'[t] = "lock" /\ field_bits' = field_bits
        /\ call'[t] = [call[t] EXCEPT !.ids =
                         (call[t].lo .. range_hi(call[t].lo, field_bits)) \cap Id]
    BY <1>1, <1>5, Zenon DEF load_hi, Goto, engine
  <2>2. /\ call'[t].op = call[t].op /\ call'[t].todo = call[t].todo
        /\ call'[t].lo = call[t].lo /\ call'[t].cap = call[t].cap
        /\ call'[t].ids = (call[t].lo .. range_hi(call[t].lo, field_bits)) \cap Id
    BY <1>1, <2>1 DEF Calls
  <2>3. AsAsked(t) => AsAsked(t)'
    BY <2>1, <2>2 DEF AsAsked, RecordOps
  <2>4. AsEncoded(t) => AsEncoded(t)'
    BY <2>1, <2>2 DEF AsEncoded
  <2>5. AsPromised(t)'
    BY <2>1 DEF AsPromised
  <2> QED BY <1>2, <2>1, <2>2, <2>3, <2>4, <2>5, MoveEffects
<1>6. CASE decode_hits(t)
  <2>1. PICK I, F : call' = [call EXCEPT ![t].ids = I, ![t].found = F]
    <3>1. PICK S \in SUBSET call[t].ids :
            call' = [call EXCEPT ![t].ids = @ \ S,
                                 ![t].found = @ \cup {record_of(i, field_bits) : i \in S}]
      BY <1>6, Zenon DEF decode_hits
    <3> QED BY <3>1, Zenon
  <2>2. /\ call'[t].op = call[t].op /\ call'[t].todo = call[t].todo
        /\ pc[t] = "decode" /\ pc'[t] = "decode"
    BY <1>1, <1>6, <2>1 DEF decode_hits, Calls
  <2>3. AsAsked(t) => AsAsked(t)' /\ AsEncoded(t)'
    <3> SUFFICES ASSUME AsAsked(t) PROVE AsAsked(t)' /\ AsEncoded(t)'
      OBVIOUS
    <3>1. call[t].op \in {"search_records", "match_count_records"}
      BY <2>2 DEF AsAsked
    <3> QED BY <2>2, <3>1 DEF AsAsked, AsEncoded
  <2>4. AsPromised(t)'
    BY <2>2 DEF AsPromised
  <2> QED BY <1>2, <2>2, <2>3, <2>4, MoveEffects
<1>7. CASE return_hits(t)
  BY <1>2, <1>7, ReturnEffects DEF return_hits
<1> QED BY <1>3, <1>4, <1>5, <1>6, <1>7

\* Taking the mutex: the image is the file and all of the call is left to apply.
LEMMA LockEffects ==
  ASSUME TablesInv, EffectsInv, NEW t \in Threads, Overtaking, locked_conn(t)
  PROVE  \A u \in Threads : EffectOK(u)'
<1> DEFINE op == call[t].op
           b == BitsInForce
<1>1. /\ pc[t] = "lock" /\ lock = NULL /\ pc'[t] = Section(op) /\ call' = call
      /\ UNCHANGED <<db, engine>> /\ field_bits' = field_bits /\ options' = options
      /\ tx' = IF Section(op) # "tx" THEN tx
               ELSE IF op = "remove_all" THEN clear_ids(db, Id) ELSE db
      /\ call[t] \in Calls /\ op \in Ops
  BY DEF TablesInv, TypeOK, locked_conn, Goto, engine, Calls
<1>2. Step(t) /\ Section(op) # "idle" /\ Section(op) \notin {"max", "lo", "hi"}
  BY DEF Step, Section
<1>3. ASSUME AsAsked(t) PROVE AsAsked(t)'
  <2>1. op # "none"
    BY <1>1, <1>3 DEF AsAsked
  <2>2. /\ Section(op) = "del_docs" => op \in {"index", "remove", "remove_record"}
        /\ Section(op) = "tx" => op \in TxOps
        /\ Section(op) \notin {"hi", "del_entries", "decode"}
        /\ Section(op) = "search" => op \in {"search_records", "match_count_records"}
    BY <1>1, <2>1 DEF Section, Ops, TxOps
  <2> HIDE DEF op
  <2> QED BY <1>1, <1>3, <2>2 DEF AsAsked, op
<1>4. ASSUME AsEncoded(t) PROVE AsEncoded(t)'
  BY <1>1, <1>2, <1>4 DEF AsEncoded
<1>5. ASSUME AsAsked(t), AsEncoded(t) PROVE AsPromised(t)'
  <2> SUFFICES ASSUME Section(op) = "tx" PROVE AsPromised(t)'
    BY <1>1 DEF AsPromised
  <2>1. tx' = IF op = "remove_all" THEN clear_ids(db, Id) ELSE db
    BY <1>1
  <2>2. BitsInForce' = b
    BY <1>1 DEF BitsInForce
  <2>3. /\ op = "index_batch" => call[t].todo \in ItemLists
        /\ op = "remove_batch" => call[t].todo \in IdLists
        /\ op \in {"index_record", "index_records_batch"} =>
             call[t].todo \in RecordArguments(op) /\ AllValid(call[t].todo, field_bits)
    BY <1>1, <1>5 DEF AsAsked, AsEncoded
  <2>4. ASSUME op = "remove_all" PROVE Held(tx', b) = {}
    <3>1. db \in Files /\ tx' = clear_ids(db, Id)
      BY <2>1, <2>4 DEF TablesInv, TypeOK
    <3>2. \A i \in Id : tx'.entries[i] = NULL
      BY <3>1, ClearedEntries
    <3> QED BY <3>2 DEF Held, Stored
  <2>5. op # "remove_all" => Held(tx', b) = Held(db, b)
    BY <2>1
  <2> QED BY <1>1, <2>2, <2>3, <2>4, <2>5 DEF AsPromised
<1> QED BY <1>1, <1>2, <1>3, <1>4, <1>5, MoveEffects

\* The steps of a locked section that leave the call as it is.
LEMMA SectionEffects ==
  ASSUME TablesInv, EffectsInv, NEW t \in Threads, Overtaking,
         \/ delete_docs(t) \/ insert_docs(t) \/ replace_entries(t) \/ delete_entries(t)
         \/ read_exists(t) \/ fetch_hits(t) \/ store_field_bits(t)
         \/ open_stamp_bits(t) \/ open_stamp_profile(t)
  PROVE  \A u \in Threads : EffectOK(u)'
<1>1. /\ call[t] \in Calls /\ call[t].op \in Ops
      /\ pc \in [Threads -> Labels] /\ call \in [Threads -> Calls]
  BY DEF TablesInv, TypeOK, Calls
<1>2. Step(t) /\ lock = t
  BY DEF Step, Locked, delete_docs, insert_docs, replace_entries, delete_entries,
         read_exists, fetch_hits, store_field_bits, open_stamp_bits, open_stamp_profile
<1>3. CASE replace_entries(t) \/ delete_entries(t) \/ read_exists(t)
             \/ store_field_bits(t) \/ open_stamp_profile(t)
  <2>1. Return(t)
    BY <1>3 DEF replace_entries, delete_entries, read_exists, store_field_bits,
                open_stamp_profile
  <2> QED BY <1>2, <2>1, ReturnEffects
<1>4. CASE delete_docs(t) \/ insert_docs(t) \/ open_stamp_bits(t)
  <2>1. /\ pc[t] \in {"del_docs", "ins_docs", "stamp_bits"} /\ call' = call
        /\ field_bits' = field_bits
        /\ pc'[t] \in {"ins_docs", "ins_entries", "del_entries", "reindex", "stamp_profile"}
        /\ pc'[t] = "del_entries" => call[t].op # "index" /\ pc[t] = "del_docs"
    BY <1>1, <1>4 DEF delete_docs, insert_docs, open_stamp_bits, Locked, Goto, engine
  <2>2. AsAsked(t) => AsAsked(t)'
    BY <2>1 DEF AsAsked
  <2>3. AsEncoded(t) => AsEncoded(t)'
    BY <2>1 DEF AsEncoded
  <2>4. AsPromised(t)'
    BY <2>1 DEF AsPromised
  <2> QED BY <1>2, <2>1, <2>2, <2>3, <2>4, MoveEffects
<1>5. CASE fetch_hits(t)
  <2>1. PICK I, R : call' = [call EXCEPT ![t].ids = I, ![t].owners = R]
    BY <1>5 DEF fetch_hits
  <2>2. /\ call'[t].op = call[t].op /\ call'[t].todo = call[t].todo
        /\ pc[t] = "search" /\ pc'[t] = "decode"
    BY <1>1, <1>5, <2>1 DEF fetch_hits, Locked, Goto, Calls
  <2>3. AsAsked(t) => AsAsked(t)' /\ AsEncoded(t)'
    <3> SUFFICES ASSUME AsAsked(t) PROVE AsAsked(t)' /\ AsEncoded(t)'
      OBVIOUS
    <3>1. call[t].op \in {"search_records", "match_count_records"}
      BY <2>2 DEF AsAsked
    <3> QED BY <2>2, <3>1 DEF AsAsked, AsEncoded
  <2>4. AsPromised(t)'
    BY <2>2 DEF AsPromised
  <2> QED BY <1>2, <2>2, <2>3, <2>4, MoveEffects
<1> QED BY <1>3, <1>4, <1>5

\* The file's encoding, under which images are read, is one the code accepts.
LEMMA BitsFacts ==
  ASSUME TablesInv
  PROVE  BitsInForce \in FieldBits
BY WordAssumption DEF BitsInForce, TablesInv, TypeOK, Files

\* One turn of a transaction's loop.
LEMMA ApplyEffects ==
  ASSUME TablesInv, EffectsInv, NEW t \in Threads, Overtaking, Step(t),
         Locked(t, "tx"), NEW image, Apply(t, image), call[t].todo # <<>>,
         call[t].op \in {"index_batch", "remove_batch", "index_record",
                         "index_records_batch"},
         AsAsked(t) /\ AsEncoded(t) /\ AsPromised(t) => AsPromised(t)'
  PROVE  \A u \in Threads : EffectOK(u)'
<1> DEFINE c == call[t]
<1>1. /\ c \in Calls /\ c.op = call[t].op /\ pc[t] = "tx" /\ lock = t /\ pc' = pc
      /\ field_bits' = field_bits /\ call'[t] = [c EXCEPT !.todo = Tail(c.todo)]
  BY Zenon DEF TablesInv, TypeOK, Apply, engine, Locked
<1>2. /\ call'[t].op = c.op /\ call'[t].todo = Tail(c.todo) /\ call'[t].ids = c.ids
      /\ call'[t].lo = c.lo /\ call'[t].cap = c.cap
  BY <1>1 DEF Calls
<1>3. PICK S : c.todo \in Seq(S)
  BY <1>1 DEF Calls
<1>4. ASSUME AsAsked(t) PROVE AsAsked(t)'
  <2>1. c.op = "index_record" => Len(c.todo) <= 1 /\ Len(call'[t].todo) <= 1
    <3>1. Len(Tail(c.todo)) <= Len(c.todo)
      BY <1>3
    <3>2. Len(c.todo) \in Nat /\ Len(Tail(c.todo)) \in Nat
      BY <1>3
    <3> QED BY <1>2, <1>4, <3>1, <3>2 DEF AsAsked
  <2> QED BY <1>1, <1>2, <1>4, <2>1 DEF AsAsked
<1>5. ASSUME AsAsked(t), AsEncoded(t) PROVE AsEncoded(t)'
  <2>1. c.op = "index_record" => Tail(c.todo) = <<>>
    <3>1. c.op = "index_record" => Len(c.todo) <= 1
      BY <1>5 DEF AsAsked
    <3> QED BY <1>3, <3>1
  <2>2. AllValid(c.todo, field_bits) => AllValid(Tail(c.todo), field_bits)
    <3>1. \A n \in DOMAIN Tail(c.todo) :
            n + 1 \in DOMAIN c.todo /\ Tail(c.todo)[n] = c.todo[n + 1]
      BY <1>3
    <3> QED BY <3>1 DEF AllValid
  <2> QED BY <1>1, <1>2, <1>5, <2>1, <2>2 DEF AsEncoded
<1> QED BY <1>1, <1>2, <1>4, <1>5, MoveEffects

LEMMA ItemEffects ==
  ASSUME TablesInv, EffectsInv, NEW t \in Threads, Overtaking,
         index_item(t) \/ remove_item(t)
  PROVE  \A u \in Threads : EffectOK(u)'
<1> DEFINE c == call[t]
           h == Head(c.todo)
           b == BitsInForce
<1>1. /\ Locked(t, "tx") /\ c.todo # <<>> /\ Step(t) /\ c \in Calls
      /\ tx \in Files /\ CallOK(t) /\ options \in Profiles
  BY TxFacts DEF index_item, remove_item, Step
<1>2. b \in FieldBits
  BY BitsFacts
<1>3. ASSUME NEW image, Apply(t, image)
      PROVE  /\ call'[t].op = c.op /\ call'[t].todo = Tail(c.todo) /\ tx' = image
             /\ db' = db /\ BitsInForce' = b
  <2>1. call'[t] = [c EXCEPT !.todo = Tail(c.todo)] /\ tx' = image /\ db' = db
    BY <1>3, Zenon DEF TablesInv, TypeOK, Apply
  <2> QED BY <1>1, <2>1 DEF Calls, BitsInForce
<1>4. CASE index_item(t)
  <2> DEFINE e == PutDocument(tx, h.id, h.text)
  <2>1. c.op = "index_batch" /\ Apply(t, e) /\ c.todo \in Seq(Items)
    BY <1>1, <1>4 DEF index_item, CallOK
  <2>2. h.id \in Id /\ h.text \in Texts
    <3>1. h \in Items
      BY <1>1, <2>1
    <3> QED BY <3>1 DEF Items
  <2>3. Held(e, b) = Abstract!WithoutIds(Held(tx, b), {h.id}, b) \cup {At(h.id, b, h.text)}
    <3> HIDE DEF h, b
    <3>1. tx \in Files /\ options \in Profiles
      BY <1>1
    <3> QED BY <1>2, <2>2, <3>1, PutDocumentHeld
  <2>4. Abstract!ItemsIndexed(Held(e, b), Tail(c.todo), b)
          = Abstract!ItemsIndexed(Held(tx, b), c.todo, b)
    BY <1>1, <1>2, <2>1, <2>3, ItemsInOrder
  <2> HIDE DEF e
  <2>5. /\ call'[t].op = "index_batch" /\ call'[t].todo = Tail(c.todo) /\ tx' = e
        /\ db' = db /\ BitsInForce' = b
    BY <1>3, <2>1
  <2>6. AsPromised(t) => AsPromised(t)'
    <3> SUFFICES ASSUME AsPromised(t) PROVE AsPromised(t)'
      OBVIOUS
    <3>1. PICK items \in ItemLists :
            Abstract!ItemsIndexed(Held(tx, b), c.todo, b)
              = Abstract!ItemsIndexed(Held(db, b), items, b)
      BY <1>1, <2>1 DEF AsPromised, Locked
    <3>2. Abstract!ItemsIndexed(Held(tx', b), call'[t].todo, b)
            = Abstract!ItemsIndexed(Held(db', b), items, b)
      BY <2>4, <2>5, <3>1
    <3> HIDE DEF b
    <3> QED BY <2>5, <3>2 DEF AsPromised
  <2> QED BY <1>1, <2>1, <2>6, ApplyEffects
<1>5. CASE remove_item(t)
  <2> DEFINE e == clear_ids(tx, {h.id})
  <2>1. c.op = "remove_batch" /\ Apply(t, e) /\ c.todo \in Seq(Removals)
    BY <1>1, <1>5 DEF remove_item, CallOK
  <2>2. {h.id} \in SUBSET Id
    <3>1. h \in Removals
      BY <1>1, <2>1
    <3> QED BY <3>1 DEF Removals
  <2>3. Held(e, b) = Abstract!WithoutIds(Held(tx, b), {h.id}, b)
    <3>1. e \in Files /\ \A i \in Id : e.entries[i] = IF i \in {h.id} THEN NULL ELSE tx.entries[i]
      BY <1>1, <2>2, ClearedEntries
    <3> HIDE DEF e
    <3> QED BY <1>1, <1>2, <2>2, <3>1, RemovedHeld
  <2>4. Abstract!IdsRemoved(Held(e, b), Tail(c.todo), b)
          = Abstract!IdsRemoved(Held(tx, b), c.todo, b)
    BY <1>1, <2>1, <2>3, RemovalsInOrder
  <2> HIDE DEF e
  <2>5. /\ call'[t].op = "remove_batch" /\ call'[t].todo = Tail(c.todo) /\ tx' = e
        /\ db' = db /\ BitsInForce' = b
    BY <1>3, <2>1
  <2>6. AsPromised(t) => AsPromised(t)'
    <3> SUFFICES ASSUME AsPromised(t) PROVE AsPromised(t)'
      OBVIOUS
    <3>1. PICK ids \in IdLists :
            Abstract!IdsRemoved(Held(tx, b), c.todo, b)
              = Abstract!IdsRemoved(Held(db, b), ids, b)
      BY <1>1, <2>1 DEF AsPromised, Locked
    <3>2. Abstract!IdsRemoved(Held(tx', b), call'[t].todo, b)
            = Abstract!IdsRemoved(Held(db', b), ids, b)
      BY <2>4, <2>5, <3>1
    <3> HIDE DEF b
    <3> QED BY <2>5, <3>2 DEF AsPromised
  <2> QED BY <1>1, <2>1, <2>6, ApplyEffects
<1> QED BY <1>4, <1>5

\* A transaction that works on ids works in the engine's encoding.
LEMMA ImageEncoding ==
  ASSUME TablesInv, EffectsInv, NEW t \in Threads, Locked(t, "tx")
  PROVE  BitsInForce = field_bits /\ field_bits \in FieldBits
<1>1. db.bits = field_bits /\ field_bits \in FieldBits
  BY DEF EffectsInv, EncodingInv, EncodingOK, Locked, TablesInv, TypeOK
<1> QED BY <1>1, ConstantAssumption DEF BitsInForce

\* What record_item writes when its call is the one its encoding was checked for.
LEMMA RecordItemHeld ==
  ASSUME TablesInv, EffectsInv, NEW t \in Threads, Locked(t, "tx"),
         call[t].op \in {"index_record", "index_records_batch"}, call[t].todo # <<>>,
         AsEncoded(t)
  PROVE  LET r == Head(call[t].todo)
             single == call[t].op = "index_record"
             lo == IF single THEN call[t].lo ELSE range_lo(r.record, field_bits)
             ids == IF single THEN call[t].ids ELSE (lo .. range_hi(lo, field_bits)) \cap Id
             image == InsertFields(clear_ids(tx, ids), r.fields, lo)
         IN  Abstract!RecordsIndexed(Held(image, BitsInForce), Tail(call[t].todo), options)
               = Abstract!RecordsIndexed(Held(tx, BitsInForce), call[t].todo, options)
<1> DEFINE c == call[t]
           r == Head(c.todo)
           single == c.op = "index_record"
           lo == IF single THEN c.lo ELSE range_lo(r.record, field_bits)
           ids == IF single THEN c.ids ELSE (lo .. range_hi(lo, field_bits)) \cap Id
           b == BitsInForce
<1>1. /\ tx \in Files /\ options \in Profiles /\ c.todo \in Seq(Records) /\ pc[t] = "tx"
      /\ b = field_bits /\ b \in FieldBits
  BY TxFacts, ImageEncoding DEF CallOK, RecordOps
<1>2. r = c.todo[1] /\ r \in Records /\ 1 \in DOMAIN c.todo
  BY <1>1
<1>3. AllValid(c.todo, field_bits)
  BY <1>1 DEF AsEncoded
<1>4. ValidUnder(r, b)
  BY <1>1, <1>2, <1>3 DEF AllValid
<1>5. lo = range_lo(r.record, field_bits) /\ ids = (lo .. range_hi(lo, field_bits)) \cap Id
  <2>1. single => /\ c.lo = range_lo(c.todo[1].record, field_bits)
                  /\ c.ids = (c.lo .. range_hi(c.lo, field_bits)) \cap Id
    BY <1>1 DEF AsEncoded
  <2> QED BY <1>2, <2>1
<1> HIDE DEF c, r, lo, ids, b
<1>6. Held(InsertFields(clear_ids(tx, ids), r.fields, lo), b)
        = Abstract!WithoutRecords(Held(tx, b), {r.record}) \cup Abstract!Entries(r, options)
  <2>1. tx \in Files /\ options \in Profiles /\ b \in FieldBits /\ b = field_bits
    BY <1>1
  <2>2. r \in Records /\ lo = range_lo(r.record, b) /\ ids = (lo .. range_hi(lo, b)) \cap Id
    BY <1>2, <1>5, <2>1
  <2> QED BY <1>4, <2>1, <2>2, RecordHeld
<1>7. Abstract!RecordsIndexed(Abstract!WithoutRecords(Held(tx, b), {r.record})
                                \cup Abstract!Entries(r, options), Tail(c.todo), options)
        = Abstract!RecordsIndexed(Held(tx, b), c.todo, options)
  BY <1>1, RecordsInOrder DEF r, c
<1> QED BY <1>6, <1>7 DEF c, r, lo, ids, b

LEMMA RecordItemEffects ==
  ASSUME TablesInv, EffectsInv, NEW t \in Threads, Overtaking, record_item(t)
  PROVE  \A u \in Threads : EffectOK(u)'
<1> DEFINE c == call[t]
           r == Head(c.todo)
           single == c.op = "index_record"
           lo == IF single THEN c.lo ELSE range_lo(r.record, field_bits)
           ids == IF single THEN c.ids ELSE (lo .. range_hi(lo, field_bits)) \cap Id
           image == InsertFields(clear_ids(tx, ids), r.fields, lo)
           b == BitsInForce
<1>1. /\ Locked(t, "tx") /\ c.todo # <<>> /\ Step(t) /\ c \in Calls /\ lock = t
      /\ c.op \in {"index_record", "index_records_batch"}
      /\ Rollback(t) \/ Apply(t, image)
  BY DEF record_item, Step, Locked, TablesInv, TypeOK
<1> HIDE DEF image
<1>2. CASE Rollback(t)
  BY <1>1, <1>2, ReturnEffects DEF Rollback
<1>3. CASE Apply(t, image)
  <2>1. /\ call'[t].op = c.op /\ call'[t].todo = Tail(c.todo) /\ tx' = image
        /\ db' = db /\ BitsInForce' = b /\ field_bits' = field_bits /\ options' = options
    <3>1. /\ call'[t] = [c EXCEPT !.todo = Tail(c.todo)] /\ tx' = image /\ db' = db
          /\ field_bits' = field_bits /\ options' = options
      BY <1>3, Zenon DEF TablesInv, TypeOK, Apply, engine
    <3> QED BY <1>1, <3>1 DEF Calls, BitsInForce
  <2>2. ASSUME AsEncoded(t), AsPromised(t) PROVE AsPromised(t)'
    <3>1. PICK records \in RecordArguments(c.op) :
            /\ AllValid(records, field_bits)
            /\ Abstract!RecordsIndexed(Held(tx, b), c.todo, options)
                 = Abstract!RecordsIndexed(Held(db, b), records, options)
      BY <1>1, <2>2 DEF AsPromised, Locked
    <3>2. Abstract!RecordsIndexed(Held(image, b), Tail(c.todo), options)
            = Abstract!RecordsIndexed(Held(tx, b), c.todo, options)
      BY <1>1, <2>2, RecordItemHeld DEF image
    <3>3. Abstract!RecordsIndexed(Held(tx', b), call'[t].todo, options')
            = Abstract!RecordsIndexed(Held(db', b), records, options')
      BY <2>1, <3>1, <3>2
    <3>4. records \in RecordArguments(call'[t].op) /\ AllValid(records, field_bits')
      BY <2>1, <3>1
    <3>5. call'[t].op \in {"index_record", "index_records_batch"}
      BY <1>1, <2>1
    <3> HIDE DEF b, c
    <3> QED BY <2>1, <3>3, <3>4, <3>5 DEF AsPromised
  <2> QED BY <1>1, <1>3, <2>2, ApplyEffects
<1> QED BY <1>1, <1>2, <1>3

LEMMA RebuildEffects ==
  ASSUME TablesInv, EffectsInv, NEW t \in Threads, Overtaking,
         regenerate(t) \/ repack(t) \/ commit(t) \/ statement_fails(t)
  PROVE  \A u \in Threads : EffectOK(u)'
<1>1. /\ call[t] \in Calls /\ lock = t /\ CallStamps(t)
      /\ db \in Files /\ options \in Profiles
      /\ pc \in [Threads -> Labels] /\ call \in [Threads -> Calls]
      /\ Step(t) \/ statement_fails(t)
  BY DEF TablesInv, TypeOK, EffectsInv, EncodingInv, StampsInv, regenerate, repack,
         commit, statement_fails, Locked, Step
<1>2. CASE regenerate(t)
  <2>1. /\ pc[t] = "reindex" /\ pc'[t] = "tx" /\ call' = call /\ tx' = Reindexed(db)
        /\ db' = db /\ field_bits' = field_bits /\ call[t].op \in {"reindex", "open"}
    BY <1>1, <1>2 DEF regenerate, Locked, Goto, engine, CallStamps
  <2>2. AsAsked(t) => AsAsked(t)'
    BY <2>1 DEF AsAsked, TxOps
  <2>3. AsEncoded(t) => AsEncoded(t)'
    BY <2>1 DEF AsEncoded
  <2>4. AsPromised(t)'
    <3>1. Held(tx', BitsInForce') = Held(db', BitsInForce')
      <4>1. BitsInForce' = BitsInForce
        BY <2>1 DEF BitsInForce
      <4> QED BY <1>1, <2>1, <4>1, ReindexedHeld
    <3> QED BY <2>1, <3>1 DEF AsPromised
  <2>5. Step(t)
    BY <1>2 DEF Step
  <2> QED BY <1>1, <2>1, <2>2, <2>3, <2>4, <2>5, MoveEffects
<1>3. CASE Return(t)
  BY <1>1, <1>3, ReturnEffects
<1>4. CASE repack(t) /\ ~ Return(t)
  <2>1. /\ pc[t] = "repack" /\ pc'[t] = "tx" /\ call' = call
        /\ field_bits' = field_bits /\ call[t].op = "change_field_bits"
    BY <1>1, <1>4 DEF repack, Locked, Goto, engine, CallStamps
  <2>2. AsAsked(t) => AsAsked(t)'
    BY <2>1 DEF AsAsked, TxOps
  <2>3. AsEncoded(t)' /\ AsPromised(t)'
    BY <2>1 DEF AsEncoded, AsPromised
  <2>4. Step(t)
    BY <1>4 DEF Step
  <2> QED BY <1>1, <2>1, <2>2, <2>3, <2>4, MoveEffects
<1>5. CASE commit(t) /\ ~ Return(t)
  <2>1. /\ pc[t] = "tx" /\ pc'[t] = "store" /\ call' = call
        /\ field_bits' = field_bits /\ call[t].op = "change_field_bits"
    BY <1>1, <1>5 DEF commit, Locked, Goto
  <2>2. AsAsked(t) => AsAsked(t)'
    BY <2>1 DEF AsAsked
  <2>3. AsEncoded(t)' /\ AsPromised(t)'
    BY <2>1 DEF AsEncoded, AsPromised
  <2>4. Step(t)
    BY <1>5 DEF Step
  <2> QED BY <1>1, <2>1, <2>2, <2>3, <2>4, MoveEffects
<1>6. statement_fails(t) => Return(t)
  BY DEF statement_fails, Rollback
<1> QED BY <1>2, <1>3, <1>4, <1>5, <1>6

LEMMA StepEffects ==
  ASSUME TablesInv, EffectsInv, NEW t \in Threads, Overtaking,
         Request(t) \/ Step(t) \/ statement_fails(t)
  PROVE  \A u \in Threads : EffectOK(u)'
BY RequestEffects, LoadEffects, LockEffects, SectionEffects, ItemEffects,
   RecordItemEffects, RebuildEffects DEF Step

\* EffectsInv holds of every behaviour of SearchEngine: the locals of a call under
\* way (its list, its range, its transaction's image) stand for the part of the
\* call still to be applied, through every interleaving, failed statement, crash
\* and reopening, unless a change_field_bits has come in between.
THEOREM EffectsInvariant == Spec => []EffectsInv
<1>1. Init => \A t \in Threads : EffectOK(t)
  BY NoCallFacts DEF Init, EffectOK, AsAsked, AsEncoded, AsPromised
<1>2. ASSUME TablesInv, EffectsInv, [Next]_vars
      PROVE  \A t \in Threads : EffectOK(t)'
  <2>1. CASE \E t \in Threads : (Request(t) \/ Step(t) \/ statement_fails(t)) /\ Overtaking
    BY <1>2, <2>1, StepEffects
  <2>2. CASE crash \/ close
    BY <2>2, IdleEffects DEF crash, close, Stopped
  <2>3. CASE (Done /\ Overtaking) \/ UNCHANGED vars
    <3> SUFFICES ASSUME NEW t \in Threads PROVE EffectOK(t)'
      OBVIOUS
    <3>1. /\ pc' = pc /\ call' = call /\ field_bits' = field_bits
          /\ UNCHANGED <<db, tx, options>> /\ EffectOK(t)
      BY <1>2, <2>3 DEF Done, vars, engine, EffectsInv
    <3>2. pc[t] = "idle" \/ overtaken' = overtaken
      BY <2>3 DEF Done, vars
    <3>3. CASE pc[t] = "idle"
      <4>1. call'[t].op = "none" /\ pc'[t] = "idle"
        BY <3>1, <3>3 DEF EffectOK
      <4> QED BY <4>1 DEF EffectOK, AsAsked, AsEncoded, AsPromised
    <3>4. CASE overtaken' = overtaken
      <4>1. AsAsked(t) /\ AsEncoded(t) /\ AsPromised(t)
              => AsAsked(t)' /\ AsEncoded(t)' /\ AsPromised(t)'
        BY <3>1, SameEffects
      <4> QED BY <3>1, <3>4, <4>1 DEF EffectOK
    <3> QED BY <3>2, <3>3, <3>4
  <2> QED BY <1>2, <2>1, <2>2, <2>3 DEF Next
<1>3. Spec => [](\A t \in Threads : EffectOK(t))
  <2> DEFINE E == \A t \in Threads : EffectOK(t)
  <2>1. Init => E
    BY <1>1
  <2>2. TablesInv /\ EncodingInv /\ E /\ [Next]_vars => E'
    BY <1>2 DEF EffectsInv
  <2> HIDE DEF E
  <2>3. Spec => []E
    BY <2>1, <2>2, TablesInvariant, EncodingInvariance, PTL DEF Spec
  <2> QED BY <2>3 DEF E
<1> QED BY <1>3, EncodingInvariance, PTL DEF EffectsInv

-----------------------------------------------------------------------------
(* The refinement: the steps that change what the file holds. *)

\* A step that leaves entries and the stamps alone is a stutter of RecordIndex.
LEMMA Stutter ==
  ASSUME db'.entries = db.entries, db'.bits = db.bits, db'.profile = db.profile
  PROVE  UNCHANGED Abstract!vars
<1>1. BitsInForce' = BitsInForce /\ StampedProfile(db)' = StampedProfile(db)
  BY DEF BitsInForce, StampedProfile
<1>2. Held(db, BitsInForce)' = Held(db, BitsInForce)
  BY <1>1 DEF Held, Stored
<1> QED BY <1>1, <1>2 DEF Abstract!vars

\* A step that changes the stamps, and the ids with them, is its Reconfigure.
LEMMA Reconfigured ==
  ASSUME db' \in Files, Held(db', BitsInForce') = Held(db, BitsInForce)
  PROVE  Abstract!Next
<1>1. BitsInForce' \in FieldBits
  BY WordAssumption DEF BitsInForce, Files
<1>2. StampedProfile(db') \in Profiles
  BY ConstantAssumption DEF StampedProfile, Files
<1>3. Abstract!Reconfigure
  BY <1>1, <1>2, Read DEF Abstract!Reconfigure
<1> QED BY <1>3 DEF Abstract!Next

\* The steps of the calls keep both.
LEMMA StampsKept ==
  ASSUME db'.bits = db.bits, db'.profile = db.profile
  PROVE  /\ BitsInForce' = BitsInForce
         /\ StampedProfile(db') = StampedProfile(db)
BY DEF BitsInForce, StampedProfile

\* index's last statement is IndexDoc.
LEMMA IndexTakesEffect ==
  ASSUME TablesInv, EffectsInv, NEW t \in Threads, replace_entries(t), AsAsked(t)
  PROVE  Abstract!Next
<1> DEFINE c == call[t]
           row == IndexRow(t)
           b == BitsInForce
           e == ReplaceEntries(db, row)
<1>1. /\ pc[t] = "ins_entries" /\ c \in Calls /\ c.op = "index" /\ c.text \in Texts
      /\ db \in Files /\ options \in Profiles /\ db' = Completed(e, c.ids)
  BY DEF replace_entries, Locked, TablesInv, TypeOK, CallOK, MidIndex
<1>2. PICK id \in DocIds : c.ids = {id}
  BY <1>1 DEF AsAsked
<1>3. id \in Id /\ {id} \in SUBSET Id /\ b \in FieldBits
  BY BitsFacts, ConstantAssumption
<1>4. row \in [{id} -> Rows] /\ row[id].raw = c.text /\ row[id] # NULL
  BY <1>1, <1>2, RowFacts, ConstantAssumption DEF IndexRow, Row
<1> HIDE DEF row
<1>5. e \in Files /\ \A i \in Id : e.entries[i] = IF i \in {id} THEN row[i] ELSE db.entries[i]
  BY <1>1, <1>3, <1>4, ReplaceEntriesFacts
<1>6. SameStamps(db, e)
  BY <1>1, StatementStamps
<1> HIDE DEF e
<1>7. db' \in Files /\ db'.entries = e.entries /\ SameStamps(e, db')
  <2>1. db' = Completed(e, {id}) /\ {id} \in SUBSET Id /\ e \in Files
    BY <1>1, <1>2, <1>3, <1>5
  <2>2. db' \in Files /\ db'.entries = e.entries
    BY <2>1, TornFacts
  <2> QED BY <2>1, <2>2, StatementStamps
<1>8. Held(db', b) = Kept(Held(db, b), {id}, b) \cup Put(db', {id}, b)
  BY <1>1, <1>3, <1>5, <1>7, HeldSplit
<1>9. Put(db', {id}, b) = {At(id, b, c.text)}
  BY <1>3, <1>4, <1>5, <1>7 DEF Put, Stored
<1>10. Held(db', b) = Abstract!WithoutIds(Held(db, b), {id}, b) \cup {Abstract!Entry(id, c.text, b)}
  BY <1>8, <1>9, WithoutIdsHeld, Read
<1>11. BitsInForce' = b /\ StampedProfile(db') = StampedProfile(db)
  BY <1>6, <1>7, StampsKept DEF SameStamps
<1>12. Abstract!IndexDoc
  BY <1>1, <1>10, <1>11 DEF Abstract!IndexDoc, Abstract!Config
<1> QED BY <1>12 DEF Abstract!Next

\* The last statement of remove is RemoveDoc, that of remove_record RemoveRecord.
LEMMA RemovalTakesEffect ==
  ASSUME TablesInv, EffectsInv, NEW t \in Threads, delete_entries(t),
         AsAsked(t), AsEncoded(t)
  PROVE  Abstract!Next
<1> DEFINE c == call[t]
           b == BitsInForce
           e == DeleteEntries(db, c.ids)
<1>1. /\ pc[t] = "del_entries" /\ c \in Calls /\ c.op \in {"remove", "remove_record"}
      /\ db \in Files /\ db' = Completed(e, c.ids) /\ b \in FieldBits /\ lock = t
      /\ c.ids \in SUBSET Id
  BY BitsFacts DEF delete_entries, Locked, TablesInv, TypeOK, AsAsked, Calls
<1>2. e \in Files /\ \A i \in Id : e.entries[i] = IF i \in c.ids THEN NULL ELSE db.entries[i]
  BY <1>1, DeleteEntriesFacts
<1>3. SameStamps(db, e)
  BY <1>1, StatementStamps
<1> HIDE DEF e
<1>4. db' \in Files /\ db'.entries = e.entries /\ SameStamps(e, db')
  BY <1>1, <1>2, TornFacts, StatementStamps
<1>5. Held(db', b) = Abstract!WithoutIds(Held(db, b), c.ids, b)
  BY <1>1, <1>2, <1>4, RemovedHeld
<1>6. BitsInForce' = b /\ StampedProfile(db') = StampedProfile(db)
  BY <1>3, <1>4, StampsKept DEF SameStamps
<1>7. CASE c.op = "remove"
  <2>1. PICK id \in DocIds : c.ids = {id}
    BY <1>7 DEF AsAsked
  <2>2. Abstract!RemoveDoc
    BY <1>5, <1>6, <2>1 DEF Abstract!RemoveDoc, Abstract!Config
  <2> QED BY <2>2 DEF Abstract!Next
<1>8. CASE c.op = "remove_record"
  <2>1. PICK r \in RecordIds : c.todo = OneRecord(r, <<>>)
    BY <1>8 DEF AsAsked
  <2>2. c.todo[1].record = r /\ c.todo # <<>> /\ 1 \in DOMAIN c.todo
    BY <2>1 DEF OneRecord
  <2>3. b = field_bits
    <3>1. CallStamps(t) /\ pc[t] # "store"
      BY <1>1 DEF EffectsInv, EncodingInv, StampsInv
    <3>2. alive
      BY <1>1, <1>8, <3>1 DEF CallStamps
    <3>3. db.bits = field_bits
      BY <1>1, <3>1, <3>2, AliveFacts DEF EffectsInv, EncodingInv
    <3> QED BY <3>3, ConstantAssumption DEF BitsInForce, TablesInv, TypeOK
  <2>4. r \in 0 .. max_record_id(b)
    <3>1. AllValid(c.todo, field_bits)
      BY <1>1, <1>8 DEF AsEncoded
    <3> QED BY <2>2, <2>3, <3>1 DEF AllValid, ValidUnder
  <2>5. c.ids = (range_lo(r, b) .. range_hi(range_lo(r, b), b)) \cap Id
    BY <1>1, <1>8, <2>2, <2>3 DEF AsEncoded
  <2>6. Kept(Held(db, b), c.ids, b) = Abstract!WithoutRecords(Held(db, b), {r})
    <3> HIDE DEF b, c
    <3> QED BY <1>1, <2>4, <2>5, WithoutRange
  <2>7. Held(db', b) = Abstract!WithoutRecords(Held(db, b), {r})
    BY <1>5, <2>6, WithoutIdsHeld
  <2>8. Abstract!RemoveRecord
    BY <1>6, <2>7 DEF Abstract!RemoveRecord, Abstract!Config
  <2> QED BY <2>8 DEF Abstract!Next
<1> QED BY <1>1, <1>7, <1>8

\* What an image holds is what it means, but for the normalized texts.
LEMMA HeldIsMeant ==
  ASSUME NEW d, NEW e, NEW b \in FieldBits, NEW k \in FieldBits,
         d.bits = b, e.bits = k, Meaning(d) = Meaning(e)
  PROVE  Held(d, b) = Held(e, k)
<1> DEFINE text(m) == <<m[1], m[2], m[4]>>
<1>1. ASSUME NEW g, NEW n \in FieldBits, g.bits = n
      PROVE  Held(g, n) = {text(m) : m \in Meaning(g)}
  <2> DEFINE was(i) == <<record_of(i, n), slot_bits(i, n), g.entries[i].norm, g.entries[i].raw>>
  <2>1. Meaning(g) = {was(i) : i \in Stored(g)}
    <3>1. CASE Stored(g) = {}
      BY <3>1 DEF Meaning
    <3>2. CASE Stored(g) # {}
      <4>1. stored_field_bits(g) = n
        BY <1>1, <3>2, ConstantAssumption DEF stored_field_bits
      <4> QED BY <4>1 DEF Meaning
    <3> QED BY <3>1, <3>2
  <2>2. Held(g, n) = {text(was(i)) : i \in Stored(g)}
    BY DEF Held
  <2> HIDE DEF text, was
  <2> QED BY <2>1, <2>2
<1> HIDE DEF text
<1> QED BY <1>1

\* A transaction's commit is the whole of what its call was asked for.
LEMMA CommitTakesEffect ==
  ASSUME TablesInv, EffectsInv, NEW t \in Threads, commit(t),
         AsAsked(t), AsPromised(t)
  PROVE  Abstract!Next
<1> DEFINE c == call[t]
           b == BitsInForce
           p == StampedProfile(db)
           file == Held(db, b)
           image == Held(tx, b)
<1>1. /\ Locked(t, "tx") /\ pc[t] = "tx" /\ lock = t /\ c.todo = <<>> /\ db' = tx
      /\ tx \in Files /\ db \in Files /\ options \in Profiles /\ c \in Calls
      /\ c.op \in TxOps /\ CallStamps(t) /\ EncodingOK(t)
  BY TxFacts DEF commit, Locked, AsAsked, EffectsInv, EncodingInv, StampsInv
<1>2. b = field_bits /\ b \in FieldBits /\ db.bits = field_bits
  BY <1>1, ImageEncoding DEF EncodingOK
<1>3. /\ tx.profile = options
      /\ tx.bits = IF c.op = "change_field_bits" THEN c.arg ELSE field_bits
  BY <1>1, ImageFacts DEF EffectsInv, EncodingInv
<1>4. CASE c.op = "change_field_bits"
  <2> DEFINE new == c.arg
  <2>1. /\ tx = Repacked(db, field_bits, new) /\ ~ RepackRejected(db, field_bits, new)
        /\ tx.bits = new /\ new \in FieldBits
    BY <1>1, <1>3, <1>4 DEF EncodingOK, Calls
  <2>2. Meaning(tx) = Meaning(db)
    BY <1>1, <1>2, <2>1, RepackedMeaning
  <2>3. Held(tx, new) = file
    BY <1>2, <2>1, <2>2, HeldIsMeant
  <2>4. BitsInForce' = new
    BY <1>1, <2>1, ConstantAssumption DEF BitsInForce
  <2> QED BY <1>1, <2>3, <2>4, Reconfigured
<1>5. CASE c.op # "change_field_bits"
  <2>1. BitsInForce' = b
    BY <1>1, <1>2, <1>3, <1>5 DEF BitsInForce
  <2>2. c.op # "open" => db.profile = options /\ p = options /\ StampedProfile(db') = p
    <3>1. c.op # "open" => alive
      BY <1>1 DEF CallStamps
    <3>2. alive => db.profile = options
      BY <1>1, AliveFacts DEF EffectsInv, EncodingInv
    <3> QED BY <1>1, <1>3, <3>1, <3>2, ConstantAssumption DEF StampedProfile
  <2>3. CASE c.op \in {"reindex", "open"}
    <3>1. Held(db', BitsInForce') = file
      BY <1>1, <2>1, <2>3 DEF AsPromised
    <3> QED BY <1>1, <3>1, Reconfigured
  <2>4. CASE c.op = "remove_all"
    <3>1. Held(db', b) = {}
      BY <1>1, <2>4 DEF AsPromised
    <3>2. Abstract!RemoveAll
      BY <2>1, <2>2, <2>4, <3>1 DEF Abstract!RemoveAll, Abstract!Config
    <3> QED BY <3>2 DEF Abstract!Next
  <2>5. CASE c.op = "index_batch"
    <3>1. PICK items \in ItemLists :
            Abstract!ItemsIndexed(image, <<>>, b) = Abstract!ItemsIndexed(file, items, b)
      BY <1>1, <2>5 DEF AsPromised
    <3>2. Held(db', b) = Abstract!ItemsIndexed(file, items, b)
      BY <1>1, <3>1, NothingLeft
    <3>3. Abstract!IndexBatch
      BY <2>1, <2>2, <2>5, <3>2 DEF Abstract!IndexBatch, Abstract!Config
    <3> QED BY <3>3 DEF Abstract!Next
  <2>6. CASE c.op = "remove_batch"
    <3>1. PICK ids \in IdLists :
            Abstract!IdsRemoved(image, <<>>, b) = Abstract!IdsRemoved(file, ids, b)
      BY <1>1, <2>6 DEF AsPromised
    <3>2. Held(db', b) = Abstract!IdsRemoved(file, ids, b)
      BY <1>1, <3>1, NothingLeft
    <3>3. Abstract!RemoveBatch
      BY <2>1, <2>2, <2>6, <3>2 DEF Abstract!RemoveBatch, Abstract!Config
    <3> QED BY <3>3 DEF Abstract!Next
  <2>7. CASE c.op \in {"index_record", "index_records_batch"}
    <3>1. PICK records \in RecordArguments(c.op) :
            /\ AllValid(records, field_bits)
            /\ Abstract!RecordsIndexed(image, <<>>, options)
                 = Abstract!RecordsIndexed(file, records, options)
      BY <1>1, <2>7 DEF AsPromised
    <3>2. Held(db', b) = Abstract!RecordsIndexed(file, records, p)
      BY <1>1, <2>2, <2>7, <3>1, NothingLeft
    <3>3. records \in RecordLists \cup
            {<<[record |-> r, fields |-> fs]>> : r \in RecordIds, fs \in FieldLists}
      BY <3>1 DEF RecordArguments, OneRecord
    <3>4. \A n \in DOMAIN records : Abstract!ValidRecord(records[n], b)
      BY <1>2, <3>1, Read DEF AllValid
    <3>5. Abstract!IndexRecords
      <4>1. Abstract!Config
        BY <2>1, <2>2, <2>7 DEF Abstract!Config
      <4>2. Held(db, BitsInForce)' = Abstract!RecordsIndexed(Held(db, BitsInForce),
                                       records, StampedProfile(db))
        BY <2>1, <3>2
      <4> QED BY <3>3, <3>4, <4>1, <4>2 DEF Abstract!IndexRecords
    <3> QED BY <3>5 DEF Abstract!Next
  <2> QED BY <1>1, <1>5, <2>3, <2>4, <2>5, <2>6, <2>7 DEF TxOps
<1> QED BY <1>4, <1>5

\* open's two stamps.
LEMMA OpenTakesEffect ==
  ASSUME TablesInv, EffectsInv, NEW t \in Threads,
         open_stamp_bits(t) \/ open_stamp_profile(t)
  PROVE  Abstract!Next
<1>1. db \in Files /\ field_bits \in FieldBits /\ options \in Profiles
  BY DEF TablesInv, TypeOK
<1>2. CASE open_stamp_bits(t)
  <2>1. /\ db' = stamp_field_bits(db, field_bits)
        /\ stored_field_bits(db) \in {NULL, field_bits}
    BY <1>2 DEF open_stamp_bits, Locked, EffectsInv, EncodingInv, EncodingOK
  <2>2. db' \in Files /\ db'.entries = db.entries /\ db'.bits = field_bits
    BY <1>1, <2>1, StampFacts, StampFields
  <2>3. BitsInForce' = field_bits
    BY <1>1, <2>2, ConstantAssumption DEF BitsInForce
  <2>4. Held(db', field_bits) = Held(db, BitsInForce)
    <3>1. Stored(db') = Stored(db)
      BY <2>2 DEF Stored
    <3>2. CASE Stored(db) = {}
      BY <3>1, <3>2 DEF Held
    <3>3. CASE Stored(db) # {}
      <4>1. BitsInForce = stored_field_bits(db) /\ BitsInForce # NULL
        BY <3>3, WordAssumption, ConstantAssumption DEF stored_field_bits, BitsInForce
      <4>2. BitsInForce = field_bits
        BY <2>1, <4>1
      <4> QED BY <2>2, <3>1, <4>2 DEF Held
    <3> QED BY <3>2, <3>3
  <2> QED BY <2>2, <2>3, <2>4, Reconfigured
<1>3. CASE open_stamp_profile(t)
  <2>1. db' = stamp_profile(db, options)
    BY <1>3 DEF open_stamp_profile
  <2>2. db' \in Files /\ db'.entries = db.entries /\ db'.bits = db.bits
    BY <1>1, <2>1, StampFacts, StampFields
  <2>3. Held(db', BitsInForce') = Held(db, BitsInForce)
    BY <2>2 DEF BitsInForce, Held, Stored
  <2> QED BY <2>2, <2>3, Reconfigured
<1> QED BY <1>2, <1>3

\* A call starts by leaving the file and the engine alone, or opens the engine.
LEMMA RequestBegins ==
  ASSUME NEW t \in Threads, Request(t)
  PROVE  /\ db' = db /\ pc[t] = "idle"
         /\ open(t) \/ UNCHANGED engine
<1>1. ASSUME NEW c, NEW l, Begin(t, c, l)
      PROVE  db' = db /\ pc[t] = "idle" /\ UNCHANGED engine
  BY <1>1 DEF Begin
<1>2. open(t) \/ \E c, l : Begin(t, c, l)
  BY Zenon DEF Request, index, remove, index_batch, remove_batch, remove_all, reindex,
         change_field_bits, index_record, index_records_batch, remove_record,
         contains_record, search_records, match_count_records
<1>3. open(t) => db' = db /\ pc[t] = "idle"
  BY DEF open
<1> QED BY <1>1, <1>2, <1>3

\* Every other step is a stutter: what the file holds changes at the last
\* statement of a call, and nowhere else.
LEMMA QuietFile ==
  ASSUME TablesInv, NEW t \in Threads, Request(t) \/ Step(t) \/ statement_fails(t),
         ~ (replace_entries(t) \/ delete_entries(t) \/ commit(t)
              \/ open_stamp_bits(t) \/ open_stamp_profile(t))
  PROVE  UNCHANGED Abstract!vars
<1>1. db \in Files
  BY DEF TablesInv, TypeOK
<1>2. ASSUME db' = db PROVE UNCHANGED Abstract!vars
  <2>1. db'.entries = db.entries /\ db'.bits = db.bits /\ db'.profile = db.profile
    BY <1>2
  <2> QED BY <2>1, Stutter
<1>3. Request(t) => db' = db
  BY RequestBegins
<1>4. ASSUME \/ load_max(t) \/ load_lo(t) \/ load_hi(t) \/ locked_conn(t) \/ read_exists(t)
             \/ fetch_hits(t) \/ decode_hits(t) \/ return_hits(t) \/ regenerate(t)
             \/ repack(t) \/ store_field_bits(t) \/ statement_fails(t)
      PROVE  db' = db
  BY <1>4 DEF load_max, load_lo, load_hi, locked_conn, read_exists, fetch_hits,
              decode_hits, return_hits, regenerate, repack, store_field_bits,
              statement_fails, Rollback
<1>5. ASSUME index_item(t) \/ remove_item(t) \/ record_item(t) PROVE db' = db
  <2>1. \A e : Apply(t, e) => db' = db
    BY DEF Apply
  <2>2. Rollback(t) => db' = db
    BY DEF Rollback
  <2> QED BY <1>5, <2>1, <2>2, Zenon DEF index_item, remove_item, record_item
<1>6. CASE delete_docs(t)
  <2> DEFINE e == DeleteDocs(db, call[t].ids)
  <2>1. db' = Begun(e, call[t].ids) /\ call[t].ids \in SUBSET Id
    BY <1>6 DEF delete_docs, TablesInv, TypeOK, Calls
  <2>2. e \in Files /\ e.entries = db.entries /\ SameStamps(db, e)
    BY <1>1, DeleteDocsFacts, StatementStamps
  <2> HIDE DEF e
  <2>3. db'.entries = db.entries /\ SameStamps(e, db')
    BY <2>1, <2>2, TornFacts, StatementStamps
  <2> QED BY <2>2, <2>3, Stutter DEF SameStamps
<1>7. CASE insert_docs(t)
  <2> DEFINE row == IndexRow(t)
  <2>1. db' = InsertDocs(db, row) /\ call[t].op = "index" /\ call[t].ids \in SUBSET Id
          /\ call[t].text \in Texts /\ options \in Profiles
    BY <1>7 DEF insert_docs, Locked, TablesInv, TypeOK, Calls, CallOK, MidIndex
  <2>2. row \in [call[t].ids -> Rows]
    BY <2>1, RowFacts DEF IndexRow
  <2> HIDE DEF row
  <2>3. db'.entries = db.entries
    BY <1>1, <2>1, <2>2, InsertDocsFacts
  <2>4. SameStamps(db, db')
    BY <1>1, <2>1, StatementStamps
  <2> QED BY <2>3, <2>4, Stutter DEF SameStamps
<1> QED BY <1>2, <1>3, <1>4, <1>5, <1>6, <1>7 DEF Step

\* A step of an engine is one of RecordIndex or a stutter, unless it is of a call
\* that a change_field_bits has overtaken.
LEMMA StepTakesEffect ==
  ASSUME TablesInv, EffectsInv, [Next]_vars,
         lock \in Threads => lock \notin overtaken \/ call[lock].op = "open"
  PROVE  [Abstract!Next]_(Abstract!vars)
<1>1. CASE \E t \in Threads : Request(t) \/ Step(t) \/ statement_fails(t)
  <2>1. PICK t \in Threads : Request(t) \/ Step(t) \/ statement_fails(t)
    BY <1>1
  <2> DEFINE Writes == \/ replace_entries(t) \/ delete_entries(t) \/ commit(t)
                       \/ open_stamp_bits(t) \/ open_stamp_profile(t)
  <2>2. CASE ~ Writes
    BY <2>1, <2>2, QuietFile
  <2>3. CASE Writes
    <3>1. lock = t
      BY <2>3 DEF Locked, replace_entries, delete_entries, commit, open_stamp_bits,
                  open_stamp_profile
    <3>2. AsAsked(t) /\ AsEncoded(t) /\ AsPromised(t)
      BY <3>1 DEF EffectsInv, EffectOK
    <3> QED
      BY <2>3, <3>2, IndexTakesEffect, RemovalTakesEffect, CommitTakesEffect,
         OpenTakesEffect
  <2> QED BY <2>2, <2>3
<1>2. CASE crash \/ close \/ Done \/ UNCHANGED vars
  <2>1. db' = db
    BY <1>2 DEF crash, close, Stopped, Done, vars
  <2> QED BY <2>1, Stutter
<1> QED BY <1>1, <1>2 DEF Next

\* What an engine writes is what its callers were promised: with any number of
\* threads, failed statements, crashes and reopenings, a step changes the texts
\* held for the records as one whole call does (an index, a batch, a record with
\* its other fields dropped) or not at all, the encoding and the normalization
\* change without changing them, and only a call that a change_field_bits of
\* another thread has overtaken can break this.
THEOREM CallsTakeEffect == Spec => CallsTakeEffectAtOnce
<1>1. ASSUME TablesInv, EffectsInv, [Next]_vars
      PROVE  [lock \notin overtaken => Abstract!Next]_(Abstract!vars)
  BY <1>1, StepTakesEffect
<1> QED
  BY <1>1, TablesInvariant, EffectsInvariant, PTL DEF Spec, CallsTakeEffectAtOnce

-----------------------------------------------------------------------------
(* One thread: nobody overtakes its calls. *)

\* A call keeps its operation until it returns.
LEMMA OperationStays ==
  ASSUME TablesInv, NEW t \in Threads, Step(t) \/ statement_fails(t), pc'[t] # "idle"
  PROVE  call'[t].op = call[t].op
<1>1. /\ call[t] \in Calls /\ pc \in [Threads -> Labels] /\ call \in [Threads -> Calls]
  BY DEF TablesInv, TypeOK
<1>2. ~ Return(t)
  BY <1>1 DEF Return, Goto
<1>3. ASSUME \/ load_max(t) \/ locked_conn(t) \/ delete_docs(t) \/ insert_docs(t)
             \/ regenerate(t) \/ repack(t) \/ commit(t) \/ open_stamp_bits(t)
      PROVE  call' = call
  BY <1>2, <1>3 DEF load_max, locked_conn, delete_docs, insert_docs, regenerate, repack,
                    commit, open_stamp_bits
<1>4. ~ (\/ replace_entries(t) \/ delete_entries(t) \/ read_exists(t) \/ return_hits(t)
         \/ store_field_bits(t) \/ open_stamp_profile(t) \/ statement_fails(t))
  BY <1>2 DEF replace_entries, delete_entries, read_exists, return_hits,
              store_field_bits, open_stamp_profile, statement_fails, Rollback
<1>5. ASSUME NEW e, Apply(t, e) PROVE call'[t].op = call[t].op
  <2>1. call'[t] = [call[t] EXCEPT !.todo = Tail(call[t].todo)]
    BY <1>1, <1>5, Zenon DEF Apply
  <2> QED BY <1>1, <2>1 DEF Calls
<1>6. CASE index_item(t) \/ remove_item(t) \/ record_item(t)
  <2>1. \E e : Apply(t, e)
    BY <1>2, <1>6, Zenon DEF index_item, remove_item, record_item, Rollback
  <2> QED BY <1>5, <2>1
<1>7. CASE load_lo(t)
  BY <1>1, <1>7 DEF load_lo, Calls
<1>8. CASE load_hi(t)
  BY <1>1, <1>8 DEF load_hi, Calls
<1>9. CASE fetch_hits(t)
  BY <1>1, <1>9 DEF fetch_hits, Calls
<1>10. CASE decode_hits(t)
  BY <1>1, <1>10 DEF decode_hits, Calls
<1> QED BY <1>3, <1>4, <1>6, <1>7, <1>8, <1>9, <1>10 DEF Step

\* Of one thread's calls only open changes field_bits and goes on.
OnlyOpens == \A t \in overtaken : t \in Threads /\ pc[t] # "idle" /\ call[t].op = "open"

LEMMA OnlyOpensStep ==
  ASSUME NEW t0, Threads = {t0}, TablesInv, OnlyOpens, [Next]_vars
  PROVE  OnlyOpens'
<1>1. CASE UNCHANGED vars
  BY <1>1 DEF OnlyOpens, vars
<1>2. CASE Next
  <2>1. /\ Overtaking /\ pc \in [Threads -> Labels] /\ call \in [Threads -> Calls]
    BY <1>2 DEF Next, TablesInv, TypeOK
  <2>2. SUFFICES ASSUME t0 \in overtaken' PROVE call'[t0].op = "open"
    BY <2>1 DEF OnlyOpens, Overtaking
  <2>3. pc'[t0] # "idle" /\ (t0 \in overtaken \/ field_bits' # field_bits)
    BY <2>1, <2>2 DEF Overtaking
  <2>4. Request(t0) \/ Step(t0) \/ statement_fails(t0)
    <3>1. ~ (crash \/ close)
      BY <2>3 DEF crash, close, Stopped
    <3>2. ~ Done
      BY <2>3 DEF Done
    <3> QED BY <1>2, <3>1, <3>2 DEF Next
  <2>5. CASE Request(t0)
    <3>1. pc[t0] = "idle" /\ (open(t0) \/ UNCHANGED engine)
      BY <2>5, RequestBegins
    <3>2. field_bits' # field_bits
      BY <2>3, <3>1 DEF OnlyOpens
    <3>3. open(t0)
      BY <3>1, <3>2 DEF engine
    <3>4. PICK c \in Calls : call' = [call EXCEPT ![t0] = c] /\ c.op = "open"
      <4>1. \A m \in BOOLEAN : [NoCall EXCEPT !.op = "open", !.mismatch = m] \in Calls
        BY NoCallFacts DEF Calls, Ops
      <4> QED BY <3>3, <4>1 DEF open, NoCall
    <3> QED BY <2>1, <3>4
  <2>6. CASE Step(t0) \/ statement_fails(t0)
    <3>1. call'[t0].op = call[t0].op
      BY <2>3, <2>6, OperationStays
    <3>2. field_bits' = field_bits
      <4>1. ~ store_field_bits(t0)
        BY <2>1, <2>3 DEF store_field_bits, Return, Goto
      <4>2. \A e : Apply(t0, e) => field_bits' = field_bits
        BY DEF Apply, engine
      <4>3. Rollback(t0) => field_bits' = field_bits
        BY DEF Rollback, engine
      <4>4. index_item(t0) \/ remove_item(t0) \/ record_item(t0) => field_bits' = field_bits
        BY <4>2, <4>3, Zenon DEF index_item, remove_item, record_item
      <4> QED
        BY <2>6, <4>1, <4>3, <4>4
           DEF Step, engine, load_max, load_lo, load_hi, locked_conn, delete_docs, insert_docs,
               replace_entries, delete_entries, read_exists, fetch_hits, decode_hits,
               return_hits, regenerate, repack, commit, open_stamp_bits, open_stamp_profile,
               statement_fails
    <3> QED BY <2>3, <3>1, <3>2 DEF OnlyOpens
  <2> QED BY <2>4, <2>5, <2>6
<1> QED BY <1>1, <1>2

LEMMA EffectsInit == Init => Abstract!Init
<1> SUFFICES ASSUME Init PROVE Abstract!Init
  OBVIOUS
<1>1. PICK S \in {{}, LegacyIds}, x \in Texts :
        db = [docs |-> [i \in Id |-> IF i \in S THEN Normalize(Loose, x) ELSE NULL],
              entries |-> [i \in Id |-> IF i \in S
                             THEN [norm |-> Normalize(Loose, x), raw |-> NULL] ELSE NULL],
              profile |-> NULL, bits |-> NULL, torn |-> {}]
  BY DEF Init
<1> DEFINE row == [norm |-> Normalize(Loose, x), raw |-> NULL]
<1>2. BitsInForce = DefaultBits /\ StampedProfile(db) = Loose
  BY <1>1 DEF BitsInForce, StampedProfile
<1>3. row # NULL /\ S \subseteq Id
  <2>1. Normalize(Loose, x) \in Norms
    BY ConstantAssumption DEF Norms
  <2>2. row \in Rows
    BY <2>1 DEF Rows
  <2> QED BY <2>2, ConstantAssumption
<1>4. \A i \in Id : db.entries[i] = IF i \in S THEN row ELSE NULL
  BY <1>1
<1>5. Stored(db) = S /\ \A i \in S : db.entries[i].raw = NULL
  BY <1>3, <1>4 DEF Stored
<1>6. Held(db, DefaultBits) = {Abstract!Entry(i, NULL, DefaultBits) : i \in S}
  BY <1>5, Read DEF Held, At
<1> QED BY <1>2, <1>6, Read, WordAssumption, ConstantAssumption DEF Abstract!Init

\* SearchEngine implements RecordIndex: with one thread calling, a file is through
\* every failed statement, crash, reopening and change of its encoding the index
\* of records, in which each call takes effect whole and at once or not at all.
THEOREM EngineImplementsRecordIndex ==
  ASSUME NEW t0, Threads = {t0}
  PROVE  Spec => ImplementsRecordIndex
<1>1. Init => OnlyOpens
  BY DEF Init, OnlyOpens
<1>2. TablesInv /\ OnlyOpens /\ [Next]_vars => OnlyOpens'
  BY OnlyOpensStep
<1>3. TablesInv /\ EffectsInv /\ OnlyOpens /\ [Next]_vars => [Abstract!Next]_(Abstract!vars)
  BY StepTakesEffect DEF OnlyOpens
<1> QED
  BY <1>1, <1>2, <1>3, EffectsInit, TablesInvariant, EffectsInvariant, PTL
     DEF Spec, ImplementsRecordIndex, Abstract!Spec
=============================================================================
