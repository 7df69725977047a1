-------------------------- MODULE SharedFileProofs --------------------------
(***************************************************************************)
(* What SharedFile keeps, for every set of engines, word width,            *)
(* configurations and inputs, and every normalization: first SharedInv,    *)
(* then the stamps and the rows.                                           *)
(***************************************************************************)
EXTENDS SharedInvariant, PackingProofs

-----------------------------------------------------------------------------
(* The statements, on images of the file. *)

LEMMA DeleteDocsFacts ==
  ASSUME NEW d \in Files, NEW S
  PROVE  /\ DeleteDocs(d, S) \in Files
         /\ DeleteDocs(d, S).entries = d.entries
         /\ DeleteDocs(d, S).torn = d.torn
         /\ DeleteDocs(d, S).bits = d.bits /\ DeleteDocs(d, S).profile = d.profile
         /\ \A i \in Id : DeleteDocs(d, S).docs[i] = IF i \in S THEN NULL ELSE d.docs[i]
BY DEF DeleteDocs, Files

LEMMA DeleteEntriesFacts ==
  ASSUME NEW d \in Files, NEW S
  PROVE  /\ DeleteEntries(d, S) \in Files
         /\ DeleteEntries(d, S).docs = d.docs
         /\ DeleteEntries(d, S).torn = d.torn
         /\ DeleteEntries(d, S).bits = d.bits /\ DeleteEntries(d, S).profile = d.profile
         /\ \A i \in Id : DeleteEntries(d, S).entries[i] =
                            IF i \in S THEN NULL ELSE d.entries[i]
BY DEF DeleteEntries, Files

\* f gives rows to some ids.
RowsOf(f) == DOMAIN f \subseteq Id /\ \A i \in DOMAIN f : f[i] \in Rows

LEMMA InsertDocsFacts ==
  ASSUME NEW d \in Files, NEW f, RowsOf(f)
  PROVE  /\ InsertDocs(d, f) \in Files
         /\ InsertDocs(d, f).entries = d.entries
         /\ InsertDocs(d, f).torn = d.torn
         /\ InsertDocs(d, f).bits = d.bits /\ InsertDocs(d, f).profile = d.profile
         /\ \A i \in Id : InsertDocs(d, f).docs[i] =
                            IF i \in DOMAIN f THEN f[i].norm ELSE d.docs[i]
BY DEF InsertDocs, Files, Rows, RowsOf

LEMMA ReplaceEntriesFacts ==
  ASSUME NEW d \in Files, NEW f, RowsOf(f)
  PROVE  /\ ReplaceEntries(d, f) \in Files
         /\ ReplaceEntries(d, f).docs = d.docs
         /\ ReplaceEntries(d, f).torn = d.torn
         /\ ReplaceEntries(d, f).bits = d.bits /\ ReplaceEntries(d, f).profile = d.profile
         /\ \A i \in Id : ReplaceEntries(d, f).entries[i] =
                            IF i \in DOMAIN f THEN f[i] ELSE d.entries[i]
BY DEF ReplaceEntries, Files, RowsOf

LEMMA TornFacts ==
  ASSUME NEW d \in Files, NEW S \in SUBSET Id
  PROVE  /\ Begun(d, S) \in Files /\ Completed(d, S) \in Files
         /\ Begun(d, S).torn = d.torn \cup S
         /\ Completed(d, S).torn = d.torn \ S
         /\ Begun(d, S).docs = d.docs /\ Begun(d, S).entries = d.entries
         /\ Begun(d, S).bits = d.bits /\ Begun(d, S).profile = d.profile
         /\ Completed(d, S).docs = d.docs /\ Completed(d, S).entries = d.entries
         /\ Completed(d, S).bits = d.bits /\ Completed(d, S).profile = d.profile
BY DEF Begun, Completed, Files

LEMMA StampFacts ==
  ASSUME NEW d \in Files
  PROVE  /\ \A p \in Profiles :
              /\ stamp_profile(d, p) \in Files
              /\ stamp_profile(d, p).docs = d.docs /\ stamp_profile(d, p).entries = d.entries
              /\ stamp_profile(d, p).torn = d.torn /\ stamp_profile(d, p).bits = d.bits
              /\ stamp_profile(d, p).profile = p
         /\ \A b \in FieldBits :
              /\ stamp_field_bits(d, b) \in Files
              /\ stamp_field_bits(d, b).docs = d.docs
              /\ stamp_field_bits(d, b).entries = d.entries
              /\ stamp_field_bits(d, b).torn = d.torn
              /\ stamp_field_bits(d, b).profile = d.profile
              /\ stamp_field_bits(d, b).bits = b
BY DEF stamp_profile, stamp_field_bits, Files

LEMMA ClearFacts ==
  ASSUME NEW d \in Files, NEW S \in SUBSET Id
  PROVE  /\ clear_ids(d, S) \in Files
         /\ clear_ids(d, S).torn = d.torn \ S
         /\ clear_ids(d, S).bits = d.bits /\ clear_ids(d, S).profile = d.profile
         /\ \A i \in Id : clear_ids(d, S).docs[i] = IF i \in S THEN NULL ELSE d.docs[i]
         /\ \A i \in Id : clear_ids(d, S).entries[i] = IF i \in S THEN NULL ELSE d.entries[i]
<1> DEFINE c == DeleteDocs(d, S)
           f == DeleteEntries(c, S)
           g == Completed(f, S)
<1>1. /\ c \in Files /\ c.entries = d.entries /\ c.torn = d.torn
      /\ c.bits = d.bits /\ c.profile = d.profile
      /\ \A i \in Id : c.docs[i] = IF i \in S THEN NULL ELSE d.docs[i]
  BY DeleteDocsFacts
<1> HIDE DEF c
<1>2. /\ f \in Files /\ f.docs = c.docs /\ f.torn = c.torn
      /\ f.bits = c.bits /\ f.profile = c.profile
      /\ \A i \in Id : f.entries[i] = IF i \in S THEN NULL ELSE c.entries[i]
  BY <1>1, DeleteEntriesFacts
<1> HIDE DEF f
<1>3. /\ g \in Files /\ g.docs = f.docs /\ g.entries = f.entries /\ g.torn = f.torn \ S
      /\ g.bits = f.bits /\ g.profile = f.profile
  BY <1>2, TornFacts
<1>4. g = clear_ids(d, S)
  BY DEF clear_ids, c, f
<1> HIDE DEF g
<1> QED
  BY <1>1, <1>2, <1>3, <1>4

LEMMA WriteFacts ==
  ASSUME NEW d \in Files, NEW f, RowsOf(f)
  PROVE  /\ WriteRows(d, f) \in Files
         /\ WriteRows(d, f).torn = d.torn
         /\ WriteRows(d, f).bits = d.bits /\ WriteRows(d, f).profile = d.profile
         /\ \A i \in Id : WriteRows(d, f).docs[i] = IF i \in DOMAIN f THEN f[i].norm ELSE d.docs[i]
         /\ \A i \in Id : WriteRows(d, f).entries[i] = IF i \in DOMAIN f THEN f[i] ELSE d.entries[i]
<1> DEFINE c == InsertDocs(d, f)
           k == ReplaceEntries(c, f)
<1>1. /\ c \in Files /\ c.entries = d.entries /\ c.torn = d.torn
      /\ c.bits = d.bits /\ c.profile = d.profile
      /\ \A i \in Id : c.docs[i] = IF i \in DOMAIN f THEN f[i].norm ELSE d.docs[i]
  BY InsertDocsFacts
<1> HIDE DEF c
<1>2. /\ k \in Files /\ k.docs = c.docs /\ k.torn = c.torn
      /\ k.bits = c.bits /\ k.profile = c.profile
      /\ \A i \in Id : k.entries[i] = IF i \in DOMAIN f THEN f[i] ELSE c.entries[i]
  BY <1>1, ReplaceEntriesFacts
<1>3. k = WriteRows(d, f)
  BY DEF WriteRows, c
<1> HIDE DEF k
<1> QED
  BY <1>1, <1>2, <1>3

-----------------------------------------------------------------------------
(* A step of one engine. *)

\* e's step leaves the other engines where they are.
OnlyMoves(e) ==
  \A f \in Engines \ {e} :
    /\ pc'[f] = pc[f] /\ call'[f] = call[f]
    /\ options'[f] = options[f] /\ field_bits'[f] = field_bits[f]

\* e's step writes the ids S: it marks those of other engines' calls, and leaves
\* both tables right for the others and all as it was elsewhere.
Writes(e, S) ==
  /\ S \subseteq Id
  /\ \A i \in Id \ S : /\ db'.docs[i] = db.docs[i] /\ db'.entries[i] = db.entries[i]
                       /\ i \in db.torn => i \in db'.torn
                       /\ i \in contested => i \in contested'
  /\ S \cap Others(e) \subseteq contested'
  /\ \A i \in S \ (db'.torn \cup contested') : Agree(db', i)

\* What a step of e that writes the ids S has to establish.
StepOK(e, S) == TypeOK' /\ OnlyMoves(e) /\ Writes(e, S) /\ CallOK(e)' /\ WriteOK(e)'

LEMMA OthersInFlight ==
  ASSUME NEW e \in Engines, NEW f \in Engines \ {e}
  PROVE  InFlight(f) \subseteq Others(e)
BY DEF Others

LEMMA OtherWrites ==
  ASSUME TablesInv, NEW e \in Engines, NEW S, OnlyMoves(e), Writes(e, S),
         NEW f \in Engines \ {e}
  PROVE  WriteOK(f)'
<1> DEFINE c == call[f]
<1>1. pc'[f] = pc[f] /\ call'[f] = c /\ options'[f] = options[f] /\ field_bits'[f] = field_bits[f]
  BY DEF OnlyMoves
<1>2. WriteOK(f) /\ c.ids \subseteq Id
  BY DEF TablesInv, TypeOK, Calls
<1>3. Seen(f)' = Seen(f) /\ Seen(f) \subseteq Id
  BY <1>1 DEF Seen
<1>4. ASSUME NEW i \in InFlight(f), i \in Id, i \notin contested'
      PROVE  /\ i \notin contested
             /\ db'.docs[i] = db.docs[i] /\ db'.entries[i] = db.entries[i]
  <2>1. i \notin S
    BY <1>4, OthersInFlight DEF Writes
  <2> QED
    BY <1>4, <2>1 DEF Writes
<1>5. ASSUME NEW i \in InFlight(f), i \in Id, i \in db.torn \cup contested
      PROVE  i \in db'.torn \cup contested'
  <2>1. CASE i \in S
    BY <1>5, <2>1, OthersInFlight DEF Writes
  <2>2. CASE i \notin S
    BY <1>5, <2>2 DEF Writes
  <2> QED
    BY <2>1, <2>2
<1>6. ASSUME pc[f] \in MidWrite
      PROVE  /\ c.ids \subseteq db'.torn \cup contested'
             /\ pc[f] = "ins_entries" =>
                  \A i \in c.ids \ contested' : db'.docs[i] = Norm[options[f], c.text]
             /\ pc[f] = "del_entries" => \A i \in c.ids \ contested' : db'.docs[i] = NULL
  <2>1. InFlight(f) = c.ids
    BY <1>6 DEF InFlight, MidWrite
  <2>2. c.ids \subseteq db'.torn \cup contested'
    BY <1>2, <1>5, <1>6, <2>1 DEF WriteOK
  <2>3. \A i \in c.ids \ contested' : i \notin contested /\ db'.docs[i] = db.docs[i]
    BY <1>2, <1>4, <2>1
  <2> QED
    BY <1>2, <2>2, <2>3 DEF WriteOK
<1>7. ASSUME pc[f] = "regenerate"
      PROVE  \A i \in Seen(f) \ contested' : db'.entries[i] = c.seen[i]
  <2>1. InFlight(f) = Seen(f)
    BY <1>7 DEF InFlight
  <2> QED
    BY <1>2, <1>3, <1>4, <1>7, <2>1 DEF WriteOK
<1>8. ASSUME pc[f] = "repack"
      PROVE  /\ \A i \in Id \ contested' : db'.entries[i] = c.seen[i]
             /\ \A i \in Seen(f) : Fits(i, field_bits[f], c.arg)
  <2>1. InFlight(f) = Id
    BY <1>8 DEF InFlight
  <2> QED
    BY <1>2, <1>4, <1>8, <2>1 DEF WriteOK
<1> HIDE DEF c
<1> QED
  BY <1>1, <1>3, <1>6, <1>7, <1>8 DEF WriteOK, MidWrite

LEMMA TablesStep ==
  ASSUME TablesInv, NEW e \in Engines, NEW S, StepOK(e, S)
  PROVE  TablesInv'
<1> USE DEF StepOK
<1>1. ASSUME NEW f \in Engines PROVE CallOK(f)' /\ WriteOK(f)'
  <2>1. CASE f = e
    BY <2>1
  <2>2. CASE f # e
    <3>1. /\ pc'[f] = pc[f] /\ call'[f] = call[f]
          /\ options'[f] = options[f] /\ field_bits'[f] = field_bits[f]
      BY <2>2 DEF OnlyMoves
    <3>2. CallOK(f)
      BY DEF TablesInv
    <3>3. CallOK(f)'
      BY <3>1, <3>2 DEF CallOK, Seen
    <3> QED
      BY <2>2, <3>3, OtherWrites
  <2> QED
    BY <2>1, <2>2
<1>2. ASSUME NEW i \in Id \ (db'.torn \cup contested') PROVE Agree(db', i)
  <2>1. CASE i \in S
    BY <1>2, <2>1 DEF Writes
  <2>2. CASE i \notin S
    <3>1. i \notin db.torn \cup contested
      BY <1>2, <2>2 DEF Writes
    <3>2. Agree(db, i)
      BY <3>1 DEF TablesInv
    <3> QED
      BY <2>2, <3>2 DEF Writes, Agree
  <2> QED
    BY <2>1, <2>2
<1> QED
  BY <1>1, <1>2 DEF TablesInv

\* A step that leaves the file alone writes nothing.
LEMMA FileStays ==
  ASSUME NEW e \in Engines, db' = db, contested' = contested
  PROVE  Writes(e, {})
BY DEF Writes

\* Nothing is asked of the file by an engine between two calls.
LEMMA NothingBegun ==
  ASSUME NEW e \in Engines, pc'[e] \notin MidWrite \cup {"regenerate", "repack"}
  PROVE  WriteOK(e)'
BY DEF WriteOK, MidWrite

LEMMA NoCallFacts ==
  /\ NoCall \in Calls
  /\ NoCall.op = "none" /\ NoCall.rebuild = FALSE
BY DEF NoCall, Calls, Ops

\* The variables a step of e moves keep their types, and the other engines' parts.
LEMMA Moved ==
  ASSUME TypeOK, NEW e \in Engines, NEW l \in Labels, NEW c \in Calls,
         NEW o \in Configurations \cup {{}}, NEW b \in FieldBits,
         pc' = [pc EXCEPT ![e] = l], call' = [call EXCEPT ![e] = c],
         options' = [options EXCEPT ![e] = o], field_bits' = [field_bits EXCEPT ![e] = b],
         db' \in Files, contested' \in SUBSET Id, mixed' \in BOOLEAN,
         calls' \in 0 .. MaxCalls, faults' \in 0 .. MaxFaults
  PROVE  /\ TypeOK' /\ OnlyMoves(e)
         /\ pc'[e] = l /\ call'[e] = c /\ options'[e] = o /\ field_bits'[e] = b
<1>1. /\ pc \in [Engines -> Labels] /\ call \in [Engines -> Calls]
      /\ options \in [Engines -> Configurations \cup {{}}]
      /\ field_bits \in [Engines -> FieldBits]
  BY DEF TypeOK
<1>2. /\ pc' \in [Engines -> Labels] /\ call' \in [Engines -> Calls]
      /\ options' \in [Engines -> Configurations \cup {{}}]
      /\ field_bits' \in [Engines -> FieldBits]
  BY <1>1
<1>3. OnlyMoves(e)
  BY <1>1 DEF OnlyMoves
<1>4. pc'[e] = l /\ call'[e] = c /\ options'[e] = o /\ field_bits'[e] = b
  BY <1>1
<1> QED
  BY <1>2, <1>3, <1>4 DEF TypeOK

LEMMA Stays ==
  ASSUME TypeOK, NEW e \in Engines
  PROVE  /\ pc = [pc EXCEPT ![e] = pc[e]] /\ pc[e] \in Labels
         /\ call = [call EXCEPT ![e] = call[e]] /\ call[e] \in Calls
         /\ options = [options EXCEPT ![e] = options[e]]
         /\ options[e] \in Configurations \cup {{}}
         /\ field_bits = [field_bits EXCEPT ![e] = field_bits[e]] /\ field_bits[e] \in FieldBits
BY DEF TypeOK

-----------------------------------------------------------------------------
(* Steps that leave the tables alone. *)

LEMMA Bounded ==
  ASSUME TypeOK
  PROVE  /\ calls \in 0 .. MaxCalls /\ faults \in 0 .. MaxFaults
         /\ calls < MaxCalls => calls + 1 \in 0 .. MaxCalls
         /\ faults < MaxFaults => faults + 1 \in 0 .. MaxFaults
         /\ db \in Files /\ contested \in SUBSET Id
BY SharedAssumption DEF TypeOK

\* A step that leaves the file alone and begins no write.
LEMMA QuietStep ==
  ASSUME TablesInv, NEW e \in Engines, NEW l \in Labels, NEW c \in Calls,
         NEW o \in Configurations \cup {{}}, NEW b \in FieldBits,
         pc' = [pc EXCEPT ![e] = l], call' = [call EXCEPT ![e] = c],
         options' = [options EXCEPT ![e] = o], field_bits' = [field_bits EXCEPT ![e] = b],
         l \notin MidWrite \cup {"regenerate", "repack"},
         File, mixed' \in BOOLEAN,
         calls' \in 0 .. MaxCalls, faults' \in 0 .. MaxFaults,
         CallOK(e)'
  PROVE  StepOK(e, {})
<1>1. TypeOK /\ db' = db /\ contested' = contested
  BY DEF TablesInv, File
<1>2. db' \in Files /\ contested' \in SUBSET Id
  BY <1>1, Bounded
<1>3. TypeOK' /\ OnlyMoves(e) /\ pc'[e] = l
  BY <1>1, <1>2, Moved
<1>4. Writes(e, {}) /\ WriteOK(e)'
  BY <1>1, <1>3, FileStays, NothingBegun
<1> QED
  BY <1>3, <1>4 DEF StepOK

LEMMA ReturnStep ==
  ASSUME TablesInv, NEW e \in Engines, Return(e), pc[e] # "closed", Config,
         db' \in Files, contested' \in SUBSET Id, mixed' \in BOOLEAN,
         calls' \in 0 .. MaxCalls, faults' \in 0 .. MaxFaults
  PROVE  /\ TypeOK' /\ OnlyMoves(e) /\ CallOK(e)' /\ WriteOK(e)'
         /\ pc'[e] = "open" /\ call'[e] = NoCall
         /\ options'[e] = options[e] /\ field_bits'[e] = field_bits[e]
<1> DEFINE o == options[e]
           b == field_bits[e]
           l == "open"
           n == NoCall
<1>1. TypeOK /\ CallOK(e)
  BY DEF TablesInv
<1>2. /\ pc' = [pc EXCEPT ![e] = l] /\ call' = [call EXCEPT ![e] = n]
      /\ options' = [options EXCEPT ![e] = o]
      /\ field_bits' = [field_bits EXCEPT ![e] = b]
  BY <1>1, Stays DEF Return, Goto, Config
<1>3. /\ l \in Labels /\ o \in Configurations \cup {{}}
      /\ b \in FieldBits /\ n \in Calls
  BY <1>1, Stays, NoCallFacts DEF Labels, HasBits
<1>4. o \in Configurations
  BY <1>1 DEF CallOK
<1> HIDE DEF o, b, l, n
<1>5. /\ TypeOK' /\ OnlyMoves(e)
      /\ pc'[e] = l /\ call'[e] = n /\ options'[e] = o /\ field_bits'[e] = b
  BY <1>1, <1>2, <1>3, Moved
<1>6. CallOK(e)'
  BY <1>4, <1>5, NoCallFacts DEF CallOK, Opening, MidWrite, l, n
<1>7. WriteOK(e)'
  BY <1>5, NothingBegun DEF MidWrite, l
<1> QED
  BY <1>5, <1>6, <1>7 DEF o, b, l, n

LEMMA ClosedStep ==
  ASSUME TablesInv, NEW e \in Engines, Closed(e), File, mixed' \in BOOLEAN,
         calls' \in 0 .. MaxCalls, faults' \in 0 .. MaxFaults
  PROVE  StepOK(e, {}) /\ pc'[e] = "closed"
<1>1. TypeOK
  BY DEF TablesInv
<1>2. /\ pc' = [pc EXCEPT ![e] = "closed"] /\ call' = [call EXCEPT ![e] = NoCall]
      /\ options' = [options EXCEPT ![e] = {}]
      /\ field_bits' = [field_bits EXCEPT ![e] = DefaultBits]
  BY DEF Closed, Goto
<1>3. "closed" \in Labels /\ {} \in Configurations \cup {{}} /\ DefaultBits \in FieldBits
  BY WordAssumption DEF Labels
<1>4. pc'[e] = "closed" /\ call'[e] = NoCall
  BY <1>1, <1>2 DEF TypeOK
<1>5. CallOK(e)'
  BY <1>4, NoCallFacts DEF CallOK, Opening, MidWrite
<1> QED
  BY <1>1, <1>2, <1>3, <1>4, <1>5, QuietStep, NoCallFacts DEF MidWrite

LEMMA OpenStep ==
  ASSUME TablesInv, NEW e \in Engines, NEW o \in Configurations,
         NEW q \in Requests \cup {NULL}, NEW r \in BOOLEAN,
         open(e, o, q, r), mixed' \in BOOLEAN
  PROVE  StepOK(e, {})
<1> DEFINE c == [NoCall EXCEPT !.op = "open", !.arg = q, !.rebuild = r]
<1>1. TypeOK
  BY DEF TablesInv
<1>2. c \in Calls /\ c.op = "open"
  BY DEF NoCall, Calls, Ops, open, check_field_bits
<1>3. /\ pc' = [pc EXCEPT ![e] = "count_bits"] /\ call' = [call EXCEPT ![e] = c]
      /\ options' = [options EXCEPT ![e] = o]
      /\ field_bits' = [field_bits EXCEPT ![e] = field_bits[e]]
      /\ field_bits[e] \in FieldBits
      /\ File /\ calls' = calls + 1 /\ calls < MaxCalls /\ faults' = faults
  BY <1>1, Stays DEF open, Goto
<1>4. "count_bits" \in Labels
  BY DEF Labels
<1> HIDE DEF c
<1>5. CallOK(e)'
  <2>1. pc'[e] = "count_bits" /\ call'[e] = c /\ options'[e] = o
    BY <1>1, <1>3 DEF TypeOK
  <2> QED
    BY <1>2, <2>1 DEF CallOK, Opening, MidWrite
<1> QED
  BY <1>1, <1>2, <1>3, <1>4, <1>5, QuietStep, Bounded DEF MidWrite

LEMMA Presettled ==
  /\ \A p \in Presets : preset(p) \in Configurations
  /\ preset("Loose") \in Configurations
  /\ OptionSets \subseteq Configurations
  /\ Configurations \subseteq SUBSET Options
<1>1. \A p : preset(p) \in SUBSET Options
  BY DEF preset, Options
<1> QED
  BY <1>1, SharedAssumption DEF Configurations

LEMMA ConstructorSteps ==
  ASSUME TablesInv, NEW e \in Engines, mixed' \in BOOLEAN,
         \/ new_default(e) \/ with_config(e) \/ with_config_rebuilding(e)
         \/ with_options(e) \/ with_options_rebuilding(e)
  PROVE  /\ StepOK(e, {})
         /\ \E o \in Configurations, q \in Requests \cup {NULL}, r \in BOOLEAN : open(e, o, q, r)
<1>1. \E o \in Configurations, q \in Requests \cup {NULL}, r \in BOOLEAN : open(e, o, q, r)
  BY Presettled DEF new_default, with_config, with_config_rebuilding,
                    with_options, with_options_rebuilding
<1> QED
  BY <1>1, OpenStep

\* A constructor goes on to its next step.
LEMMA OpeningStep ==
  ASSUME TablesInv, NEW e \in Engines, pc[e] \in Opening,
         NEW l \in Opening \cup {"select"}, NEW c \in Calls, c.op = "open",
         NEW b \in FieldBits,
         pc' = [pc EXCEPT ![e] = l], call' = [call EXCEPT ![e] = c],
         field_bits' = [field_bits EXCEPT ![e] = b],
         options' = options, mixed' \in BOOLEAN, Bounds,
         db' \in Files, contested' \in SUBSET Id
  PROVE  /\ TypeOK' /\ OnlyMoves(e) /\ CallOK(e)' /\ WriteOK(e)'
         /\ pc'[e] = l /\ call'[e] = c /\ options'[e] = options[e] /\ field_bits'[e] = b
<1> DEFINE o == options[e]
<1>1. TypeOK /\ CallOK(e) /\ pc[e] # "closed"
  BY DEF TablesInv, Opening
<1>2. options' = [options EXCEPT ![e] = o] /\ o \in Configurations \cup {{}}
  BY <1>1, Stays
<1>3. o \in Configurations
  BY <1>1 DEF CallOK
<1>4. l \in Labels
  BY DEF Opening, Labels, HasBits
<1>5. calls' \in 0 .. MaxCalls /\ faults' \in 0 .. MaxFaults
  BY <1>1, Bounded DEF Bounds
<1> HIDE DEF o
<1>6. /\ TypeOK' /\ OnlyMoves(e)
      /\ pc'[e] = l /\ call'[e] = c /\ options'[e] = o /\ field_bits'[e] = b
  BY <1>1, <1>2, <1>4, <1>5, Moved
<1>7. CallOK(e)'
  BY <1>3, <1>6 DEF CallOK, Opening, MidWrite
<1>8. WriteOK(e)'
  BY <1>6, NothingBegun DEF MidWrite, Opening
<1> QED
  BY <1>6, <1>7, <1>8 DEF o

LEMMA QuietOpening ==
  ASSUME TablesInv, NEW e \in Engines, pc[e] \in Opening,
         NEW l \in Opening, NEW c \in Calls, c.op = "open", NEW b \in FieldBits,
         pc' = [pc EXCEPT ![e] = l], call' = [call EXCEPT ![e] = c],
         field_bits' = [field_bits EXCEPT ![e] = b],
         options' = options, mixed' \in BOOLEAN, Bounds, File
  PROVE  StepOK(e, {})
<1>1. db' \in Files /\ contested' \in SUBSET Id
  BY Bounded DEF File, TablesInv
<1>2. TypeOK' /\ OnlyMoves(e) /\ CallOK(e)' /\ WriteOK(e)'
  BY <1>1, OpeningStep
<1>3. Writes(e, {})
  BY FileStays DEF File
<1> QED
  BY <1>2, <1>3 DEF StepOK

\* A constructor is the only call whose engine is not open yet.
LEMMA OpeningCall ==
  ASSUME TablesInv, NEW e \in Engines, pc[e] \in Opening
  PROVE  /\ call[e].op = "open" /\ call[e] \in Calls /\ field_bits[e] \in FieldBits
         /\ call = [call EXCEPT ![e] = call[e]]
         /\ field_bits = [field_bits EXCEPT ![e] = field_bits[e]]
         /\ options[e] \in Configurations
BY Stays DEF TablesInv, CallOK, Opening

LEMMA CountForBits ==
  ASSUME TablesInv, NEW e \in Engines, mixed' \in BOOLEAN, count_for_bits(e)
  PROVE  StepOK(e, {})
<1> DEFINE b == IF call[e].arg = NULL THEN DefaultBits ELSE call[e].arg
<1>1. pc[e] \in Opening
  BY DEF count_for_bits, Opening
<1>2. /\ call[e] \in Calls /\ call[e].op = "open" /\ field_bits[e] \in FieldBits
      /\ call' = [call EXCEPT ![e] = call[e]]
      /\ field_bits = [field_bits EXCEPT ![e] = field_bits[e]]
      /\ options' = options /\ File /\ Bounds
  BY <1>1, OpeningCall DEF count_for_bits
<1>3. b \in FieldBits
  BY <1>2, WordAssumption DEF Calls
<1>4. {"count_profile", "read_bits"} \subseteq Opening
  BY DEF Opening
<1>5. \/ /\ field_bits' = [field_bits EXCEPT ![e] = b]
         /\ pc' = [pc EXCEPT ![e] = "count_profile"]
      \/ /\ field_bits' = [field_bits EXCEPT ![e] = field_bits[e]]
         /\ pc' = [pc EXCEPT ![e] = "read_bits"]
  BY <1>2 DEF count_for_bits, Goto
<1> HIDE DEF b
<1> QED
  BY <1>1, <1>2, <1>3, <1>4, <1>5, QuietOpening

LEMMA ReadBits ==
  ASSUME TablesInv, NEW e \in Engines, mixed' \in BOOLEAN, read_bits(e)
  PROVE  StepOK(e, {})
<1> DEFINE b == StampedBits
<1>1. pc[e] \in Opening /\ File /\ Bounds
  BY DEF read_bits, Opening
<1>2. /\ call[e] \in Calls /\ call[e].op = "open"
      /\ call = [call EXCEPT ![e] = call[e]]
  BY <1>1, OpeningCall
<1>3. b \in FieldBits
  BY WordAssumption DEF StampedBits, TablesInv, TypeOK, Files
<1>4. CASE Closed(e)
  <2>1. calls' \in 0 .. MaxCalls /\ faults' \in 0 .. MaxFaults
    BY <1>1, Bounded DEF Bounds, TablesInv
  <2> QED
    BY <1>1, <1>4, <2>1, ClosedStep
<1>5. CASE ~ Closed(e)
  <2>1. /\ field_bits' = [field_bits EXCEPT ![e] = b] /\ options' = options
        /\ pc' = [pc EXCEPT ![e] = "count_profile"]
        /\ call' = [call EXCEPT ![e] = call[e]]
    BY <1>2, <1>5 DEF read_bits, Goto
  <2>2. "count_profile" \in Opening
    BY DEF Opening
  <2> HIDE DEF b
  <2> QED
    BY <1>1, <1>2, <1>3, <2>1, <2>2, QuietOpening
<1> QED
  BY <1>4, <1>5

LEMMA CountForProfile ==
  ASSUME TablesInv, NEW e \in Engines, mixed' \in BOOLEAN, count_for_profile(e)
  PROVE  StepOK(e, {})
<1> DEFINE c == [call[e] EXCEPT !.rebuild = @ /\ Stored(db) # {}]
           l == IF Stored(db) = {} THEN "stamp_bits" ELSE "read_profile"
<1>1. pc[e] \in Opening /\ File /\ Bounds /\ options' = options
  BY DEF count_for_profile, Opening, Config
<1>2. /\ call[e] \in Calls /\ call[e].op = "open"
      /\ field_bits' = [field_bits EXCEPT ![e] = field_bits[e]] /\ field_bits[e] \in FieldBits
  BY <1>1, OpeningCall DEF count_for_profile, Config
<1>3. c \in Calls /\ c.op = "open" /\ l \in Opening
  BY <1>2 DEF Calls, Opening
<1>4. call' = [call EXCEPT ![e] = c] /\ pc' = [pc EXCEPT ![e] = l]
  BY <1>2 DEF count_for_profile, Goto, TablesInv, TypeOK
<1> HIDE DEF c, l
<1> QED
  BY <1>1, <1>2, <1>3, <1>4, QuietOpening

LEMMA ReadProfile ==
  ASSUME TablesInv, NEW e \in Engines, mixed' \in BOOLEAN, read_profile(e)
  PROVE  StepOK(e, {})
<1> DEFINE m == (IF db.profile = NULL THEN Loose ELSE db.profile) # fingerprint(options[e])
           c == [call[e] EXCEPT !.rebuild = m]
<1>1. pc[e] \in Opening /\ File /\ Bounds
  BY DEF read_profile, Opening
<1>2. /\ call[e] \in Calls /\ call[e].op = "open"
      /\ field_bits = [field_bits EXCEPT ![e] = field_bits[e]] /\ field_bits[e] \in FieldBits
  BY <1>1, OpeningCall
<1>3. CASE Closed(e)
  <2>1. calls' \in 0 .. MaxCalls /\ faults' \in 0 .. MaxFaults
    BY <1>1, Bounded DEF Bounds, TablesInv
  <2> QED
    BY <1>1, <1>3, <2>1, ClosedStep
<1>4. CASE ~ Closed(e)
  <2>1. c \in Calls /\ c.op = "open" /\ "stamp_bits" \in Opening
    BY <1>2 DEF Calls, Opening
  <2>2. /\ pc' = [pc EXCEPT ![e] = "stamp_bits"] /\ call' = [call EXCEPT ![e] = c]
        /\ options' = options /\ field_bits' = [field_bits EXCEPT ![e] = field_bits[e]]
    BY <1>2, <1>4 DEF read_profile, Goto, Config, TablesInv, TypeOK
  <2> HIDE DEF c
  <2> QED
    BY <1>1, <1>2, <2>1, <2>2, QuietOpening
<1> QED
  BY <1>3, <1>4

\* A stamp leaves both tables alone.
LEMMA StampWrites ==
  ASSUME NEW e \in Engines, contested' = contested \cup ({} \cap Others(e)),
         db'.docs = db.docs, db'.entries = db.entries, db'.torn = db.torn
  PROVE  Writes(e, {})
BY DEF Writes

LEMMA WriteBits ==
  ASSUME TablesInv, NEW e \in Engines, mixed' \in BOOLEAN, write_bits(e)
  PROVE  StepOK(e, {})
<1> DEFINE l == IF call[e].rebuild THEN "select" ELSE "stamp_profile"
           c == call[e]
           b == field_bits[e]
<1>1. pc[e] \in Opening /\ Bounds /\ options' = options
  BY DEF write_bits, Opening, Config
<1>2. /\ c \in Calls /\ c.op = "open"
      /\ call' = [call EXCEPT ![e] = c]
      /\ field_bits' = [field_bits EXCEPT ![e] = b] /\ b \in FieldBits
      /\ db \in Files /\ contested \in SUBSET Id
  BY <1>1, OpeningCall DEF write_bits, Config, TablesInv, TypeOK
<1>3. /\ db' = stamp_field_bits(db, b)
      /\ contested' = contested \cup ({} \cap Others(e))
      /\ pc' = [pc EXCEPT ![e] = l]
  BY DEF write_bits, Write, Goto
<1>4. l \in Opening \cup {"select"}
  BY DEF Opening
<1> HIDE DEF l, c, b
<1>5. /\ db' \in Files /\ db'.docs = db.docs /\ db'.entries = db.entries
      /\ db'.torn = db.torn
  BY <1>2, <1>3, StampFacts
<1>6. contested' \in SUBSET Id
  BY <1>2, <1>3
<1>7. TypeOK' /\ OnlyMoves(e) /\ CallOK(e)' /\ WriteOK(e)'
  BY <1>1, <1>2, <1>3, <1>4, <1>5, <1>6, OpeningStep
<1>8. Writes(e, {})
  BY <1>3, <1>5, StampWrites
<1> QED
  BY <1>7, <1>8 DEF StepOK

LEMMA WriteProfile ==
  ASSUME TablesInv, NEW e \in Engines, mixed' \in BOOLEAN, write_profile(e)
  PROVE  StepOK(e, {}) /\ pc'[e] = "open" /\ call'[e] = NoCall
<1> DEFINE p == fingerprint(options[e])
<1>1. pc[e] \in Opening /\ pc[e] # "closed"
  BY DEF write_profile, Opening
<1>2. p \in Profiles /\ db \in Files /\ contested \in SUBSET Id
  BY <1>1, OpeningCall DEF Profiles, TablesInv, TypeOK
<1>3. /\ db' = stamp_profile(db, p) /\ contested' = contested \cup ({} \cap Others(e))
      /\ Return(e) /\ Config /\ Bounds
  BY DEF write_profile, Write
<1> HIDE DEF p
<1>4. /\ db' \in Files /\ db'.docs = db.docs /\ db'.entries = db.entries
      /\ db'.torn = db.torn
  BY <1>2, <1>3, StampFacts
<1>5. /\ calls' \in 0 .. MaxCalls /\ faults' \in 0 .. MaxFaults
      /\ contested' \in SUBSET Id
  BY <1>2, <1>3, Bounded DEF Bounds, TablesInv
<1>6. /\ TypeOK' /\ OnlyMoves(e) /\ CallOK(e)' /\ WriteOK(e)'
      /\ pc'[e] = "open" /\ call'[e] = NoCall
  BY <1>1, <1>3, <1>4, <1>5, ReturnStep
<1>7. Writes(e, {})
  BY <1>3, <1>4, StampWrites
<1> QED
  BY <1>6, <1>7 DEF StepOK

-----------------------------------------------------------------------------
(* Calls that are written a statement at a time. *)

LEMMA BeginStep ==
  ASSUME TablesInv, NEW e \in Engines, NEW c \in Calls, NEW l \in {"del_docs", "select"},
         Begin(e, c, l), ~ c.rebuild, mixed' \in BOOLEAN,
         l = "del_docs" => c.op \in {"index", "remove", "remove_record"},
         l = "select" => c.op \in {"reindex", "change_field_bits"},
         c.op = "index" => c.text \in Texts,
         c.op = "change_field_bits" => c.arg \in FieldBits
  PROVE  /\ StepOK(e, {}) /\ pc'[e] = l /\ call'[e] = c
         /\ options'[e] = options[e] /\ field_bits'[e] = field_bits[e]
<1> DEFINE o == options[e]
           b == field_bits[e]
<1>1. TypeOK /\ CallOK(e) /\ pc[e] = "open" /\ File
  BY DEF TablesInv, Begin
<1>2. /\ pc' = [pc EXCEPT ![e] = l] /\ call' = [call EXCEPT ![e] = c]
      /\ options' = [options EXCEPT ![e] = o]
      /\ field_bits' = [field_bits EXCEPT ![e] = b]
  BY <1>1, Stays DEF Begin, Goto, Config
<1>3. o \in Configurations \cup {{}} /\ b \in FieldBits /\ l \in Labels
  BY <1>1, Stays DEF Labels, HasBits
<1>4. o \in Configurations
  BY <1>1 DEF CallOK
<1>5. /\ calls' \in 0 .. MaxCalls /\ faults' \in 0 .. MaxFaults
      /\ db' \in Files /\ contested' \in SUBSET Id
  BY <1>1, Bounded DEF Begin, File
<1> HIDE DEF o, b
<1>6. /\ TypeOK' /\ OnlyMoves(e)
      /\ pc'[e] = l /\ call'[e] = c /\ options'[e] = o /\ field_bits'[e] = b
  BY <1>1, <1>2, <1>3, <1>5, Moved
<1>7. CallOK(e)'
  BY <1>4, <1>6 DEF CallOK, Opening, MidWrite
<1>8. WriteOK(e)' /\ Writes(e, {})
  BY <1>1, <1>6, NothingBegun, FileStays DEF MidWrite, File
<1> QED
  BY <1>6, <1>7, <1>8 DEF StepOK, o, b

LEMMA NoNegatives ==
  0 .. MaxId \subseteq Id
<1>1. 2^W \in Nat
  BY PowerType, WordAssumption
<1> DEFINE d == 2^W
<1> HIDE DEF d
<1>2. d \in Nat => 0 .. d - 1 \subseteq -d .. d - 1
  OBVIOUS
<1> QED
  BY <1>1, <1>2 DEF d, MaxId, Id

\* The ids remove_record clears.
LEMMA RangeOfIds ==
  ASSUME TypeOK, NEW e \in Engines, NEW r \in 0 .. max_record_id(field_bits[e])
  PROVE  /\ record_id_range(e, r) \in SUBSET Id
         /\ \A s \in 0 .. 2^field_bits[e] - 1 :
              pack(r, s, field_bits[e]) \in record_id_range(e, r)
<1> DEFINE b == field_bits[e]
           lo == range_lo(r, b)
           hi == range_hi(lo, b)
<1>1. b \in FieldBits
  BY DEF TypeOK
<1>2. record_id_range(e, r) = lo .. hi
  BY DEF record_id_range
<1>3. r \in 0 .. max_record_id(b)
  OBVIOUS
<1> HIDE DEF b
<1>4. /\ lo \in 0 .. MaxId /\ hi \in 0 .. MaxId
      /\ \A i \in Id : i \in lo .. hi <=> record_of(i, b) = r
  BY <1>1, <1>3, RangeIsTheRecord
<1>5. \A s \in 0 .. 2^b - 1 :
        pack(r, s, b) \in 0 .. MaxId /\ record_of(pack(r, s, b), b) = r
  BY <1>1, <1>3, PackedComesBack
<1> HIDE DEF lo, hi
<1>6. MaxId \in Int
  <2>1. 2^W \in Nat
    BY PowerType, WordAssumption
  <2> QED
    BY <2>1 DEF MaxId
<1>7. lo .. hi \subseteq 0 .. MaxId
  BY <1>4, <1>6
<1>8. \A s \in 0 .. 2^b - 1 : pack(r, s, b) \in lo .. hi
  BY <1>4, <1>5, NoNegatives
<1> QED
  BY <1>2, <1>7, <1>8, NoNegatives DEF b

LEMMA BeginSteps ==
  ASSUME TablesInv, NEW e \in Engines, mixed' \in BOOLEAN,
         \/ index(e) \/ remove(e) \/ remove_record(e) \/ reindex(e) \/ change_field_bits(e)
  PROVE  /\ StepOK(e, {})
         /\ \E c \in Calls, l \in {"del_docs", "select"} :
              Begin(e, c, l) /\ ~ c.rebuild /\ c.op \in Ops \ {"none", "open"}
<1> DEFINE Good(c, l) ==
             /\ c \in Calls /\ ~ c.rebuild /\ c.op \in Ops \ {"none", "open"}
             /\ l = "del_docs" => c.op \in {"index", "remove", "remove_record"}
             /\ l = "select" => c.op \in {"reindex", "change_field_bits"}
             /\ c.op = "index" => c.text \in Texts
             /\ c.op = "change_field_bits" => c.arg \in FieldBits
<1>1. TypeOK
  BY DEF TablesInv
<1>2. \E c \in Calls, l \in {"del_docs", "select"} : Begin(e, c, l) /\ Good(c, l)
  <2>1. CASE index(e)
    <3>1. PICK id \in DocIds, x \in Texts :
             Begin(e, [NoCall EXCEPT !.op = "index", !.ids = {id}, !.text = x], "del_docs")
      BY <2>1 DEF index
    <3> DEFINE c == [NoCall EXCEPT !.op = "index", !.ids = {id}, !.text = x]
    <3>2. id \in Id
      BY SharedAssumption
    <3>3. Good(c, "del_docs") /\ c \in Calls
      BY <3>2 DEF NoCall, Calls, Ops
    <3> HIDE DEF Good
    <3> QED
      BY <3>1, <3>3
  <2>2. CASE remove(e)
    <3>1. PICK id \in DocIds :
             Begin(e, [NoCall EXCEPT !.op = "remove", !.ids = {id}], "del_docs")
      BY <2>2 DEF remove
    <3> DEFINE c == [NoCall EXCEPT !.op = "remove", !.ids = {id}]
    <3>2. id \in Id
      BY SharedAssumption
    <3>3. Good(c, "del_docs") /\ c \in Calls
      BY <3>2 DEF NoCall, Calls, Ops
    <3> HIDE DEF Good
    <3> QED
      BY <3>1, <3>3
  <2>3. CASE remove_record(e)
    <3>1. PICK r \in RecordIds :
             /\ r \in 0 .. max_record_id(field_bits[e])
             /\ Begin(e, [NoCall EXCEPT !.op = "remove_record",
                                        !.ids = record_id_range(e, r)], "del_docs")
      BY <2>3 DEF remove_record
    <3> DEFINE c == [NoCall EXCEPT !.op = "remove_record", !.ids = record_id_range(e, r)]
    <3>2. record_id_range(e, r) \in SUBSET Id
      BY <1>1, <3>1, RangeOfIds
    <3>3. Good(c, "del_docs") /\ c \in Calls
      BY <3>2 DEF NoCall, Calls, Ops
    <3> HIDE DEF Good
    <3> QED
      BY <3>1, <3>3
  <2>4. CASE reindex(e)
    <3> DEFINE c == [NoCall EXCEPT !.op = "reindex"]
    <3>1. Good(c, "select") /\ c \in Calls
      BY DEF NoCall, Calls, Ops
    <3> HIDE DEF Good
    <3> QED
      BY <2>4, <3>1 DEF reindex
  <2>5. CASE change_field_bits(e)
    <3>1. PICK b \in NewBits :
             /\ check_field_bits(b)
             /\ Begin(e, [NoCall EXCEPT !.op = "change_field_bits", !.arg = b], "select")
      BY <2>5 DEF change_field_bits
    <3> DEFINE c == [NoCall EXCEPT !.op = "change_field_bits", !.arg = b]
    <3>2. b \in FieldBits
      BY <3>1 DEF check_field_bits
    <3>3. Good(c, "select") /\ c \in Calls
      BY <3>2 DEF NoCall, Calls, Ops
    <3> HIDE DEF Good
    <3> QED
      BY <3>1, <3>3
  <2> QED
    BY <2>1, <2>2, <2>3, <2>4, <2>5
<1>3. PICK c \in Calls, l \in {"del_docs", "select"} : Begin(e, c, l) /\ Good(c, l)
  BY <1>2
<1>4. StepOK(e, {})
  BY <1>3, BeginStep
<1> QED
  BY <1>3, <1>4

\* A statement of a call that goes on.
LEMMA GoesOn ==
  ASSUME TablesInv, NEW e \in Engines, pc[e] # "closed", NEW l \in Labels, Goto(e, l),
         UNCHANGED call, Config, Bounds, mixed' \in BOOLEAN,
         db' \in Files, contested' \in SUBSET Id
  PROVE  /\ TypeOK' /\ OnlyMoves(e) /\ pc'[e] = l /\ call'[e] = call[e]
         /\ options'[e] = options[e] /\ options[e] \in Configurations
         /\ field_bits'[e] = field_bits[e]
<1> DEFINE o == options[e]
           b == field_bits[e]
           c == call[e]
<1>1. TypeOK /\ CallOK(e)
  BY DEF TablesInv
<1>2. /\ pc' = [pc EXCEPT ![e] = l] /\ call' = [call EXCEPT ![e] = c]
      /\ options' = [options EXCEPT ![e] = o]
      /\ field_bits' = [field_bits EXCEPT ![e] = b]
  BY <1>1, Stays DEF Goto, Config
<1>3. c \in Calls /\ o \in Configurations \cup {{}} /\ b \in FieldBits
  BY <1>1, Stays
<1>4. o \in Configurations
  BY <1>1 DEF CallOK
<1>5. calls' \in 0 .. MaxCalls /\ faults' \in 0 .. MaxFaults
  BY <1>1, Bounded DEF Bounds
<1> HIDE DEF o, b, c
<1>6. /\ TypeOK' /\ OnlyMoves(e)
      /\ pc'[e] = l /\ call'[e] = c /\ options'[e] = o /\ field_bits'[e] = b
  BY <1>1, <1>2, <1>3, <1>5, Moved
<1> QED
  BY <1>4, <1>6 DEF o, b, c

\* What a write marks as contested.
LEMMA Contested ==
  ASSUME TypeOK, NEW e \in Engines, NEW S \in SUBSET Id,
         contested' = contested \cup (S \cap Others(e))
  PROVE  /\ contested' \in SUBSET Id /\ contested \subseteq contested'
         /\ S \cap Others(e) \subseteq contested'
BY DEF TypeOK

LEMMA DeleteDocsStep ==
  ASSUME TablesInv, NEW e \in Engines, mixed' \in BOOLEAN, delete_docs(e)
  PROVE  StepOK(e, call[e].ids)
<1> DEFINE S == call[e].ids
           d == DeleteDocs(db, S)
           l == IF call[e].op = "index" THEN "ins_docs" ELSE "del_entries"
<1>1. TypeOK /\ CallOK(e) /\ pc[e] = "del_docs" /\ S \in SUBSET Id /\ db \in Files
  BY DEF TablesInv, delete_docs, TypeOK, Calls
<1>2. /\ db' = Begun(d, S) /\ contested' = contested \cup (S \cap Others(e))
      /\ Goto(e, l) /\ UNCHANGED call /\ Config /\ Bounds
  BY DEF delete_docs, Write
<1>3. /\ d \in Files /\ d.entries = db.entries /\ d.torn = db.torn
      /\ \A i \in Id : d.docs[i] = IF i \in S THEN NULL ELSE db.docs[i]
  BY <1>1, DeleteDocsFacts
<1> HIDE DEF S, d
<1>4. /\ db' \in Files /\ db'.torn = db.torn \cup S /\ db'.entries = db.entries
      /\ \A i \in Id : db'.docs[i] = IF i \in S THEN NULL ELSE db.docs[i]
  BY <1>1, <1>2, <1>3, TornFacts
<1>5. /\ contested' \in SUBSET Id /\ contested \subseteq contested'
      /\ S \cap Others(e) \subseteq contested'
  BY <1>1, <1>2, Contested
<1>6. Writes(e, S)
  BY <1>1, <1>4, <1>5 DEF Writes
<1>7. l \in Labels /\ pc[e] # "closed"
  BY <1>1 DEF Labels, HasBits
<1> HIDE DEF l
<1>8. /\ TypeOK' /\ OnlyMoves(e) /\ pc'[e] = l /\ call'[e] = call[e]
      /\ options'[e] = options[e] /\ options[e] \in Configurations
  BY <1>2, <1>4, <1>5, <1>7, GoesOn
<1>9. CallOK(e)'
  BY <1>1, <1>8 DEF CallOK, Opening, MidWrite, l
<1>10. WriteOK(e)'
  BY <1>1, <1>4, <1>8 DEF WriteOK, MidWrite, l, S
<1> QED
  BY <1>6, <1>8, <1>9, <1>10 DEF StepOK, S

LEMMA NormType ==
  ASSUME NEW o \in Configurations, NEW x \in Texts
  PROVE  Norm[o, x] \in Norms
<1> DEFINE N == {Norm[o, y] : y \in Texts}
<1>1. Norm[o, x] \in N
  OBVIOUS
<1>2. N \in {{Norm[c, y] : y \in Texts} : c \in Configurations}
  BY Zenon
<1> HIDE DEF N
<1> QED
  BY <1>1, <1>2, Zenon DEF Norms

LEMMA RowType ==
  ASSUME NEW e \in Engines, options[e] \in Configurations, NEW x \in Texts
  PROVE  /\ Row(e, x) \in Rows
         /\ Row(e, x).norm = Norm[options[e], x] /\ Row(e, x).raw = x
<1>1. Norm[options[e], x] \in Norms
  BY NormType
<1> QED
  BY <1>1 DEF Row, Rows

LEMMA NoNullRow ==
  NULL \notin Rows
BY SharedAssumption

LEMMA InsertDocsStep ==
  ASSUME TablesInv, NEW e \in Engines, mixed' \in BOOLEAN, insert_docs(e)
  PROVE  \E S : StepOK(e, S)
<1> DEFINE S == call[e].ids
           x == call[e].text
           n == Norm[options[e], x]
           rows == IndexRow(e)
<1>0. S \in SUBSET Id /\ db \in Files
  BY DEF TablesInv, TypeOK, Calls
<1>1. /\ TypeOK /\ CallOK(e) /\ WriteOK(e) /\ pc[e] = "ins_docs" /\ pc[e] # "closed"
      /\ S \in SUBSET Id /\ db \in Files /\ Bounds /\ Config
  BY DEF TablesInv, insert_docs, TypeOK, Calls
<1>2. options[e] \in Configurations /\ call[e].op = "index" /\ x \in Texts
  BY <1>1 DEF CallOK
<1>3. CASE Return(e) /\ File
  <2>1. /\ calls' \in 0 .. MaxCalls /\ faults' \in 0 .. MaxFaults
        /\ db' \in Files /\ contested' \in SUBSET Id
    BY <1>1, <1>3, Bounded DEF Bounds, File
  <2>2. TypeOK' /\ OnlyMoves(e) /\ CallOK(e)' /\ WriteOK(e)'
    BY <1>1, <1>3, <2>1, ReturnStep
  <2>3. StepOK(e, {})
    BY <1>3, <2>2, FileStays DEF File, StepOK
  <2> QED
    BY <2>3
<1>4. CASE ~ (Return(e) /\ File)
  <2>1. /\ db' = InsertDocs(db, rows) /\ contested' = contested \cup (S \cap Others(e))
        /\ Goto(e, "ins_entries") /\ UNCHANGED call
    BY <1>4 DEF insert_docs, Write
  <2>2. rows \in [S -> Rows] /\ \A i \in S : rows[i].norm = n
    BY <1>2, RowType DEF IndexRow
  <2> HIDE DEF S, x, n, rows
  <2>3. /\ db' \in Files /\ db'.torn = db.torn /\ db'.entries = db.entries
        /\ \A i \in Id : db'.docs[i] = IF i \in S THEN rows[i].norm ELSE db.docs[i]
    <3>1. RowsOf(rows) /\ DOMAIN rows = S
      BY <1>0, <2>2 DEF RowsOf
    <3> QED
      BY <1>0, <2>1, <3>1, InsertDocsFacts
  <2>4. /\ contested' \in SUBSET Id /\ contested \subseteq contested'
        /\ S \cap Others(e) \subseteq contested'
    BY <1>1, <2>1, Contested
  <2>5. S \subseteq db.torn \cup contested
    BY <1>1 DEF WriteOK, MidWrite, S
  <2>6. Writes(e, S)
    BY <1>1, <2>3, <2>4, <2>5 DEF Writes
  <2>7. "ins_entries" \in Labels
    BY DEF Labels, HasBits
  <2>8. /\ TypeOK' /\ OnlyMoves(e) /\ pc'[e] = "ins_entries" /\ call'[e] = call[e]
        /\ options'[e] = options[e]
    BY <1>1, <2>1, <2>3, <2>4, <2>7, GoesOn
  <2>9. CallOK(e)'
    BY <1>1, <1>2, <2>8 DEF CallOK, Opening, MidWrite, x
  <2>10. \A i \in S : db'.docs[i] = n
    BY <1>1, <2>2, <2>3
  <2>11. WriteOK(e)'
    BY <2>3, <2>4, <2>5, <2>8, <2>10 DEF WriteOK, MidWrite, S, x, n
  <2> QED
    BY <2>6, <2>8, <2>9, <2>11 DEF StepOK
<1> QED
  BY <1>3, <1>4

\* The last statement of a call that is a statement at a time.
LEMMA LastStep ==
  ASSUME TablesInv, NEW e \in Engines, pc[e] # "closed", Return(e), Config, Bounds,
         mixed' \in BOOLEAN, NEW S \in SUBSET Id,
         db' \in Files, contested' = contested \cup (S \cap Others(e)),
         db.torn \ S \subseteq db'.torn,
         \A i \in Id \ S : db'.docs[i] = db.docs[i] /\ db'.entries[i] = db.entries[i],
         \A i \in S \ (db'.torn \cup contested') : Agree(db', i)
  PROVE  StepOK(e, S)
<1>1. TypeOK /\ calls' \in 0 .. MaxCalls /\ faults' \in 0 .. MaxFaults
  BY Bounded DEF TablesInv, Bounds
<1>2. /\ contested' \in SUBSET Id /\ contested \subseteq contested'
      /\ S \cap Others(e) \subseteq contested'
  BY <1>1, Contested
<1>3. TypeOK' /\ OnlyMoves(e) /\ CallOK(e)' /\ WriteOK(e)'
  BY <1>1, <1>2, ReturnStep
<1>4. Writes(e, S)
  BY <1>2 DEF Writes
<1> QED
  BY <1>3, <1>4 DEF StepOK

LEMMA ReplaceEntriesStep ==
  ASSUME TablesInv, NEW e \in Engines, mixed' \in BOOLEAN, replace_entries(e)
  PROVE  StepOK(e, call[e].ids)
<1> DEFINE S == call[e].ids
           x == call[e].text
           n == Norm[options[e], x]
           rows == IndexRow(e)
           d == ReplaceEntries(db, rows)
<1>0. S \in SUBSET Id /\ db \in Files
  BY DEF TablesInv, TypeOK, Calls
<1>1. /\ TypeOK /\ CallOK(e) /\ WriteOK(e) /\ pc[e] = "ins_entries" /\ pc[e] # "closed"
      /\ S \in SUBSET Id /\ db \in Files /\ Bounds /\ Config /\ Return(e)
  BY DEF TablesInv, replace_entries, TypeOK, Calls
<1>2. options[e] \in Configurations /\ x \in Texts
  BY <1>1 DEF CallOK
<1>3. /\ db' = Completed(d, S) /\ contested' = contested \cup (S \cap Others(e))
  BY DEF replace_entries, Write
<1>4. rows \in [S -> Rows] /\ \A i \in S : rows[i].norm = n
  BY <1>2, RowType DEF IndexRow
<1>5. \A i \in S \ contested : db.docs[i] = n
  BY <1>1 DEF WriteOK
<1> HIDE DEF S, x, n, rows
<1>6. /\ d \in Files /\ d.torn = db.torn /\ d.docs = db.docs
      /\ \A i \in Id : d.entries[i] = IF i \in S THEN rows[i] ELSE db.entries[i]
  <2>1. RowsOf(rows) /\ DOMAIN rows = S
    BY <1>0, <1>4 DEF RowsOf
  <2> QED
    BY <1>0, <2>1, ReplaceEntriesFacts
<1> HIDE DEF d
<1>7. /\ db' \in Files /\ db'.torn = db.torn \ S /\ db'.docs = db.docs
      /\ db'.entries = d.entries
  BY <1>1, <1>3, <1>6, TornFacts
<1>8. ASSUME NEW i \in S \ (db'.torn \cup contested') PROVE Agree(db', i)
  <2>1. /\ db'.entries[i] = rows[i] /\ rows[i] # NULL
        /\ db'.docs[i] = rows[i].norm
    BY <1>0, <1>3, <1>4, <1>5, <1>6, <1>7, NoNullRow
  <2> QED
    BY <2>1 DEF Agree
<1>9. StepOK(e, S)
  BY <1>1, <1>3, <1>6, <1>7, <1>8, LastStep
<1> QED
  BY <1>9 DEF S

LEMMA DeleteEntriesStep ==
  ASSUME TablesInv, NEW e \in Engines, mixed' \in BOOLEAN, delete_entries(e)
  PROVE  StepOK(e, call[e].ids)
<1> DEFINE S == call[e].ids
           d == DeleteEntries(db, S)
<1>1. /\ TypeOK /\ WriteOK(e) /\ pc[e] = "del_entries" /\ pc[e] # "closed"
      /\ S \in SUBSET Id /\ db \in Files /\ Bounds /\ Config /\ Return(e)
  BY DEF TablesInv, delete_entries, TypeOK, Calls
<1>2. /\ db' = Completed(d, S) /\ contested' = contested \cup (S \cap Others(e))
  BY DEF delete_entries, Write
<1>3. \A i \in S \ contested : db.docs[i] = NULL
  BY <1>1 DEF WriteOK
<1> HIDE DEF S
<1>4. /\ d \in Files /\ d.torn = db.torn /\ d.docs = db.docs
      /\ \A i \in Id : d.entries[i] = IF i \in S THEN NULL ELSE db.entries[i]
  BY <1>1, DeleteEntriesFacts
<1> HIDE DEF d
<1>5. /\ db' \in Files /\ db'.torn = db.torn \ S /\ db'.docs = db.docs
      /\ db'.entries = d.entries
  BY <1>1, <1>2, <1>4, TornFacts
<1>6. ASSUME NEW i \in S \ (db'.torn \cup contested') PROVE Agree(db', i)
  BY <1>1, <1>2, <1>3, <1>4, <1>5 DEF Agree
<1>7. StepOK(e, S)
  BY <1>1, <1>2, <1>4, <1>5, <1>6, LastStep
<1> QED
  BY <1>7 DEF S

-----------------------------------------------------------------------------
(* Calls that are one transaction. *)

\* A transaction empties the ids S, then writes the rows of f, ids of S.
LEMMA ClearAndWrite ==
  ASSUME NEW d \in Files, NEW S \in SUBSET Id, NEW f, RowsOf(f), DOMAIN f \subseteq S
  PROVE  LET r == WriteRows(clear_ids(d, S), f)
         IN  /\ r \in Files /\ r.torn = d.torn \ S
             /\ r.bits = d.bits /\ r.profile = d.profile
             /\ \A i \in Id \ S : r.docs[i] = d.docs[i] /\ r.entries[i] = d.entries[i]
             /\ \A i \in S : r.entries[i] = IF i \in DOMAIN f THEN f[i] ELSE NULL
             /\ \A i \in S : Agree(r, i)
<1> DEFINE c == clear_ids(d, S)
           r == WriteRows(c, f)
<1>1. /\ c \in Files /\ c.torn = d.torn \ S
      /\ c.bits = d.bits /\ c.profile = d.profile
      /\ \A i \in Id : c.docs[i] = IF i \in S THEN NULL ELSE d.docs[i]
      /\ \A i \in Id : c.entries[i] = IF i \in S THEN NULL ELSE d.entries[i]
  BY ClearFacts
<1> HIDE DEF c
<1>2. c \in Files /\ \A i \in DOMAIN f : f[i] # NULL
  BY <1>1, NoNullRow DEF RowsOf
<1>3. /\ r \in Files /\ r.torn = c.torn
      /\ r.bits = c.bits /\ r.profile = c.profile
      /\ \A i \in Id : r.docs[i] = IF i \in DOMAIN f THEN f[i].norm ELSE c.docs[i]
      /\ \A i \in Id : r.entries[i] = IF i \in DOMAIN f THEN f[i] ELSE c.entries[i]
  BY <1>2, WriteFacts
<1> HIDE DEF r
<1>4. \A i \in S : /\ r.entries[i] = IF i \in DOMAIN f THEN f[i] ELSE NULL
                   /\ r.docs[i] = IF i \in DOMAIN f THEN f[i].norm ELSE NULL
  BY <1>1, <1>2, <1>3
<1>5. \A i \in S : Agree(r, i)
  BY <1>2, <1>4 DEF Agree
<1>6. \A i \in Id \ S : r.docs[i] = d.docs[i] /\ r.entries[i] = d.entries[i]
  BY <1>1, <1>2, <1>3
<1> QED
  BY <1>1, <1>3, <1>4, <1>5, <1>6 DEF c, r

LEMMA TransactStep ==
  ASSUME TablesInv, NEW e \in Engines, mixed' \in BOOLEAN, NEW S \in SUBSET Id,
         NEW d \in Files, Transact(e, d, S), d.torn = db.torn \ S,
         \A i \in Id \ S : d.docs[i] = db.docs[i] /\ d.entries[i] = db.entries[i],
         \A i \in S : Agree(d, i)
  PROVE  StepOK(e, S)
<1>1. /\ TypeOK /\ CallOK(e) /\ pc[e] = "open" /\ calls < MaxCalls
      /\ db' = d /\ contested' = (contested \ S) \cup (S \cap Others(e))
      /\ calls' = calls + 1 /\ UNCHANGED <<pc, call, faults>> /\ Config
  BY DEF TablesInv, Transact
<1>2. contested' \in SUBSET Id
  BY <1>1 DEF TypeOK
<1>3. /\ calls' \in 0 .. MaxCalls /\ faults' \in 0 .. MaxFaults
  BY <1>1, Bounded
<1>4. TypeOK'
  BY <1>1, <1>2, <1>3 DEF TypeOK, Config
<1>5. /\ OnlyMoves(e) /\ pc'[e] = "open" /\ call'[e] = call[e] /\ options'[e] = options[e]
  BY <1>1 DEF OnlyMoves, Config
<1>6. CallOK(e)'
  BY <1>1, <1>5 DEF CallOK, Opening, MidWrite
<1>7. WriteOK(e)'
  BY <1>5, NothingBegun DEF MidWrite
<1>8. Writes(e, S)
  BY <1>1 DEF Writes
<1> QED
  BY <1>4, <1>5, <1>6, <1>7, <1>8 DEF StepOK

\* A transaction that replaces the rows of S by those of f.
LEMMA ReplaceStep ==
  ASSUME TablesInv, NEW e \in Engines, mixed' \in BOOLEAN, NEW S \in SUBSET Id,
         NEW f, RowsOf(f), DOMAIN f \subseteq S,
         Transact(e, WriteRows(clear_ids(db, S), f), S)
  PROVE  /\ StepOK(e, S)
         /\ db'.bits = db.bits /\ db'.profile = db.profile
         /\ \A i \in S : db'.entries[i] = IF i \in DOMAIN f THEN f[i] ELSE NULL
<1> DEFINE d == WriteRows(clear_ids(db, S), f)
<1>1. db \in Files
  BY DEF TablesInv, TypeOK
<1>2. /\ d \in Files /\ d.torn = db.torn \ S
      /\ d.bits = db.bits /\ d.profile = db.profile
      /\ \A i \in Id \ S : d.docs[i] = db.docs[i] /\ d.entries[i] = db.entries[i]
      /\ \A i \in S : d.entries[i] = IF i \in DOMAIN f THEN f[i] ELSE NULL
      /\ \A i \in S : Agree(d, i)
  BY <1>1, ClearAndWrite
<1>3. Transact(e, d, S) /\ db' = d
  BY DEF Transact
<1> HIDE DEF d
<1>4. StepOK(e, S)
  BY <1>2, <1>3, TransactStep
<1> QED
  BY <1>2, <1>3, <1>4

\* One that only empties them.
LEMMA ClearStep ==
  ASSUME TablesInv, NEW e \in Engines, mixed' \in BOOLEAN, NEW S \in SUBSET Id,
         Transact(e, clear_ids(db, S), S)
  PROVE  /\ StepOK(e, S)
         /\ db'.bits = db.bits /\ db'.profile = db.profile
         /\ \A i \in S : db'.entries[i] = NULL
<1> DEFINE d == clear_ids(db, S)
<1>1. db \in Files
  BY DEF TablesInv, TypeOK
<1>2. /\ d \in Files /\ d.torn = db.torn \ S
      /\ d.bits = db.bits /\ d.profile = db.profile
      /\ \A i \in Id : d.docs[i] = IF i \in S THEN NULL ELSE db.docs[i]
      /\ \A i \in Id : d.entries[i] = IF i \in S THEN NULL ELSE db.entries[i]
  BY <1>1, ClearFacts
<1>3. Transact(e, d, S) /\ db' = d
  BY DEF Transact
<1> HIDE DEF d
<1>4. \A i \in S : Agree(d, i)
  BY <1>2 DEF Agree
<1>5. \A i \in Id \ S : d.docs[i] = db.docs[i] /\ d.entries[i] = db.entries[i]
  BY <1>2
<1>6. StepOK(e, S)
  BY <1>2, <1>3, <1>4, <1>5, TransactStep
<1> QED
  BY <1>2, <1>3, <1>6

\* The last item of a batch with a given id.
LEMMA LastItem ==
  ASSUME NEW X, NEW items \in Seq(X), NEW k \in DOMAIN items
  PROVE  \E n \in DOMAIN items :
           /\ items[n].id = items[k].id
           /\ \A m \in DOMAIN items : m > n => items[m].id # items[k].id
<1> DEFINE L == Len(items)
           T == {n \in 0 .. L - 1 : items[L - n].id = items[k].id}
<1>1. L \in Nat /\ DOMAIN items = 1 .. L /\ k \in 1 .. L
  OBVIOUS
<1> HIDE DEF L
<1>2. T \subseteq Nat
  OBVIOUS
<1>3. L - k \in T
  <2>1. L - k \in 0 .. L - 1 /\ L - (L - k) = k
    BY <1>1
  <2> QED
    BY <2>1
<1> HIDE DEF T
<1>4. PICK n \in T : \A m \in T : ~ (m < n)
  BY <1>2, <1>3, Least
<1>5. n \in 0 .. L - 1 /\ items[L - n].id = items[k].id
  BY DEF T
<1>6. ASSUME NEW m \in 1 .. L, m > L - n PROVE items[m].id # items[k].id
  <2>1. L - m \in 0 .. L - 1 /\ L - m < n /\ L - (L - m) = m
    BY <1>1, <1>5, <1>6
  <2>2. L - m \notin T
    BY <1>4, <2>1
  <2> QED
    BY <2>1, <2>2 DEF T
<1>7. L - n \in 1 .. L
  BY <1>1, <1>5
<1> QED
  BY <1>1, <1>5, <1>6, <1>7

\* What a transaction of e leaves: rows as e writes them, or none, on the ids S.
Transacted(e, S) ==
  /\ pc[e] = "open" /\ UNCHANGED <<pc, call>> /\ Config
  /\ db'.bits = db.bits /\ db'.profile = db.profile
  /\ \A i \in S : db'.entries[i] = NULL \/ \E x \in Texts : db'.entries[i] = Row(e, x)
  /\ contested' = (contested \ S) \cup (S \cap Others(e))

LEMMA TransactedRows ==
  ASSUME TablesInv, NEW e \in Engines, mixed' \in BOOLEAN, NEW S \in SUBSET Id,
         NEW f, DOMAIN f \subseteq S,
         \A i \in DOMAIN f : \E x \in Texts : f[i] = Row(e, x),
         Transact(e, WriteRows(clear_ids(db, S), f), S)
  PROVE  StepOK(e, S) /\ Transacted(e, S)
<1>1. /\ pc[e] = "open" /\ UNCHANGED <<pc, call>> /\ Config
      /\ contested' = (contested \ S) \cup (S \cap Others(e))
  BY DEF Transact
<1>2. options[e] \in Configurations
  BY <1>1 DEF TablesInv, CallOK
<1>3. ASSUME NEW i \in DOMAIN f PROVE f[i] \in Rows
  BY <1>2, RowType
<1>4. RowsOf(f)
  BY <1>3 DEF RowsOf
<1>5. /\ StepOK(e, S)
      /\ db'.bits = db.bits /\ db'.profile = db.profile
      /\ \A i \in S : db'.entries[i] = IF i \in DOMAIN f THEN f[i] ELSE NULL
  BY <1>4, ReplaceStep
<1>6. \A i \in S : db'.entries[i] = NULL \/ \E x \in Texts : db'.entries[i] = Row(e, x)
  BY <1>5
<1> QED
  BY <1>1, <1>5, <1>6 DEF Transacted

LEMMA SeqElements ==
  ASSUME NEW X, NEW s \in Seq(X)
  PROVE  \A k \in DOMAIN s : s[k] \in X
OBVIOUS

LEMMA IndexBatchStep ==
  ASSUME TablesInv, NEW e \in Engines, mixed' \in BOOLEAN, index_batch(e)
  PROVE  \E S \in SUBSET Id : StepOK(e, S) /\ Transacted(e, S)
<1> DEFINE ids(items) == {items[k].id : k \in DOMAIN items}
           last(items, i) == CHOOSE k \in DOMAIN items :
             items[k].id = i /\ \A m \in DOMAIN items : m > k => items[m].id # i
           rows(items) == [i \in ids(items) |-> Row(e, items[last(items, i)].text)]
<1>1. PICK items \in ItemLists :
        Transact(e, WriteRows(clear_ids(db, ids(items)), rows(items)), ids(items))
  BY DEF index_batch
<1> DEFINE S == ids(items)
           f == rows(items)
<1>2. items \in Seq([id : Id, text : Texts])
  BY SharedAssumption
<1>3. \A k \in DOMAIN items : items[k].id \in Id /\ items[k].text \in Texts
  <2>1. \A k \in DOMAIN items : items[k] \in [id : Id, text : Texts]
    BY <1>2, SeqElements
  <2> QED
    BY <2>1
<1>4. S \in SUBSET Id
  BY <1>3
<1>5. ASSUME NEW i \in S PROVE last(items, i) \in DOMAIN items
  <2>1. PICK k \in DOMAIN items : items[k].id = i
    OBVIOUS
  <2>2. \E n \in DOMAIN items :
          items[n].id = i /\ \A m \in DOMAIN items : m > n => items[m].id # i
    BY <1>2, <2>1, LastItem
  <2> QED
    BY <2>2
<1> HIDE DEF last
<1>6. DOMAIN f = S
  OBVIOUS
<1>7. ASSUME NEW i \in S PROVE \E x \in Texts : f[i] = Row(e, x)
  BY <1>3, <1>5
<1>8. Transact(e, WriteRows(clear_ids(db, S), f), S)
  BY <1>1
<1> HIDE DEF S, f
<1>9. StepOK(e, S) /\ Transacted(e, S)
  BY <1>4, <1>6, <1>7, <1>8, TransactedRows
<1> QED
  BY <1>4, <1>9

LEMMA WriteRecordsStep ==
  ASSUME TablesInv, NEW e \in Engines, mixed' \in BOOLEAN,
         NEW records, \A k \in DOMAIN records : records[k].fields \in FieldSets,
         WriteRecords(e, records)
  PROVE  \E S \in SUBSET Id : StepOK(e, S) /\ Transacted(e, S)
<1> DEFINE b == field_bits[e]
           replaced(k) == \E m \in DOMAIN records :
                            m > k /\ records[m].record = records[k].record
           live(k) == {s \in DOMAIN records[k].fields :
                         Norm[options[e], records[k].fields[s]] # <<>>}
           K == {m \in DOMAIN records : ~ replaced(m)}
           made(k) == {[id |-> pack(records[k].record, s, b), text |-> records[k].fields[s]] :
                         s \in live(k)}
           items == UNION {made(k) : k \in K}
           D == {x.id : x \in items}
           f == [i \in D |-> Row(e, (CHOOSE x \in items : x.id = i).text)]
           range(k) == record_id_range(e, records[k].record)
           S == UNION {range(k) : k \in DOMAIN records}
<1>1. /\ \A k \in DOMAIN records :
           /\ records[k].record \in 0 .. max_record_id(b)
           /\ \A s \in DOMAIN records[k].fields : s < 2^b
      /\ Transact(e, WriteRows(clear_ids(db, S), f), S)
  BY DEF WriteRecords
<1>2. TypeOK /\ 2^b \in Nat
  BY PowerType, WordAssumption DEF TablesInv, TypeOK, FieldBits, MaxFieldBits
<1>3. ASSUME NEW k \in DOMAIN records
      PROVE  /\ range(k) \in SUBSET Id
             /\ \A x \in made(k) : x.id \in range(k) /\ x.text \in Texts
  <2> DEFINE r == records[k].record
             fields == records[k].fields
  <2>1. fields \in FieldSets /\ r \in 0 .. max_record_id(b) /\ \A s \in DOMAIN fields : s < 2^b
    BY <1>1
  <2>2. DOMAIN fields \subseteq Nat /\ \A s \in DOMAIN fields : fields[s] \in Texts
    BY <2>1, SharedAssumption
  <2> HIDE DEF r, fields
  <2>3. record_id_range(e, r) \in SUBSET Id
        /\ \A s \in 0 .. 2^b - 1 : pack(r, s, b) \in record_id_range(e, r)
    BY <1>2, <2>1, RangeOfIds
  <2>4. \A s \in DOMAIN fields : s \in 0 .. 2^b - 1
    BY <1>2, <2>1, <2>2
  <2>5. \A x \in made(k) :
          \E s \in DOMAIN fields : x = [id |-> pack(r, s, b), text |-> fields[s]]
    BY DEF r, fields
  <2> HIDE DEF made
  <2>6. \A x \in made(k) : x.id \in record_id_range(e, r) /\ x.text \in Texts
    BY <2>2, <2>3, <2>4, <2>5
  <2> QED
    BY <2>3, <2>6 DEF r
<1> HIDE DEF made, range
<1>4. S \in SUBSET Id
  BY <1>3
<1>5. \A x \in items : x.id \in S /\ x.text \in Texts
  BY <1>3
<1> HIDE DEF items
<1>6. D \subseteq S
  BY <1>5
<1>7. ASSUME NEW i \in D PROVE \E x \in Texts : f[i] = Row(e, x)
  <2> DEFINE item == CHOOSE x \in items : x.id = i
  <2>1. item \in items
    OBVIOUS
  <2>2. item.text \in Texts
    BY <1>5, <2>1
  <2>3. f[i] = Row(e, item.text)
    OBVIOUS
  <2> QED
    BY <2>2, <2>3
<1>8. DOMAIN f = D
  OBVIOUS
<1>9. Transact(e, WriteRows(clear_ids(db, S), f), S)
  BY <1>1
<1> HIDE DEF S, D, f
<1>10. StepOK(e, S) /\ Transacted(e, S)
  BY <1>4, <1>6, <1>7, <1>8, <1>9, TransactedRows
<1> QED
  BY <1>4, <1>10

LEMMA IndexRecordStep ==
  ASSUME TablesInv, NEW e \in Engines, mixed' \in BOOLEAN, index_record(e)
  PROVE  \E S \in SUBSET Id : StepOK(e, S) /\ Transacted(e, S)
<1>1. PICK r \in RecordIds, fields \in FieldSets :
        WriteRecords(e, <<[record |-> r, fields |-> fields]>>)
  BY DEF index_record
<1> DEFINE records == <<[record |-> r, fields |-> fields]>>
<1>2. \A k \in DOMAIN records : records[k].fields \in FieldSets
  OBVIOUS
<1> QED
  BY <1>1, <1>2, WriteRecordsStep

LEMMA IndexRecordsBatchStep ==
  ASSUME TablesInv, NEW e \in Engines, mixed' \in BOOLEAN, index_records_batch(e)
  PROVE  \E S \in SUBSET Id : StepOK(e, S) /\ Transacted(e, S)
<1>1. PICK records \in RecordLists : WriteRecords(e, records)
  BY DEF index_records_batch
<1>2. records \in Seq([record : Int, fields : FieldSets])
  BY SharedAssumption
<1>3. \A k \in DOMAIN records : records[k] \in [record : Int, fields : FieldSets]
  BY <1>2, SeqElements
<1> QED
  BY <1>1, <1>3, WriteRecordsStep

LEMMA RemoveSteps ==
  ASSUME TablesInv, NEW e \in Engines, mixed' \in BOOLEAN, remove_batch(e) \/ remove_all(e)
  PROVE  \E S \in SUBSET Id : StepOK(e, S) /\ Transacted(e, S)
<1>1. PICK S \in SUBSET Id : Transact(e, clear_ids(db, S), S)
  BY SharedAssumption DEF remove_batch, remove_all
<1>2. /\ StepOK(e, S)
      /\ db'.bits = db.bits /\ db'.profile = db.profile
      /\ \A i \in S : db'.entries[i] = NULL
  BY <1>1, ClearStep
<1>3. Transacted(e, S)
  BY <1>1, <1>2 DEF Transacted, Transact
<1> QED
  BY <1>2, <1>3

-----------------------------------------------------------------------------
(* Calls that read every row before they write. *)

LEMMA SelectStep ==
  ASSUME TablesInv, NEW e \in Engines, mixed' \in BOOLEAN, select_rows(e)
  PROVE  StepOK(e, {})
<1> DEFINE repacks == call[e].op = "change_field_bits"
           rejected == repacks /\ RepackRejected(db, field_bits[e], call[e].arg)
           S == {i \in Stored(db) : repacks \/ db.entries[i].raw # NULL}
           seen == [i \in Id |-> IF i \in S THEN db.entries[i] ELSE NULL]
           c == [call[e] EXCEPT !.seen = seen]
           l == IF repacks THEN "repack" ELSE "regenerate"
<1>1. /\ TypeOK /\ CallOK(e) /\ pc[e] = "select" /\ pc[e] # "closed"
      /\ Config /\ File /\ Bounds
  BY DEF TablesInv, select_rows
<1>2. /\ calls' \in 0 .. MaxCalls /\ faults' \in 0 .. MaxFaults
      /\ db' \in Files /\ contested' \in SUBSET Id
  BY <1>1, Bounded DEF Bounds, File
<1>3. Writes(e, {})
  BY <1>1, FileStays DEF File
<1>4. CASE rejected
  <2>1. Return(e)
    BY <1>4 DEF select_rows
  <2>2. TypeOK' /\ OnlyMoves(e) /\ CallOK(e)' /\ WriteOK(e)'
    BY <1>1, <1>2, <2>1, ReturnStep
  <2> QED
    BY <1>3, <2>2 DEF StepOK
<1>5. CASE ~ rejected
  <2> DEFINE o == options[e]
             b == field_bits[e]
  <2>1. call[e] \in Calls /\ db.entries \in [Id -> Rows \cup {NULL}]
    BY <1>1 DEF TypeOK, Files
  <2>2. S \subseteq Id /\ \A i \in S : db.entries[i] # NULL
    BY DEF Stored
  <2>3. /\ seen \in [Id -> Rows \cup {NULL}]
        /\ \A i \in Id : seen[i] = IF i \in S THEN db.entries[i] ELSE NULL
    BY <2>1, <2>2
  <2>4. repacks => \A i \in Id : seen[i] = db.entries[i]
    BY <2>3 DEF Stored
  <2>5. repacks => \A i \in Id : seen[i] # NULL => Fits(i, b, call[e].arg)
    BY <1>5, <2>3, <2>4 DEF RepackRejected, Stored
  <2>6. ~ repacks => \A i \in Id : seen[i] # NULL => seen[i].raw # NULL
    BY <2>3
  <2>7. \A i \in Id : seen[i] # NULL => db.entries[i] = seen[i]
    BY <2>3
  <2>8. pc' = [pc EXCEPT ![e] = l] /\ call' = [call EXCEPT ![e] = c]
    <3>1. call' = [call EXCEPT ![e].seen = seen] /\ Goto(e, l)
      BY <1>5 DEF select_rows
    <3> HIDE DEF seen, l
    <3> QED
      BY <1>1, <3>1 DEF Goto, TypeOK
  <2> HIDE DEF S, seen
  <2>9. c \in Calls /\ c.seen = seen /\ c.op = call[e].op /\ c.arg = call[e].arg
        /\ c.rebuild = call[e].rebuild /\ c.text = call[e].text
    BY <2>1, <2>3 DEF Calls
  <2> HIDE DEF c
  <2>10. /\ options' = [options EXCEPT ![e] = o] /\ field_bits' = [field_bits EXCEPT ![e] = b]
         /\ o \in Configurations \cup {{}} /\ b \in FieldBits
    BY <1>1, Stays DEF Config
  <2>11. o \in Configurations
    BY <1>1 DEF CallOK
  <2>12. l \in Labels
    BY DEF Labels, HasBits
  <2> HIDE DEF l, o, b
  <2>13. /\ TypeOK' /\ OnlyMoves(e)
         /\ pc'[e] = l /\ call'[e] = c /\ options'[e] = o /\ field_bits'[e] = b
    <3>1. TypeOK /\ c \in Calls
      BY <1>1, <2>9
    <3> QED
      BY <1>2, <2>8, <2>10, <2>12, <3>1, Moved
  <2>14. Seen(e)' = {i \in Id : seen[i] # NULL}
    BY <2>9, <2>13 DEF Seen
  <2>15. CallOK(e)'
    <3>1. c.op \in {"open", "reindex", "change_field_bits"}
      BY <1>1, <2>9 DEF CallOK
    <3>2. (c.op # "open" => ~ c.rebuild) /\ (c.op = "change_field_bits" => c.arg \in FieldBits)
      BY <1>1, <2>9 DEF CallOK
    <3>3. l = "regenerate" => \A i \in Seen(e)' : c.seen[i].raw # NULL
      BY <2>6, <2>9, <2>14 DEF l
    <3>4. l = "repack" => c.op = "change_field_bits"
      BY <2>9 DEF l
    <3>5. l = "regenerate" => c.op \in {"open", "reindex"}
      BY <2>9, <3>1 DEF l
    <3>6. l \in {"repack", "regenerate"}
      BY DEF l
    <3> QED
      BY <2>11, <2>13, <3>1, <3>2, <3>3, <3>4, <3>5, <3>6 DEF CallOK, Opening, MidWrite
  <2>16. WriteOK(e)'
    <3>1. l \in {"repack", "regenerate"} /\ (l = "repack" => repacks)
      BY DEF l
    <3>2. db' = db /\ contested' = contested
      BY <1>1 DEF File
    <3>3. l = "repack" => \A i \in Id : db'.entries[i] = c.seen[i]
      BY <2>4, <2>9, <3>1, <3>2
    <3>4. l = "repack" => \A i \in Seen(e)' : Fits(i, b, c.arg)
      BY <2>5, <2>9, <2>14, <3>1
    <3>5. l = "regenerate" => \A i \in Seen(e)' : db'.entries[i] = c.seen[i]
      BY <2>7, <2>9, <2>14, <3>2
    <3> QED
      BY <2>13, <3>1, <3>3, <3>4, <3>5 DEF WriteOK, MidWrite
  <2> QED
    BY <1>3, <2>13, <2>15, <2>16 DEF StepOK
<1> QED
  BY <1>4, <1>5

\* What regenerate does to the tables; it leaves both keys alone.
LEMMA RegeneratedFacts ==
  ASSUME TablesInv, NEW e \in Engines, pc[e] = "regenerate"
  PROVE  LET d == Regenerated(e, db)
         IN  /\ d \in Files /\ d.torn = db.torn \ Seen(e)
             /\ d.bits = db.bits /\ d.profile = db.profile
             /\ \A i \in Id \ Seen(e) : d.docs[i] = db.docs[i] /\ d.entries[i] = db.entries[i]
             /\ Stored(d) = Stored(db)
             /\ \A i \in Seen(e) \cap Stored(db) :
                  /\ d.entries[i].raw = db.entries[i].raw
                  /\ d.entries[i].norm = Norm[options[e], call[e].seen[i].raw]
             /\ \A i \in Seen(e) \ contested : Agree(d, i)
<1> DEFINE S == Seen(e)
           rows == [i \in S |-> Row(e, call[e].seen[i].raw)]
           upd == [i \in S \cap Stored(db) |->
                     [norm |-> rows[i].norm, raw |-> db.entries[i].raw]]
           f == InsertDocs(db, rows)
           g == ReplaceEntries(f, upd)
           d == Completed(g, S)
<1>1. /\ db \in Files /\ S \in SUBSET Id
  BY DEF TablesInv, TypeOK, Seen
<1>2. options[e] \in Configurations /\ \A i \in S : call[e].seen[i].raw # NULL
  BY DEF TablesInv, CallOK
<1>3. \A i \in S : call[e].seen[i] \in Rows
  BY DEF TablesInv, TypeOK, Calls, Seen
<1>4. \A i \in S : call[e].seen[i].raw \in Texts
  BY <1>2, <1>3 DEF Rows
<1>5. /\ RowsOf(rows) /\ DOMAIN rows = S
      /\ \A i \in S : rows[i] \in Rows /\ rows[i].norm = Norm[options[e], call[e].seen[i].raw]
  BY <1>1, <1>2, <1>4, RowType DEF RowsOf
<1>6. \A i \in Stored(db) : i \in Id /\ db.entries[i] \in Rows /\ db.entries[i] # NULL
  BY <1>1 DEF Files, Stored
<1> HIDE DEF rows, S
<1>7. /\ RowsOf(upd) /\ DOMAIN upd = S \cap Stored(db)
      /\ \A i \in S \cap Stored(db) :
           upd[i].norm = rows[i].norm /\ upd[i].raw = db.entries[i].raw
  BY <1>5, <1>6 DEF RowsOf, Rows
<1> HIDE DEF upd
<1>8. /\ f \in Files /\ f.entries = db.entries /\ f.torn = db.torn
      /\ f.bits = db.bits /\ f.profile = db.profile
      /\ \A i \in Id : f.docs[i] = IF i \in DOMAIN rows THEN rows[i].norm ELSE db.docs[i]
  <2>1. RowsOf(rows)
    BY <1>5
  <2>2. db \in Files
    BY <1>1
  <2> QED
    BY <2>1, <2>2, InsertDocsFacts
<1> HIDE DEF f
<1>9. /\ g \in Files /\ g.docs = f.docs /\ g.torn = f.torn
      /\ g.bits = f.bits /\ g.profile = f.profile
      /\ \A i \in Id : g.entries[i] = IF i \in DOMAIN upd THEN upd[i] ELSE f.entries[i]
  BY <1>7, <1>8, ReplaceEntriesFacts
<1> HIDE DEF g
<1>10. /\ d \in Files /\ d.docs = g.docs /\ d.entries = g.entries /\ d.torn = g.torn \ S
       /\ d.bits = g.bits /\ d.profile = g.profile
  BY <1>1, <1>9, TornFacts
<1>11. d = Regenerated(e, db)
  BY DEF Regenerated, d, g, f, upd, rows, S
<1> HIDE DEF d
<1>12. \A i \in Id : d.docs[i] = IF i \in S THEN rows[i].norm ELSE db.docs[i]
  <2>1. DOMAIN rows = S
    BY <1>5
  <2>2. d.docs = f.docs
    BY <1>9, <1>10
  <2>3. \A i \in Id : f.docs[i] = IF i \in DOMAIN rows THEN rows[i].norm ELSE db.docs[i]
    BY <1>8
  <2> QED
    BY <2>1, <2>2, <2>3
<1>13. \A i \in Id : d.entries[i] = IF i \in S \cap Stored(db) THEN upd[i] ELSE db.entries[i]
  BY <1>7, <1>8, <1>9, <1>10
<1>14. \A i \in S \cap Stored(db) : upd[i] # NULL
  BY <1>7, NoNullRow DEF RowsOf
<1>15. Stored(d) = Stored(db)
  BY <1>13, <1>14 DEF Stored
<1>16. ASSUME NEW i \in S \ contested PROVE Agree(d, i)
  <2>1. WriteOK(e)
    BY DEF TablesInv
  <2>2. db.entries[i] = call[e].seen[i]
    BY <2>1 DEF WriteOK, S
  <2>3. i \in Id /\ db.entries[i] # NULL
    BY <1>1, <1>3, <2>2, NoNullRow
  <2>4. i \in S \cap Stored(db)
    BY <2>3 DEF Stored
  <2>5. d.entries[i] = upd[i] /\ d.docs[i] = rows[i].norm
    BY <1>12, <1>13, <2>3, <2>4
  <2> QED
    BY <1>7, <1>14, <2>4, <2>5 DEF Agree
<1>17. /\ d.torn = db.torn \ S /\ d.bits = db.bits /\ d.profile = db.profile
       /\ \A i \in Id \ S : d.docs[i] = db.docs[i] /\ d.entries[i] = db.entries[i]
  BY <1>8, <1>9, <1>10, <1>12, <1>13
<1>18. \A i \in S \cap Stored(db) :
         /\ d.entries[i].raw = db.entries[i].raw
         /\ d.entries[i].norm = Norm[options[e], call[e].seen[i].raw]
  BY <1>5, <1>6, <1>7, <1>13
<1> QED
  BY <1>10, <1>11, <1>15, <1>16, <1>17, <1>18 DEF S

LEMMA RegenerateStep ==
  ASSUME TablesInv, NEW e \in Engines, mixed' \in BOOLEAN, regenerate(e)
  PROVE  StepOK(e, Seen(e)) /\ pc'[e] = "open" /\ call'[e] = NoCall
<1> DEFINE S == Seen(e)
           d == Regenerated(e, db)
           p == fingerprint(options[e])
<1>1. /\ pc[e] = "regenerate" /\ pc[e] # "closed" /\ S \in SUBSET Id
      /\ Return(e) /\ Config /\ Bounds
      /\ db' = stamp_profile(d, p) /\ contested' = contested \cup (S \cap Others(e))
  BY DEF regenerate, Seen, Write
<1>2. /\ d \in Files /\ d.torn = db.torn \ S
      /\ \A i \in Id \ S : d.docs[i] = db.docs[i] /\ d.entries[i] = db.entries[i]
      /\ \A i \in S \ contested : Agree(d, i)
  BY <1>1, RegeneratedFacts
<1>3. p \in Profiles
  BY <1>1 DEF Profiles, TablesInv, CallOK
<1> HIDE DEF d, p, S
<1>4. db' \in Files /\ db'.docs = d.docs /\ db'.entries = d.entries /\ db'.torn = d.torn
  BY <1>1, <1>2, <1>3, StampFacts
<1>5. \A i \in S \ (db'.torn \cup contested') : Agree(db', i)
  BY <1>1, <1>2, <1>4 DEF Agree
<1>6. /\ db.torn \ S \subseteq db'.torn
      /\ \A i \in Id \ S : db'.docs[i] = db.docs[i] /\ db'.entries[i] = db.entries[i]
  BY <1>2, <1>4
<1>7. StepOK(e, S)
  BY <1>1, <1>4, <1>5, <1>6, LastStep
<1>8. pc'[e] = "open" /\ call'[e] = NoCall
  BY <1>1 DEF Return, Goto, TablesInv, TypeOK
<1> QED
  BY <1>7, <1>8 DEF S

\* Repacked empties both tables and fills them from the rows of entries, each
\* at the id it is repacked to.
LEMMA RepackedFacts ==
  ASSUME NEW d \in Files, NEW old \in FieldBits, NEW new \in FieldBits
  PROVE  LET r == Repacked(d, old, new)
         IN  /\ r \in Files /\ r.torn = d.torn \ Id /\ r.profile = d.profile /\ r.bits = new
             /\ \A i \in Id : Agree(r, i)
             /\ \A i \in Id : r.entries[i] # NULL =>
                  \E j \in Stored(d) : Repack(j, old, new) = i /\ r.entries[i] = d.entries[j]
             /\ \A j \in Stored(d) : Repack(j, old, new) \in Id =>
                  \E k \in Stored(d) : /\ Repack(k, old, new) = Repack(j, old, new)
                                       /\ r.entries[Repack(j, old, new)] = d.entries[k]
<1> DEFINE from(i) == {j \in Stored(d) : Repack(j, old, new) = i}
           D == {k \in Id : from(k) # {}}
           src(i) == CHOOSE j \in from(i) : TRUE
           f == [i \in D |-> d.entries[src(i)]]
           w == WriteRows(clear_ids(d, Id), f)
           r == stamp_field_bits(w, new)
<1>1. ASSUME NEW i \in D
      PROVE  src(i) \in Stored(d) /\ Repack(src(i), old, new) = i
  <2>1. src(i) \in from(i)
    OBVIOUS
  <2> HIDE DEF src
  <2> QED
    BY <2>1
<1>2. \A j \in Stored(d) : d.entries[j] \in Rows
  BY DEF Stored, Files
<1> HIDE DEF src
<1>3. Id \in SUBSET Id /\ DOMAIN f \subseteq Id /\ DOMAIN f = D /\ RowsOf(f)
  BY <1>1, <1>2 DEF RowsOf
<1>4. \A i \in D : f[i] = d.entries[src(i)]
  OBVIOUS
<1>5. \A j \in Stored(d) : Repack(j, old, new) \in Id => Repack(j, old, new) \in D
  OBVIOUS
<1> HIDE DEF D, f
<1>6. /\ w \in Files /\ w.torn = d.torn \ Id
      /\ w.bits = d.bits /\ w.profile = d.profile
      /\ \A i \in Id : w.entries[i] = IF i \in DOMAIN f THEN f[i] ELSE NULL
      /\ \A i \in Id : Agree(w, i)
  BY <1>3, ClearAndWrite
<1> HIDE DEF w
<1>7. /\ r \in Files /\ r.docs = w.docs /\ r.entries = w.entries /\ r.torn = w.torn
      /\ r.profile = w.profile /\ r.bits = new
  BY <1>6, StampFacts
<1>8. r = Repacked(d, old, new)
  BY DEF Repacked, w, f, D, src
<1> HIDE DEF r
<1>9. \A i \in Id : Agree(r, i)
  BY <1>6, <1>7 DEF Agree
<1>10. \A i \in D : r.entries[i] = d.entries[src(i)]
  BY <1>3, <1>4, <1>6, <1>7
<1>11. \A i \in Id : r.entries[i] # NULL => i \in D
  BY <1>3, <1>6, <1>7
<1>12. \A i \in Id : r.entries[i] # NULL =>
         \E j \in Stored(d) : Repack(j, old, new) = i /\ r.entries[i] = d.entries[j]
  BY <1>1, <1>10, <1>11
<1>13. \A j \in Stored(d) : Repack(j, old, new) \in Id =>
         \E k \in Stored(d) : /\ Repack(k, old, new) = Repack(j, old, new)
                              /\ r.entries[Repack(j, old, new)] = d.entries[k]
  BY <1>1, <1>5, <1>10
<1> QED
  BY <1>6, <1>7, <1>8, <1>9, <1>12, <1>13

\* What a change of encoding finds, and leaves.
LEMMA RepackStep ==
  ASSUME TablesInv, NEW e \in Engines, mixed' \in BOOLEAN, repack(e)
  PROVE  /\ StepOK(e, Id)
         /\ pc'[e] = "open" /\ call'[e] = NoCall /\ options'[e] = options[e]
         /\ field_bits'[e] = call[e].arg
<1> DEFINE old == field_bits[e]
           new == call[e].arg
           d == [db EXCEPT !.entries = call[e].seen]
           o == options[e]
           l == "open"
           n == NoCall
<1>1. /\ TypeOK /\ CallOK(e) /\ pc[e] = "repack"
      /\ Return(e) /\ UNCHANGED options /\ Bounds
      /\ db' = Repacked(d, old, new)
      /\ field_bits' = [field_bits EXCEPT ![e] = new]
  BY DEF TablesInv, repack
<1>2. old \in FieldBits /\ new \in FieldBits
  BY <1>1 DEF TypeOK, CallOK
<1>3. d \in Files /\ d.torn = db.torn
  BY <1>1 DEF TypeOK, Files, Calls
<1>4. contested' = contested \cup Others(e)
                     \cup {Repack(i, old, new) : i \in {j \in contested : Fits(j, old, new)}}
  BY DEF repack
<1>5. \A i \in Id : Fits(i, old, new) => Repack(i, old, new) \in Id
  BY <1>2, RepackedKeeps, NoNegatives
<1>6. Others(e) \subseteq Id
  BY <1>1 DEF TypeOK, Calls, Others, InFlight, Seen
<1> HIDE DEF old, new, d, o, l, n
<1>7. contested' \in SUBSET Id /\ Others(e) \subseteq contested' /\ contested \subseteq contested'
  BY <1>1, <1>4, <1>5, <1>6 DEF TypeOK
<1>8. db' \in Files /\ \A i \in Id : Agree(db', i)
  BY <1>1, <1>2, <1>3, RepackedFacts
<1>9. /\ pc' = [pc EXCEPT ![e] = l] /\ call' = [call EXCEPT ![e] = n]
      /\ options' = [options EXCEPT ![e] = o] /\ o \in Configurations \cup {{}}
      /\ l \in Labels /\ n \in Calls
  BY <1>1, Stays, NoCallFacts DEF Return, Goto, Labels, HasBits, l, n, o
<1>10. o \in Configurations
  BY <1>1 DEF CallOK, o
<1>11. calls' \in 0 .. MaxCalls /\ faults' \in 0 .. MaxFaults
  BY <1>1, Bounded DEF Bounds
<1>12. /\ TypeOK' /\ OnlyMoves(e)
       /\ pc'[e] = l /\ call'[e] = n /\ options'[e] = o /\ field_bits'[e] = new
  <2>1. TypeOK /\ contested' \in SUBSET Id /\ db' \in Files
    BY <1>1, <1>7, <1>8
  <2>2. field_bits' = [field_bits EXCEPT ![e] = new] /\ new \in FieldBits
    BY <1>1, <1>2
  <2> QED
    BY <1>9, <1>11, <2>1, <2>2, Moved
<1>13. CallOK(e)'
  BY <1>10, <1>12, NoCallFacts DEF CallOK, Opening, MidWrite, l, n
<1>14. WriteOK(e)'
  BY <1>12, NothingBegun DEF MidWrite, l
<1>15. Writes(e, Id)
  BY <1>7, <1>8 DEF Writes
<1>16. StepOK(e, Id)
  BY <1>12, <1>13, <1>14, <1>15 DEF StepOK
<1> QED
  BY <1>12, <1>16 DEF l, n, o, new

-----------------------------------------------------------------------------
(* Ends. *)

LEMMA EndSteps ==
  ASSUME TablesInv, NEW e \in Engines, mixed' \in BOOLEAN,
         call_fails(e) \/ dies(e) \/ close(e)
  PROVE  StepOK(e, {}) /\ pc'[e] \in {"open", "closed"}
<1>1. /\ pc[e] # "closed" /\ File
      /\ Closed(e) \/ (Return(e) /\ Config)
  BY DEF call_fails, dies, close
<1>2. calls' \in 0 .. MaxCalls /\ faults' \in 0 .. MaxFaults
  BY Bounded DEF TablesInv, call_fails, dies, close, Bounds
<1>3. CASE Closed(e)
  BY <1>1, <1>2, <1>3, ClosedStep
<1>4. CASE Return(e) /\ Config
  <2>1. db' \in Files /\ contested' \in SUBSET Id
    BY <1>1, Bounded DEF TablesInv, File
  <2>2. TypeOK' /\ OnlyMoves(e) /\ CallOK(e)' /\ WriteOK(e)' /\ pc'[e] = "open"
    BY <1>1, <1>2, <1>4, <2>1, ReturnStep
  <2>3. Writes(e, {})
    BY <1>1, FileStays DEF File
  <2> QED
    BY <2>2, <2>3 DEF StepOK
<1> QED
  BY <1>1, <1>3, <1>4

-----------------------------------------------------------------------------
(* The tables. *)

LEMMA EveryStep ==
  ASSUME TablesInv, NEW e \in Engines, mixed' \in BOOLEAN, Step(e)
  PROVE  \E S : StepOK(e, S)
<1>1. CASE \/ new_default(e) \/ with_config(e) \/ with_config_rebuilding(e)
           \/ with_options(e) \/ with_options_rebuilding(e)
  BY <1>1, ConstructorSteps
<1>2. CASE count_for_bits(e) \/ read_bits(e) \/ count_for_profile(e) \/ read_profile(e)
  BY <1>2, CountForBits, ReadBits, CountForProfile, ReadProfile
<1>3. CASE write_bits(e) \/ write_profile(e)
  BY <1>3, WriteBits, WriteProfile
<1>4. CASE \/ index(e) \/ remove(e) \/ remove_record(e) \/ reindex(e) \/ change_field_bits(e)
  BY <1>4, BeginSteps
<1>5. CASE delete_docs(e) \/ insert_docs(e) \/ replace_entries(e) \/ delete_entries(e)
  BY <1>5, DeleteDocsStep, InsertDocsStep, ReplaceEntriesStep, DeleteEntriesStep
<1>6. CASE \/ index_batch(e) \/ remove_batch(e) \/ remove_all(e)
           \/ index_record(e) \/ index_records_batch(e)
  BY <1>6, IndexBatchStep, IndexRecordStep, IndexRecordsBatchStep, RemoveSteps
<1>7. CASE select_rows(e) \/ regenerate(e) \/ repack(e)
  BY <1>7, SelectStep, RegenerateStep, RepackStep
<1>8. CASE call_fails(e) \/ dies(e) \/ close(e)
  BY <1>8, EndSteps
<1> QED
  BY <1>1, <1>2, <1>3, <1>4, <1>5, <1>6, <1>7, <1>8 DEF Step

LEMMA TablesInit ==
  Init => TablesInv
<1> SUFFICES ASSUME Init PROVE TablesInv
  OBVIOUS
<1> DEFINE Empty(S, n) == [docs |-> [i \in Id |-> IF i \in S THEN n ELSE NULL],
                           entries |-> [i \in Id |-> IF i \in S THEN [norm |-> n, raw |-> NULL]
                                                     ELSE NULL],
                           profile |-> NULL, bits |-> NULL, torn |-> {}]
<1>1. PICK S \in {{}, LegacyIds}, x \in Texts : db = Empty(S, Norm[preset("Loose"), x])
  BY DEF Init
<1> DEFINE n == Norm[preset("Loose"), x]
<1>2. n \in Norms
  BY Presettled, NormType
<1>3. [norm |-> n, raw |-> NULL] \in Rows
  BY <1>2 DEF Rows
<1> HIDE DEF n
<1>4. db = Empty(S, n)
  BY <1>1 DEF n
<1>5. db \in Files /\ contested = {} /\ db.torn = {}
  BY <1>2, <1>3, <1>4 DEF Init, Files
<1>6. \A i \in Id : Agree(db, i)
  BY <1>3, <1>4, NoNullRow DEF Agree
<1>7. TypeOK
  <2>1. pc \in [Engines -> Labels] /\ call \in [Engines -> Calls]
    BY NoCallFacts DEF Init, Labels
  <2>2. /\ options \in [Engines -> Configurations \cup {{}}]
        /\ field_bits \in [Engines -> FieldBits]
    BY WordAssumption DEF Init
  <2>3. calls \in 0 .. MaxCalls /\ faults \in 0 .. MaxFaults /\ mixed \in BOOLEAN
    <3>1. calls = 0 /\ faults = 0 /\ mixed = FALSE
      BY DEF Init
    <3>2. MaxCalls \in Nat /\ MaxFaults \in Nat
      BY SharedAssumption
    <3>3. mixed \in BOOLEAN
      BY <3>1
    <3>4. calls \in 0 .. MaxCalls /\ faults \in 0 .. MaxFaults
      <4>1. calls = 0 /\ faults = 0
        BY <3>1
      <4> QED
        BY <3>2, <4>1
    <3> QED
      BY <3>3, <3>4
  <2> QED
    BY <1>5, <2>1, <2>2, <2>3 DEF TypeOK
<1>8. ASSUME NEW e \in Engines PROVE CallOK(e) /\ WriteOK(e)
  <2>1. pc[e] = "closed" /\ call[e] = NoCall
    BY DEF Init
  <2> QED
    BY <2>1, NoCallFacts DEF CallOK, WriteOK, MidWrite, Opening
<1> QED
  BY <1>6, <1>7, <1>8 DEF TablesInv

LEMMA TablesNext ==
  ASSUME TablesInv, [Next]_vars
  PROVE  TablesInv'
<1>1. CASE Next
  <2>1. PICK e \in Engines : Step(e)
    BY <1>1 DEF Next
  <2>2. mixed' \in BOOLEAN
    <3>1. mixed \in BOOLEAN
      BY DEF TablesInv, TypeOK
    <3>2. mixed' = (mixed \/ \E a, b \in Engines : Differ(a, b)')
      BY <1>1 DEF Next
    <3> QED
      BY <3>1, <3>2
  <2>3. \E S : StepOK(e, S)
    BY <2>1, <2>2, EveryStep
  <2> QED
    BY <2>3, TablesStep
<1>2. CASE UNCHANGED vars
  <2>1. TypeOK'
    BY <1>2 DEF vars, TablesInv, TypeOK
  <2>2. ASSUME NEW e \in Engines PROVE CallOK(e)' /\ WriteOK(e)'
    BY <1>2 DEF vars, TablesInv, CallOK, WriteOK, Seen
  <2>3. \A i \in Id \ (db'.torn \cup contested') : Agree(db', i)
    BY <1>2 DEF vars, TablesInv
  <2> QED
    BY <2>1, <2>2, <2>3 DEF TablesInv
<1> QED
  BY <1>1, <1>2

\* What every later argument about the file rests on: in each state a call knows
\* how far its write has come, and its plan still fits the rows it has read, but
\* for ids another engine has written meanwhile.
THEOREM TablesInvariant ==
  Spec => []TablesInv
BY TablesInit, TablesNext, PTL DEF Spec

\* An engine's field_bits, the file's stamps and every row keep their types,
\* whatever engines do to the file at once.
THEOREM TypeCorrect ==
  Spec => []TypeOK
<1>1. TablesInv => TypeOK
  BY DEF TablesInv
<1> QED
  BY <1>1, TablesInvariant, PTL

\* docs and entries hold the same documents, but for ids whose last autocommitted
\* write was cut short and ids that two engines were writing at the same time
\* (index, remove and remove_record are several statements, each of which another
\* connection may come between).
THEOREM TablesTogether ==
  Spec => []TablesAgree
<1>1. TablesInv => TablesAgree
  BY DEF TablesInv, TablesAgree, Agree
<1> QED
  BY <1>1, TablesInvariant, PTL

-----------------------------------------------------------------------------
(***************************************************************************)
(* The stamps and the rows: while no two engines have been past their      *)
(* checks with different configurations, the checks keep the               *)
(* normalizations and the encodings of one file apart.                     *)
(***************************************************************************)
-----------------------------------------------------------------------------
(* The key an index is stamped with identifies the option set. *)

\* The key of every set of steps but the two presets has the part "nfkc", which
\* no historical key has.
Historical == {"loose", "nfkc_case_fold"}

\* Each step has a part of its own.
LEMMA PartsDiffer ==
  \A x, y \in Options : part[x] = part[y] => x = y
BY DEF Options, part

\* No part is the foundation's or one of the historical keys.
LEMMA PartsAreNoKeys ==
  \A x \in Options : part[x] # "nfkc" /\ part[x] \notin Historical
BY DEF Options, part, Historical

\* A set of steps can be read off the parts of its key.
LEMMA StepsFromParts ==
  ASSUME NEW o \in SUBSET Options, NEW x \in Options
  PROVE  x \in o <=> part[x] \in {"nfkc"} \cup {part[y] : y \in o}
<1>1. ASSUME part[x] \in {"nfkc"} \cup {part[y] : y \in o}  PROVE x \in o
  <2>1. PICK y \in o : part[x] = part[y]  BY <1>1, PartsAreNoKeys
  <2>2. QED BY <2>1, PartsDiffer
<1>2. QED BY <1>1

\* Two option sets never share a fingerprint, so an index built under one is
\* never taken for an index built under the other: open and reindexStatus see
\* every change of configuration (NormalizeOptions::fingerprint).
THEOREM FingerprintIdentifies ==
  \A o1, o2 \in SUBSET Options : fingerprint(o1) = fingerprint(o2) => o1 = o2
<1> SUFFICES ASSUME NEW o1 \in SUBSET Options, NEW o2 \in SUBSET Options,
                    fingerprint(o1) = fingerprint(o2)
             PROVE  o1 = o2
  OBVIOUS
<1> DEFINE parts(o) == {"nfkc"} \cup {part[x] : x \in o}
           special(o) == o \in {preset("Loose"), preset("NfkcCaseFold")}
<1>1. \A o \in SUBSET Options : ~ special(o) => "nfkc" \in fingerprint(o)
  BY DEF fingerprint
<1>2. \A o : special(o) => "nfkc" \notin fingerprint(o)
  BY DEF fingerprint
<1>3. preset("Loose") # preset("NfkcCaseFold")
  BY DEF preset
<1>4. CASE special(o1) /\ special(o2)
  BY <1>3, <1>4 DEF fingerprint
<1>5. CASE ~ special(o1) /\ ~ special(o2)
  <2>1. parts(o1) = parts(o2)  BY <1>5 DEF fingerprint
  <2>2. \A x \in Options : x \in o1 <=> x \in o2  BY <2>1, StepsFromParts
  <2>3. QED BY <2>2
<1>6. QED BY <1>1, <1>2, <1>4, <1>5

-----------------------------------------------------------------------------
(* What a step may do to the stamps and the rows. *)

\* A step of e stamps its own encoding, or leaves the stamp; then it adds rows
\* only when its encoding is the one stamped.
BitsMove(e) ==
  \/ db'.bits = db.bits /\ (Stored(db') \subseteq Stored(db) \/ pc[e] \in PastBits)
  \/ db'.bits = field_bits'[e] /\ pc'[e] \in HasBits

\* It stamps its own key only on rows it knows to be normalized under it.
ProfileMoves(e) ==
  \/ db'.profile = db.profile
  \/ /\ db'.profile = fingerprint(options[e]) /\ pc[e] \in HasOptions
     /\ RowsUnder(db', contested', options[e])

\* It leaves a row as it was, or as it normalizes rows itself, and then it is
\* open or stamps its key with them.
RowsMove(e) ==
  \A i \in Id \ contested' :
    db'.entries[i] # NULL /\ db'.entries[i].raw # NULL =>
      \/ i \notin contested /\ db'.entries[i] = db.entries[i]
      \/ /\ pc[e] \in HasOptions
         /\ IsOpen(e) \/ db'.profile = fingerprint(options[e])
         /\ db'.entries[i].norm = Norm[options[e], db'.entries[i].raw]

FileMoves(e) == BitsMove(e) /\ ProfileMoves(e) /\ RowsMove(e)

\* The standing assumptions of a step.
Sound ==
  /\ TablesInv /\ StampsInv
  /\ ~ mixed /\ ~ mixed'
  /\ \A a, b \in Engines : ~ Differ(a, b)'

LEMMA Labelled ==
  /\ PastBits \subseteq HasBits /\ HasOptions \subseteq HasBits
  /\ PastBits \subseteq HasOptions
  /\ Opening \cap PastBits = {"stamp_profile"}
BY DEF PastBits, HasBits, HasOptions, Opening

LEMMA FileStill ==
  ASSUME NEW e \in Engines, File
  PROVE  FileMoves(e)
BY DEF File, FileMoves, BitsMove, ProfileMoves, RowsMove, Stored

\* Rows normalized under o stay so when e, if it writes any, has o too.
LEMMA RowsStay ==
  ASSUME NEW e \in Engines, RowsMove(e), NEW o, NEW T, RowsUnder(db, contested \cup T, o),
         pc[e] \in HasOptions => options[e] = o
  PROVE  RowsUnder(db', contested' \cup T, o)
BY DEF RowsUnder, RowsMove

LEMMA NoOthers ==
  ASSUME NEW d, NEW S, NEW o
  PROVE  RowsUnder(d, S \cup {}, o) <=> RowsUnder(d, S, o)
<1>1. S \cup {} = S
  OBVIOUS
<1> QED
  BY <1>1

LEMMA Keys ==
  ASSUME TablesInv, NEW e \in Engines, pc[e] # "closed", NEW o \in Configurations
  PROVE  /\ options[e] \in Configurations
         /\ fingerprint(o) = fingerprint(options[e]) => o = options[e]
         /\ fingerprint(options[e]) # NULL
<1>1. options[e] \in Configurations
  BY DEF TablesInv, CallOK
<1>2. o \in SUBSET Options /\ options[e] \in SUBSET Options
  BY <1>1, Presettled
<1>3. fingerprint(options[e]) \in Profiles
  BY <1>1 DEF Profiles
<1>4. NULL \notin Profiles
  BY SharedAssumption
<1> QED
  BY <1>1, <1>2, <1>3, <1>4, FingerprintIdentifies

\* Two engines past the same check have the same of what it checks.
LEMMA Alike ==
  ASSUME Sound, NEW e \in Engines, NEW f \in Engines
  PROVE  /\ pc[e] \in HasBits /\ pc[f] \in HasBits => field_bits[e] = field_bits[f]
         /\ pc[e] \in HasOptions /\ pc[f] \in HasOptions => options[e] = options[f]
         /\ pc'[e] \in HasBits /\ pc'[f] \in HasBits => field_bits'[e] = field_bits'[f]
BY DEF Sound, StampsInv, Differ

LEMMA OtherStamps ==
  ASSUME Sound, NEW e \in Engines, OnlyMoves(e), FileMoves(e), NEW f \in Engines \ {e}
  PROVE  StampsOK(f)'
<1> DEFINE b == field_bits[f]
           o == options[f]
<1>1. pc'[f] = pc[f] /\ call'[f] = call[f] /\ options'[f] = o /\ field_bits'[f] = b
  BY DEF OnlyMoves
<1>2. StampsOK(f) /\ StampsOK(e) /\ TypeOK
  BY DEF Sound, StampsInv, TablesInv
<1>3. BitsMove(e) /\ ProfileMoves(e) /\ RowsMove(e)
  BY DEF FileMoves
<1>4. /\ pc[e] \in HasBits /\ pc[f] \in HasBits => field_bits[e] = b
      /\ pc[e] \in HasOptions /\ pc[f] \in HasOptions => options[e] = o
      /\ pc'[e] \in HasBits /\ pc[f] \in HasBits => field_bits'[e] = b
  BY <1>1, Alike
<1>5. Seen(f)' = Seen(f)
  BY <1>1 DEF Seen
<1>6. b # NULL
  BY <1>2, SharedAssumption DEF TypeOK, FieldBits, MaxFieldBits
<1> HIDE DEF b, o
<1>7. pc[f] \in PastBits => db'.bits = b
  BY <1>2, <1>3, <1>4, Labelled DEF StampsOK, BitsMove, b
<1>8. ASSUME pc[f] \in HasBits PROVE stored_field_bits(db') \in {NULL, b}
  <2>1. CASE db'.bits = b
    BY <1>6, <2>1 DEF stored_field_bits
  <2>2. CASE db'.bits # b
    <3>1. db'.bits = db.bits /\ (Stored(db') \subseteq Stored(db) \/ pc[e] \in PastBits)
      BY <1>3, <1>4, <1>8, <2>2 DEF BitsMove
    <3>2. pc[e] \in PastBits => db.bits = b
      BY <1>2, <1>4, <1>8, Labelled DEF StampsOK
    <3>3. Stored(db') \subseteq Stored(db)
      BY <2>2, <3>1, <3>2
    <3>4. stored_field_bits(db) \in {NULL, b}
      BY <1>2, <1>8 DEF StampsOK, b
    <3>5. CASE Stored(db') = {}
      BY <3>5 DEF stored_field_bits
    <3>6. CASE Stored(db') # {}
      <4>1. Stored(db) # {}
        BY <3>3, <3>6
      <4>2. stored_field_bits(db') = stored_field_bits(db)
        BY <3>1, <3>6, <4>1 DEF stored_field_bits
      <4> QED
        BY <3>4, <4>2
    <3> QED
      BY <3>5, <3>6
  <2> QED
    BY <2>1, <2>2
<1>9. IsOpen(f) => db'.profile = fingerprint(o)
  BY <1>2, <1>3, <1>4 DEF StampsOK, ProfileMoves, IsOpen, o
<1>10. ASSUME pc[f] \in HasOptions, NEW T, RowsUnder(db, contested \cup T, o)
       PROVE  RowsUnder(db', contested' \cup T, o)
  BY <1>3, <1>4, <1>10, RowsStay
<1>11. pc[f] \in HasOptions /\ ~ call[f].rebuild => RowsUnder(db', contested', o)
  <2>1. pc[f] \in HasOptions /\ ~ call[f].rebuild => RowsUnder(db, contested \cup {}, o)
    BY <1>2, NoOthers DEF StampsOK, o
  <2> QED
    BY <1>10, <2>1, NoOthers
<1>12. pc[f] = "regenerate" => RowsUnder(db', contested' \cup Seen(f), o)
  <2>1. pc[f] = "regenerate" => pc[f] \in HasOptions /\ RowsUnder(db, contested \cup Seen(f), o)
    BY <1>2 DEF StampsOK, o, HasOptions, HasBits
  <2> QED
    BY <1>10, <2>1
<1>13. pc[f] = "stamp_profile" => ~ call[f].rebuild
  BY <1>2 DEF StampsOK
<1> QED
  BY <1>1, <1>5, <1>7, <1>8, <1>9, <1>11, <1>12, <1>13 DEF StampsOK, IsOpen

LEMMA ProfileStays ==
  ASSUME Sound, NEW e \in Engines, FileMoves(e), NEW o \in Configurations,
         fingerprint(o) = StampedProfile(db')
  PROVE  RowsUnder(db', contested', o)
<1>1. ProfileMoves(e) /\ RowsMove(e) /\ TablesInv /\ StampsOK(e)
  BY DEF FileMoves, Sound, StampsInv
<1>2. pc[e] \in HasOptions => pc[e] # "closed"
  BY DEF HasOptions, HasBits
<1>3. CASE db'.profile = db.profile
  <2>1. RowsUnder(db, contested, o)
    BY <1>3 DEF Sound, StampsInv, StampedProfile
  <2>2. ASSUME pc[e] \in HasOptions, IsOpen(e) \/ db'.profile = fingerprint(options[e])
        PROVE  options[e] = o
    <3>1. db'.profile = fingerprint(options[e])
      BY <1>1, <1>3, <2>2 DEF StampsOK
    <3>2. fingerprint(options[e]) # NULL
      BY <1>1, <1>2, <2>2, Keys
    <3>3. fingerprint(o) = fingerprint(options[e])
      BY <3>1, <3>2 DEF StampedProfile
    <3> QED
      BY <1>1, <1>2, <2>2, <3>3, Keys
  <2> QED
    BY <1>1, <2>1, <2>2 DEF RowsUnder, RowsMove
<1>4. CASE db'.profile # db.profile
  <2>1. /\ db'.profile = fingerprint(options[e]) /\ pc[e] \in HasOptions
        /\ RowsUnder(db', contested', options[e])
    BY <1>1, <1>4 DEF ProfileMoves
  <2>2. fingerprint(options[e]) # NULL
    BY <1>1, <1>2, <2>1, Keys
  <2>3. fingerprint(o) = fingerprint(options[e])
    BY <2>1, <2>2 DEF StampedProfile
  <2>4. options[e] = o
    BY <1>1, <1>2, <2>1, <2>3, Keys
  <2> QED
    BY <2>1, <2>4
<1> QED
  BY <1>3, <1>4

LEMMA StampsStep ==
  ASSUME Sound, NEW e \in Engines, OnlyMoves(e), FileMoves(e), StampsOK(e)'
  PROVE  StampsInv'
<1>1. \A f \in Engines : StampsOK(f)'
  BY OtherStamps
<1>2. \A o \in Configurations :
        fingerprint(o) = StampedProfile(db') => RowsUnder(db', contested', o)
  BY ProfileStays
<1> QED
  BY <1>1, <1>2 DEF StampsInv, Sound

-----------------------------------------------------------------------------
(* The constructors. *)

LEMMA BitsAreSet ==
  \A b \in FieldBits : b # NULL
BY SharedAssumption DEF FieldBits, MaxFieldBits

LEMMA NotPast ==
  ASSUME NEW e \in Engines, pc'[e] \notin HasBits
  PROVE  StampsOK(e)'
BY Labelled DEF StampsOK, IsOpen, HasBits

LEMMA Checking ==
  ASSUME NEW e \in Engines, pc'[e] \in {"count_profile", "read_profile"},
         stored_field_bits(db') \in {NULL, field_bits'[e]}
  PROVE  StampsOK(e)'
BY DEF StampsOK, IsOpen, HasOptions, PastBits

LEMMA AboutToStamp ==
  ASSUME NEW e \in Engines, pc'[e] = "stamp_bits", call'[e].op = "open",
         stored_field_bits(db') \in {NULL, field_bits'[e]},
         ~ call'[e].rebuild => RowsUnder(db', contested', options'[e])
  PROVE  StampsOK(e)'
BY DEF StampsOK, IsOpen, PastBits

LEMMA FileSame ==
  ASSUME File
  PROVE  /\ stored_field_bits(db') = stored_field_bits(db)
         /\ \A o : RowsUnder(db, contested, o) => RowsUnder(db', contested', o)
BY DEF File, stored_field_bits, Stored, RowsUnder

LEMMA ConstructorStamps ==
  ASSUME Sound, NEW e \in Engines, mixed' \in BOOLEAN,
         \/ new_default(e) \/ with_config(e) \/ with_config_rebuilding(e)
         \/ with_options(e) \/ with_options_rebuilding(e)
  PROVE  FileMoves(e) /\ StampsOK(e)'
<1>1. TablesInv /\ TypeOK
  BY DEF Sound, TablesInv
<1>2. \E o \in Configurations, q \in Requests \cup {NULL}, r \in BOOLEAN : open(e, o, q, r)
  BY <1>1, ConstructorSteps
<1>3. File /\ pc' = [pc EXCEPT ![e] = "count_bits"]
  BY <1>2 DEF open, Goto
<1>4. pc'[e] = "count_bits"
  BY <1>1, <1>3 DEF TypeOK
<1>5. StampsOK(e)'
  BY <1>4, NotPast DEF HasBits
<1> QED
  BY <1>3, <1>5, FileStill

LEMMA CountForBitsStamps ==
  ASSUME Sound, NEW e \in Engines, count_for_bits(e)
  PROVE  FileMoves(e) /\ StampsOK(e)'
<1>1. TypeOK /\ File
  BY DEF Sound, TablesInv, count_for_bits
<1>2. CASE Stored(db) = {}
  <2>1. pc'[e] = "count_profile"
    BY <1>1, <1>2 DEF count_for_bits, Goto, TypeOK
  <2>2. stored_field_bits(db') = NULL
    BY <1>1, <1>2, FileSame DEF stored_field_bits
  <2> QED
    BY <1>1, <2>1, <2>2, FileStill, Checking
<1>3. CASE Stored(db) # {}
  <2>1. pc'[e] = "read_bits"
    BY <1>1, <1>3 DEF count_for_bits, Goto, TypeOK
  <2>2. StampsOK(e)'
    BY <2>1, NotPast DEF HasBits
  <2> QED
    BY <1>1, <2>2, FileStill
<1> QED
  BY <1>2, <1>3

LEMMA ReadBitsStamps ==
  ASSUME Sound, NEW e \in Engines, read_bits(e)
  PROVE  FileMoves(e) /\ StampsOK(e)'
<1>1. TypeOK /\ File
  BY DEF Sound, TablesInv, read_bits
<1>2. CASE Closed(e)
  <2>1. pc'[e] = "closed"
    BY <1>1, <1>2 DEF Closed, Goto, TypeOK
  <2>2. StampsOK(e)'
    BY <2>1, NotPast DEF HasBits
  <2> QED
    BY <1>1, <2>2, FileStill
<1>3. CASE ~ Closed(e)
  <2>1. pc'[e] = "count_profile" /\ field_bits'[e] = StampedBits
    BY <1>1, <1>3 DEF read_bits, Goto, TypeOK
  <2>2. stored_field_bits(db') \in {NULL, field_bits'[e]}
    BY <1>1, <2>1, FileSame DEF stored_field_bits, StampedBits
  <2> QED
    BY <1>1, <2>1, <2>2, FileStill, Checking
<1> QED
  BY <1>2, <1>3

\* A constructor past its check of the encoding knows the one of the rows.
LEMMA Checked ==
  ASSUME Sound, NEW e \in Engines, pc[e] \in HasBits
  PROVE  /\ stored_field_bits(db) \in {NULL, field_bits[e]}
         /\ StampsOK(e) /\ TypeOK /\ CallOK(e) /\ TablesInv
BY DEF Sound, TablesInv, StampsInv, StampsOK

LEMMA CountForProfileStamps ==
  ASSUME Sound, NEW e \in Engines, count_for_profile(e)
  PROVE  FileMoves(e) /\ StampsOK(e)'
<1>1. File /\ Config /\ pc[e] = "count_profile"
  BY DEF count_for_profile
<1>2. /\ stored_field_bits(db) \in {NULL, field_bits[e]} /\ TypeOK
      /\ call[e].op = "open" /\ call[e] \in Calls
  BY <1>1, Checked, OpeningCall DEF HasBits, Opening
<1>3. field_bits'[e] = field_bits[e] /\ stored_field_bits(db') \in {NULL, field_bits'[e]}
  BY <1>1, <1>2, FileSame DEF Config
<1>4. CASE Stored(db) = {}
  <2>1. pc'[e] = "stamp_bits" /\ call'[e].op = "open"
    BY <1>2, <1>4 DEF count_for_profile, Goto, TypeOK, Calls
  <2>2. RowsUnder(db', contested', options'[e])
    BY <1>1, <1>4 DEF File, RowsUnder, Stored
  <2> QED
    BY <1>1, <1>3, <2>1, <2>2, FileStill, AboutToStamp
<1>5. CASE Stored(db) # {}
  <2>1. pc'[e] = "read_profile"
    BY <1>2, <1>5 DEF count_for_profile, Goto, TypeOK
  <2> QED
    BY <1>1, <1>3, <2>1, FileStill, Checking
<1> QED
  BY <1>4, <1>5

LEMMA ReadProfileStamps ==
  ASSUME Sound, NEW e \in Engines, read_profile(e)
  PROVE  FileMoves(e) /\ StampsOK(e)'
<1> DEFINE m == (IF db.profile = NULL THEN Loose ELSE db.profile) # fingerprint(options[e])
<1>1. File /\ pc[e] = "read_profile"
  BY DEF read_profile
<1>2. /\ stored_field_bits(db) \in {NULL, field_bits[e]} /\ TypeOK /\ TablesInv
      /\ call[e].op = "open" /\ call[e] \in Calls /\ options[e] \in Configurations
  BY <1>1, Checked, OpeningCall DEF HasBits, Opening
<1>3. CASE Closed(e)
  <2>1. pc'[e] = "closed"
    BY <1>2, <1>3 DEF Closed, Goto, TypeOK
  <2>2. StampsOK(e)'
    BY <2>1, NotPast DEF HasBits
  <2> QED
    BY <1>1, <2>2, FileStill
<1>4. CASE ~ Closed(e)
  <2>1. Config /\ Goto(e, "stamp_bits") /\ call' = [call EXCEPT ![e].rebuild = m]
    BY <1>4 DEF read_profile
  <2>2. /\ pc'[e] = "stamp_bits" /\ call'[e].op = "open" /\ call'[e].rebuild = m
    <3> HIDE DEF m
    <3> QED
      BY <1>2, <2>1 DEF Goto, TypeOK, Calls
  <2>3. options'[e] = options[e] /\ stored_field_bits(db') \in {NULL, field_bits'[e]}
    BY <1>1, <1>2, <2>1, FileSame DEF Config
  <2>4. ~ m => RowsUnder(db, contested, options[e])
    BY <1>2 DEF Sound, StampsInv, StampedProfile
  <2>5. ~ call'[e].rebuild => RowsUnder(db', contested', options'[e])
    BY <1>1, <2>2, <2>3, <2>4, FileSame
  <2> QED
    BY <1>1, <2>2, <2>3, <2>5, FileStill, AboutToStamp
<1> QED
  BY <1>3, <1>4

\* A step that leaves both tables as they are.
LEMMA TablesSame ==
  ASSUME db'.entries = db.entries, contested' = contested
  PROVE  /\ Stored(db') = Stored(db)
         /\ \A e \in Engines : RowsMove(e)
         /\ \A o : RowsUnder(db, contested, o) => RowsUnder(db', contested', o)
BY DEF Stored, RowsMove, RowsUnder

LEMMA WriteBitsStamps ==
  ASSUME Sound, NEW e \in Engines, write_bits(e)
  PROVE  FileMoves(e) /\ StampsOK(e)'
<1> DEFINE b == field_bits[e]
           l == IF call[e].rebuild THEN "select" ELSE "stamp_profile"
<1>1. Config /\ pc[e] = "stamp_bits" /\ UNCHANGED call
  BY DEF write_bits
<1>2. /\ StampsOK(e) /\ TypeOK /\ call[e].op = "open" /\ db \in Files /\ b \in FieldBits
  BY <1>1, Checked, OpeningCall DEF HasBits, Opening, TypeOK
<1>3. /\ db' = stamp_field_bits(db, b) /\ contested' = contested
      /\ pc' = [pc EXCEPT ![e] = l]
  BY DEF write_bits, Write, Goto
<1>4. pc'[e] = l /\ options'[e] = options[e] /\ field_bits'[e] = b /\ call'[e] = call[e]
  BY <1>1, <1>2, <1>3 DEF TypeOK, Config
<1> HIDE DEF b
<1>5. /\ db'.entries = db.entries /\ db'.profile = db.profile /\ db'.bits = b
  BY <1>2, <1>3, StampFacts
<1>6. l \in HasBits /\ l \in {"select", "stamp_profile"} /\ (l = "stamp_profile" => ~ call[e].rebuild)
  BY DEF HasBits
<1> HIDE DEF l
<1>7. FileMoves(e)
  BY <1>3, <1>4, <1>5, <1>6, TablesSame DEF FileMoves, BitsMove, ProfileMoves
<1>8. ~ call[e].rebuild => RowsUnder(db', contested', options[e])
  BY <1>1, <1>2, <1>3, <1>5, TablesSame DEF StampsOK, HasOptions, HasBits
<1>9. stored_field_bits(db') \in {NULL, b}
  BY <1>2, <1>5, BitsAreSet DEF stored_field_bits
<1>10. StampsOK(e)'
  BY <1>2, <1>4, <1>5, <1>6, <1>8, <1>9 DEF StampsOK, IsOpen
<1> QED
  BY <1>7, <1>10

LEMMA WriteProfileStamps ==
  ASSUME Sound, NEW e \in Engines, mixed' \in BOOLEAN, write_profile(e)
  PROVE  FileMoves(e) /\ StampsOK(e)'
<1> DEFINE o == options[e]
           b == field_bits[e]
           p == fingerprint(o)
<1>1. Config /\ pc[e] = "stamp_profile" /\ pc[e] \in HasBits
  BY DEF write_profile, HasBits
<1>2. /\ StampsOK(e) /\ TypeOK /\ TablesInv
      /\ db \in Files /\ b \in FieldBits /\ o \in Configurations
  BY <1>1, Checked, OpeningCall DEF HasBits, Opening, TypeOK
<1>3. /\ db' = stamp_profile(db, p) /\ contested' = contested
  BY DEF write_profile, Write
<1>4. /\ pc'[e] = "open" /\ call'[e] = NoCall
      /\ options'[e] = o /\ field_bits'[e] = b
  BY <1>1, <1>2, WriteProfile DEF Config
<1>5. p \in Profiles
  BY <1>2 DEF Profiles
<1>6. /\ RowsUnder(db, contested, o) /\ db.bits = b
  BY <1>1, <1>2 DEF StampsOK, HasOptions, PastBits, HasBits
<1> HIDE DEF p, o, b
<1>7. db'.entries = db.entries /\ db'.profile = p /\ db'.bits = db.bits
  BY <1>2, <1>3, <1>5, StampFacts
<1>8. RowsUnder(db', contested', o) /\ RowsMove(e) /\ Stored(db') = Stored(db)
  BY <1>3, <1>6, <1>7, TablesSame
<1>9. FileMoves(e)
  BY <1>1, <1>7, <1>8 DEF FileMoves, BitsMove, ProfileMoves, HasOptions, HasBits, p, o
<1>10. stored_field_bits(db') \in {NULL, b}
  BY <1>2, <1>6, <1>7, BitsAreSet DEF stored_field_bits
<1>11. StampsOK(e)'
  BY <1>4, <1>6, <1>7, <1>8, <1>10 DEF StampsOK, IsOpen, p
<1> QED
  BY <1>9, <1>11

-----------------------------------------------------------------------------
(* Calls on an open engine. *)

LEMMA OpenFacts ==
  ASSUME Sound, NEW e \in Engines, IsOpen(e)
  PROVE  /\ pc[e] \in PastBits /\ pc[e] \in HasOptions /\ ~ call[e].rebuild
         /\ db.bits = field_bits[e] /\ field_bits[e] \in FieldBits
         /\ db.profile = fingerprint(options[e]) /\ options[e] \in Configurations
         /\ RowsUnder(db, contested, options[e])
<1>1. StampsOK(e) /\ CallOK(e) /\ TypeOK
  BY DEF Sound, TablesInv, StampsInv
<1>2. pc[e] \in HasOptions /\ call[e].op # "open"
  BY DEF IsOpen
<1>3. pc[e] \notin Opening /\ ~ call[e].rebuild
  BY <1>1, <1>2 DEF CallOK
<1>4. pc[e] \in PastBits
  BY <1>2, <1>3 DEF PastBits, HasOptions, Opening
<1>5. options[e] \in Configurations
  BY <1>1, <1>2 DEF CallOK, HasOptions, HasBits
<1> QED
  BY <1>1, <1>2, <1>3, <1>4, <1>5 DEF StampsOK, TypeOK, IsOpen

LEMMA StaysOpen ==
  ASSUME Sound, NEW e \in Engines, IsOpen(e), RowsMove(e),
         pc'[e] \in PastBits \ {"stamp_profile", "regenerate"}, ~ call'[e].rebuild,
         options'[e] = options[e], field_bits'[e] = field_bits[e],
         db'.bits = db.bits, db'.profile = db.profile
  PROVE  FileMoves(e) /\ StampsOK(e)'
<1> DEFINE o == options[e]
           b == field_bits[e]
<1>1. /\ pc[e] \in PastBits /\ db.bits = b /\ b # NULL
      /\ db.profile = fingerprint(o) /\ RowsUnder(db, contested, o)
  BY OpenFacts, BitsAreSet
<1>2. options'[e] = o /\ field_bits'[e] = b /\ db'.bits = b /\ db'.profile = fingerprint(o)
  BY <1>1
<1>3. stored_field_bits(db') \in {NULL, b}
  BY <1>1, <1>2 DEF stored_field_bits
<1>4. RowsUnder(db', contested', o)
  <2>1. RowsUnder(db, contested \cup {}, o)
    BY <1>1, NoOthers
  <2>2. RowsUnder(db', contested' \cup {}, o)
    BY <2>1, RowsStay
  <2> QED
    BY <2>2, NoOthers
<1>5. FileMoves(e)
  BY <1>1 DEF FileMoves, BitsMove, ProfileMoves
<1> HIDE DEF o, b
<1>6. StampsOK(e)'
  BY <1>2, <1>3, <1>4 DEF StampsOK
<1> QED
  BY <1>5, <1>6

LEMMA BetweenCalls ==
  ASSUME Sound, NEW e \in Engines, pc[e] = "open"
  PROVE  IsOpen(e)
BY DEF Sound, TablesInv, CallOK, IsOpen, HasOptions, HasBits

LEMMA BeginStamps ==
  ASSUME Sound, NEW e \in Engines, mixed' \in BOOLEAN,
         \/ index(e) \/ remove(e) \/ remove_record(e) \/ reindex(e) \/ change_field_bits(e)
  PROVE  FileMoves(e) /\ StampsOK(e)'
<1>1. TablesInv /\ TypeOK
  BY DEF Sound, TablesInv
<1>2. PICK c \in Calls, l \in {"del_docs", "select"} :
        Begin(e, c, l) /\ ~ c.rebuild /\ c.op \in Ops \ {"none", "open"}
  BY <1>1, BeginSteps
<1>3. /\ File /\ Config /\ pc[e] = "open"
      /\ pc' = [pc EXCEPT ![e] = l] /\ call' = [call EXCEPT ![e] = c]
  BY <1>2 DEF Begin, Goto
<1>4. pc'[e] = l /\ call'[e] = c /\ options'[e] = options[e] /\ field_bits'[e] = field_bits[e]
  BY <1>1, <1>3 DEF TypeOK, Config
<1>5. IsOpen(e)
  BY <1>3, BetweenCalls
<1>6. RowsMove(e) /\ db' = db
  BY <1>3, TablesSame DEF File
<1>7. l \in PastBits \ {"stamp_profile", "regenerate"}
  BY DEF PastBits, HasBits
<1> QED
  BY <1>2, <1>4, <1>5, <1>6, <1>7, StaysOpen

\* A step in the middle of a call goes on in it or returns.
LEMMA WritesLeaveStamps ==
  ASSUME Sound, NEW e \in Engines, IsOpen(e), RowsMove(e), Config,
         db'.bits = db.bits, db'.profile = db.profile,
         \/ /\ UNCHANGED call
            /\ \E l \in {"ins_docs", "ins_entries", "del_entries", "open"} : Goto(e, l)
         \/ Return(e)
  PROVE  FileMoves(e) /\ StampsOK(e)'
<1>1. TypeOK
  BY DEF Sound, TablesInv
<1>2. options'[e] = options[e] /\ field_bits'[e] = field_bits[e]
  BY DEF Config
<1>3. pc'[e] \in {"ins_docs", "ins_entries", "del_entries", "open"}
  BY <1>1 DEF Goto, Return, TypeOK
<1>4. call'[e] = call[e] \/ call'[e] = NoCall
  BY <1>1 DEF Return, TypeOK
<1>5. ~ call'[e].rebuild
  BY <1>4, OpenFacts, NoCallFacts
<1>6. pc'[e] \in PastBits \ {"stamp_profile", "regenerate"}
  BY <1>3 DEF PastBits, HasBits
<1> QED
  BY <1>2, <1>5, <1>6, StaysOpen

\* Rows that stay, go, or are written as the open engine e writes them.
LEMMA OwnRows ==
  ASSUME NEW e \in Engines, IsOpen(e), options[e] \in Configurations,
         \A i \in Id \ contested' :
           \/ i \notin contested /\ db'.entries[i] = db.entries[i]
           \/ db'.entries[i] = NULL
           \/ \E x \in Texts : db'.entries[i] = Row(e, x)
  PROVE  RowsMove(e)
<1>1. ASSUME NEW x \in Texts PROVE Row(e, x).norm = Norm[options[e], Row(e, x).raw]
  BY DEF Row
<1>2. pc[e] \in HasOptions
  BY DEF IsOpen
<1> QED
  BY <1>1, <1>2 DEF RowsMove

LEMMA MidCall ==
  ASSUME TablesInv, NEW e \in Engines, pc[e] \in MidWrite \cup {"del_docs"}
  PROVE  /\ IsOpen(e) /\ options[e] \in Configurations
         /\ db \in Files /\ call[e].ids \in SUBSET Id
         /\ pc[e] \in {"ins_docs", "ins_entries"} => call[e].text \in Texts
BY DEF TablesInv, TypeOK, Calls, CallOK, IsOpen, HasOptions, HasBits, MidWrite

LEMMA DeleteDocsStamps ==
  ASSUME Sound, NEW e \in Engines, delete_docs(e)
  PROVE  FileMoves(e) /\ StampsOK(e)'
<1> DEFINE S == call[e].ids
           d == DeleteDocs(db, S)
<1>1. /\ IsOpen(e) /\ options[e] \in Configurations /\ db \in Files /\ S \in SUBSET Id
  BY MidCall DEF delete_docs, Sound
<1>2. /\ db' = Begun(d, S) /\ contested \subseteq contested' /\ UNCHANGED call /\ Config
      /\ \E l \in {"ins_docs", "ins_entries", "del_entries", "open"} : Goto(e, l)
  BY DEF delete_docs, Write
<1> HIDE DEF S
<1>3. d \in Files /\ d.entries = db.entries /\ d.bits = db.bits /\ d.profile = db.profile
  BY <1>1, DeleteDocsFacts
<1> HIDE DEF d
<1>4. db'.entries = db.entries /\ db'.bits = db.bits /\ db'.profile = db.profile
  BY <1>1, <1>2, <1>3, TornFacts
<1>5. RowsMove(e)
  BY <1>2, <1>4 DEF RowsMove
<1> QED
  BY <1>1, <1>2, <1>4, <1>5, WritesLeaveStamps

LEMMA InsertDocsStamps ==
  ASSUME Sound, NEW e \in Engines, insert_docs(e)
  PROVE  FileMoves(e) /\ StampsOK(e)'
<1> DEFINE S == call[e].ids
           rows == IndexRow(e)
<1>1. /\ IsOpen(e) /\ options[e] \in Configurations /\ db \in Files /\ S \in SUBSET Id
      /\ call[e].text \in Texts
  BY MidCall DEF insert_docs, MidWrite, Sound
<1>2. Config
  BY DEF insert_docs
<1>3. CASE Return(e) /\ File
  <2>1. RowsMove(e) /\ db' = db
    BY <1>3, TablesSame DEF File
  <2> QED
    BY <1>1, <1>2, <1>3, <2>1, WritesLeaveStamps
<1>4. CASE ~ (Return(e) /\ File)
  <2>1. /\ db' = InsertDocs(db, rows) /\ contested \subseteq contested' /\ UNCHANGED call
        /\ \E l \in {"ins_docs", "ins_entries", "del_entries", "open"} : Goto(e, l)
    BY <1>4 DEF insert_docs, Write
  <2>2. RowsOf(rows)
    BY <1>1, RowType DEF IndexRow, RowsOf
  <2> HIDE DEF rows
  <2>3. db'.entries = db.entries /\ db'.bits = db.bits /\ db'.profile = db.profile
    BY <1>1, <2>1, <2>2, InsertDocsFacts
  <2>4. RowsMove(e)
    BY <2>1, <2>3 DEF RowsMove
  <2> QED
    BY <1>1, <1>2, <2>1, <2>3, <2>4, WritesLeaveStamps
<1> QED
  BY <1>3, <1>4

LEMMA ReplaceEntriesStamps ==
  ASSUME Sound, NEW e \in Engines, replace_entries(e)
  PROVE  FileMoves(e) /\ StampsOK(e)'
<1> DEFINE S == call[e].ids
           x == call[e].text
           rows == IndexRow(e)
           d == ReplaceEntries(db, rows)
<1>1. /\ IsOpen(e) /\ options[e] \in Configurations /\ db \in Files /\ S \in SUBSET Id
      /\ x \in Texts
  BY MidCall DEF replace_entries, MidWrite, Sound
<1>2. /\ Config /\ Return(e) /\ db' = Completed(d, S) /\ contested \subseteq contested'
  BY DEF replace_entries, Write
<1>3. RowsOf(rows) /\ DOMAIN rows = S
  BY <1>1, RowType DEF IndexRow, RowsOf
<1>4. \A i \in S : rows[i] = Row(e, x)
  BY DEF IndexRow
<1> HIDE DEF rows, S, x
<1>5. /\ d \in Files /\ d.bits = db.bits /\ d.profile = db.profile
      /\ \A i \in Id : d.entries[i] = IF i \in DOMAIN rows THEN rows[i] ELSE db.entries[i]
  BY <1>1, <1>3, ReplaceEntriesFacts
<1> HIDE DEF d
<1>6. db'.entries = d.entries /\ db'.bits = db.bits /\ db'.profile = db.profile
  BY <1>1, <1>2, <1>5, TornFacts
<1>7. RowsMove(e)
  BY <1>1, <1>2, <1>3, <1>4, <1>5, <1>6, OwnRows
<1> QED
  BY <1>1, <1>2, <1>6, <1>7, WritesLeaveStamps

LEMMA DeleteEntriesStamps ==
  ASSUME Sound, NEW e \in Engines, delete_entries(e)
  PROVE  FileMoves(e) /\ StampsOK(e)'
<1> DEFINE S == call[e].ids
           d == DeleteEntries(db, S)
<1>1. /\ IsOpen(e) /\ options[e] \in Configurations /\ db \in Files /\ S \in SUBSET Id
  BY MidCall DEF delete_entries, MidWrite, Sound
<1>2. /\ Config /\ Return(e) /\ db' = Completed(d, S) /\ contested \subseteq contested'
  BY DEF delete_entries, Write
<1> HIDE DEF S
<1>3. /\ d \in Files /\ d.bits = db.bits /\ d.profile = db.profile
      /\ \A i \in Id : d.entries[i] = IF i \in S THEN NULL ELSE db.entries[i]
  BY <1>1, DeleteEntriesFacts
<1> HIDE DEF d
<1>4. db'.entries = d.entries /\ db'.bits = db.bits /\ db'.profile = db.profile
  BY <1>1, <1>2, <1>3, TornFacts
<1>5. RowsMove(e)
  BY <1>1, <1>2, <1>3, <1>4, OwnRows
<1> QED
  BY <1>1, <1>2, <1>4, <1>5, WritesLeaveStamps

LEMMA TransactStamps ==
  ASSUME Sound, NEW e \in Engines, NEW S \in SUBSET Id, StepOK(e, S), Transacted(e, S)
  PROVE  FileMoves(e) /\ StampsOK(e)'
<1>1. /\ pc[e] = "open" /\ UNCHANGED <<pc, call>> /\ Config
      /\ db'.bits = db.bits /\ db'.profile = db.profile
      /\ \A i \in S : db'.entries[i] = NULL \/ \E x \in Texts : db'.entries[i] = Row(e, x)
      /\ contested' = (contested \ S) \cup (S \cap Others(e))
  BY DEF Transacted
<1>2. \A i \in Id \ S : db'.entries[i] = db.entries[i]
  BY DEF StepOK, Writes
<1>3. IsOpen(e) /\ options[e] \in Configurations
  BY <1>1, BetweenCalls, OpenFacts
<1>4. RowsMove(e)
  BY <1>1, <1>2, <1>3, OwnRows
<1>5. /\ pc'[e] = "open" /\ call'[e] = call[e]
      /\ options'[e] = options[e] /\ field_bits'[e] = field_bits[e]
  BY <1>1 DEF Config
<1>6. ~ call'[e].rebuild
  BY <1>3, <1>5, OpenFacts
<1>7. "open" \in PastBits \ {"stamp_profile", "regenerate"}
  BY DEF PastBits, HasBits
<1> QED
  BY <1>1, <1>3, <1>4, <1>5, <1>6, <1>7, StaysOpen

-----------------------------------------------------------------------------
(* Calls that read every row before they write. *)

LEMMA SelectStamps ==
  ASSUME Sound, NEW e \in Engines, select_rows(e)
  PROVE  FileMoves(e) /\ StampsOK(e)'
<1> DEFINE repacks == call[e].op = "change_field_bits"
           rejected == repacks /\ RepackRejected(db, field_bits[e], call[e].arg)
           S == {i \in Stored(db) : repacks \/ db.entries[i].raw # NULL}
           seen == [i \in Id |-> IF i \in S THEN db.entries[i] ELSE NULL]
           l == IF repacks THEN "repack" ELSE "regenerate"
           o == options[e]
           b == field_bits[e]
<1>1. /\ File /\ Config /\ pc[e] = "select" /\ db' = db /\ contested' = contested
      /\ options'[e] = o /\ field_bits'[e] = b
  BY DEF select_rows, File, Config
<1>2. /\ TypeOK /\ StampsOK(e) /\ CallOK(e) /\ stored_field_bits(db) \in {NULL, b}
      /\ db.bits = b
  BY <1>1, Checked DEF StampsOK, PastBits, HasBits
<1>3. RowsMove(e)
  BY <1>1, TablesSame
<1>4. CASE rejected
  <2>1. Return(e) /\ IsOpen(e)
    BY <1>1, <1>4 DEF select_rows, IsOpen, HasOptions, HasBits
  <2> QED
    BY <1>1, <1>3, <2>1, WritesLeaveStamps
<1>5. CASE ~ rejected
  <2>1. /\ pc' = [pc EXCEPT ![e] = l] /\ call' = [call EXCEPT ![e].seen = seen]
    BY <1>5 DEF select_rows, Goto
  <2>2. /\ pc'[e] = l /\ call'[e].seen = seen /\ call'[e].op = call[e].op
        /\ call'[e].rebuild = call[e].rebuild
    <3> HIDE DEF seen, l
    <3> QED
      BY <1>2, <2>1 DEF TypeOK, Calls
  <2>3. Seen(e)' = S
    <3>1. S \subseteq Id /\ \A i \in S : db.entries[i] # NULL
      BY DEF Stored
    <3> HIDE DEF S
    <3> QED
      BY <2>2, <3>1 DEF Seen
  <2>4. ~ repacks => RowsUnder(db, contested \cup S, o)
    BY DEF RowsUnder, Stored
  <2>5. ~ call[e].rebuild => RowsUnder(db, contested, o)
    BY <1>1, <1>2 DEF StampsOK, HasOptions, HasBits
  <2>6. call[e].op # "open" => db.profile = fingerprint(o)
    BY <1>1, <1>2 DEF StampsOK, IsOpen, HasOptions, HasBits
  <2>7. l \in {"repack", "regenerate"} /\ (l = "regenerate" => ~ repacks)
    OBVIOUS
  <2> HIDE DEF l, o, b, S, seen, repacks
  <2>8. StampsOK(e)'
    BY <1>1, <1>2, <2>2, <2>3, <2>4, <2>5, <2>6, <2>7 DEF StampsOK, IsOpen
  <2> QED
    BY <1>1, <2>8, FileStill
<1> QED
  BY <1>4, <1>5

LEMMA RegenerateStamps ==
  ASSUME Sound, NEW e \in Engines, mixed' \in BOOLEAN, regenerate(e)
  PROVE  FileMoves(e) /\ StampsOK(e)'
<1> DEFINE o == options[e]
           b == field_bits[e]
           p == fingerprint(o)
           S == Seen(e)
           d == Regenerated(e, db)
<1>1. /\ pc[e] = "regenerate" /\ Config /\ db' = stamp_profile(d, p)
      /\ contested \subseteq contested' /\ pc[e] \in HasBits /\ pc[e] \in HasOptions
  BY DEF regenerate, Write, HasBits, HasOptions
<1>2. StampsOK(e) /\ TypeOK /\ TablesInv /\ WriteOK(e) /\ o \in Configurations
  BY <1>1, Checked DEF TablesInv, CallOK
<1>3. /\ pc'[e] = "open" /\ call'[e] = NoCall /\ options'[e] = o /\ field_bits'[e] = b
  BY <1>1, <1>2, RegenerateStep DEF Config
<1>4. /\ d \in Files /\ d.bits = db.bits
      /\ \A i \in Id \ S : d.entries[i] = db.entries[i]
      /\ Stored(d) = Stored(db)
      /\ \A i \in S \cap Stored(db) :
           /\ d.entries[i].raw = db.entries[i].raw
           /\ d.entries[i].norm = Norm[o, call[e].seen[i].raw]
  BY <1>1, <1>2, RegeneratedFacts
<1>5. p \in Profiles
  BY <1>2 DEF Profiles
<1>6. RowsUnder(db, contested \cup S, o) /\ db.bits = b
  BY <1>1, <1>2 DEF StampsOK, PastBits, HasBits
<1>7. \A i \in S \ contested : db.entries[i] = call[e].seen[i]
  BY <1>1, <1>2 DEF WriteOK
<1>8. b \in FieldBits
  BY <1>2 DEF TypeOK
<1> HIDE DEF d, p, S, o, b
<1>9. db'.entries = d.entries /\ db'.bits = d.bits /\ db'.profile = p
  BY <1>1, <1>4, <1>5, StampFacts
<1>10. ASSUME NEW i \in Id \ contested', d.entries[i] # NULL, d.entries[i].raw # NULL
       PROVE  d.entries[i].norm = Norm[o, d.entries[i].raw]
  <2>1. CASE i \in S
    <3>1. i \in Stored(db)
      BY <1>4, <1>10 DEF Stored
    <3>2. db.entries[i] = call[e].seen[i]
      BY <1>1, <1>7, <1>10, <2>1
    <3>3. /\ d.entries[i].raw = db.entries[i].raw
          /\ d.entries[i].norm = Norm[o, call[e].seen[i].raw]
      BY <1>4, <2>1, <3>1
    <3> QED
      BY <3>2, <3>3
  <2>2. CASE i \notin S
    <3>1. d.entries[i] = db.entries[i] /\ i \notin contested \cup S
      BY <1>1, <1>4, <1>10, <2>2
    <3> QED
      BY <1>6, <1>10, <3>1 DEF RowsUnder
  <2> QED
    BY <2>1, <2>2
<1>11. RowsUnder(db', contested', o)
  BY <1>9, <1>10 DEF RowsUnder
<1>12. Stored(db') = Stored(db)
  BY <1>4, <1>9 DEF Stored
<1>13. RowsMove(e)
  BY <1>1, <1>9, <1>11 DEF RowsMove, RowsUnder, o, p
<1>14. FileMoves(e)
  BY <1>1, <1>4, <1>9, <1>11, <1>12, <1>13 DEF FileMoves, BitsMove, ProfileMoves, o, p
<1>15. stored_field_bits(db') \in {NULL, b}
  BY <1>4, <1>6, <1>8, <1>9, BitsAreSet DEF stored_field_bits
<1>16. StampsOK(e)'
  BY <1>3, <1>4, <1>6, <1>9, <1>11, <1>15 DEF StampsOK, IsOpen, p
<1> QED
  BY <1>14, <1>16

\* What repack leaves of the rows it has read: each at the id it is repacked to,
\* and an id is contested when the row came from a contested one.
LEMMA RepackedRows ==
  ASSUME TablesInv, NEW e \in Engines, repack(e)
  PROVE  /\ db'.bits = call[e].arg /\ db'.profile = db.profile
         /\ \A i \in Id \ contested' : db'.entries[i] # NULL =>
              \E j \in Id \ contested : db'.entries[i] = db.entries[j]
         /\ \A j \in Id \ contested : db.entries[j] # NULL =>
              /\ Fits(j, field_bits[e], call[e].arg)
              /\ db'.entries[Repack(j, field_bits[e], call[e].arg)] = db.entries[j]
<1> DEFINE old == field_bits[e]
           new == call[e].arg
           seen == call[e].seen
           d == [db EXCEPT !.entries = seen]
<1>1. /\ TypeOK /\ CallOK(e) /\ WriteOK(e) /\ pc[e] = "repack"
      /\ db' = Repacked(d, old, new)
      /\ contested' = contested \cup Others(e)
                        \cup {Repack(i, old, new) : i \in {j \in contested : Fits(j, old, new)}}
  BY DEF TablesInv, repack
<1>2. old \in FieldBits /\ new \in FieldBits
  BY <1>1 DEF TypeOK, CallOK
<1>3. d \in Files /\ d.entries = seen /\ d.profile = db.profile
  BY <1>1 DEF TypeOK, Files, Calls
<1>4. \A i \in Id \ contested : db.entries[i] = seen[i]
  BY <1>1 DEF WriteOK
<1>5. Stored(d) \subseteq Id /\ \A i \in Id : i \in Stored(d) <=> seen[i] # NULL
  BY <1>3 DEF Stored
<1>6. \A i \in Stored(d) : Fits(i, old, new)
  BY <1>1, <1>5 DEF WriteOK, Seen
<1> HIDE DEF old, new, seen, d
<1>7. /\ db'.profile = d.profile /\ db'.bits = new
      /\ \A i \in Id : db'.entries[i] # NULL =>
           \E j \in Stored(d) : Repack(j, old, new) = i /\ db'.entries[i] = d.entries[j]
      /\ \A j \in Stored(d) : Repack(j, old, new) \in Id =>
           \E k \in Stored(d) : /\ Repack(k, old, new) = Repack(j, old, new)
                                /\ db'.entries[Repack(j, old, new)] = d.entries[k]
  BY <1>1, <1>2, <1>3, RepackedFacts
<1>8. ASSUME NEW i \in Id \ contested', db'.entries[i] # NULL
      PROVE  \E j \in Id \ contested : db'.entries[i] = db.entries[j]
  <2>1. PICK j \in Stored(d) : Repack(j, old, new) = i /\ db'.entries[i] = d.entries[j]
    BY <1>7, <1>8
  <2>2. j \notin contested
    BY <1>1, <1>6, <1>8, <2>1
  <2>3. j \in Id \ contested /\ db.entries[j] = seen[j]
    BY <1>4, <1>5, <2>2
  <2> QED
    BY <1>3, <2>1, <2>3
<1>9. ASSUME NEW j \in Id \ contested, db.entries[j] # NULL
      PROVE  /\ Fits(j, old, new)
             /\ db'.entries[Repack(j, old, new)] = db.entries[j]
  <2>1. j \in Stored(d) /\ seen[j] = db.entries[j]
    BY <1>4, <1>5, <1>9
  <2>2. Fits(j, old, new)
    BY <1>6, <2>1
  <2>3. Repack(j, old, new) \in Id
    BY <1>2, <2>2, RepackedKeeps, NoNegatives
  <2>4. PICK k \in Stored(d) : /\ Repack(k, old, new) = Repack(j, old, new)
                               /\ db'.entries[Repack(j, old, new)] = d.entries[k]
    BY <1>7, <2>1, <2>3
  <2>5. k = j
    <3>1. k \in Id /\ Fits(k, old, new) /\ j \in Id
      BY <1>5, <1>6
    <3> QED
      BY <1>2, <2>2, <2>4, <3>1, RepackedKeeps
  <2> QED
    BY <1>3, <2>1, <2>2, <2>4, <2>5
<1>10. /\ db'.bits = new /\ db'.profile = db.profile
       /\ \A i \in Id \ contested' : db'.entries[i] # NULL =>
            \E j \in Id \ contested : db'.entries[i] = db.entries[j]
       /\ \A j \in Id \ contested : db.entries[j] # NULL =>
            /\ Fits(j, old, new)
            /\ db'.entries[Repack(j, old, new)] = db.entries[j]
  BY <1>3, <1>7, <1>8, <1>9
<1> QED
  BY <1>10 DEF old, new

LEMMA RepackStamps ==
  ASSUME Sound, NEW e \in Engines, mixed' \in BOOLEAN, repack(e)
  PROVE  FileMoves(e) /\ StampsOK(e)'
<1> DEFINE o == options[e]
           new == call[e].arg
<1>1. pc[e] = "repack" /\ TablesInv /\ CallOK(e) /\ TypeOK
  BY DEF repack, Sound, TablesInv
<1>2. IsOpen(e) /\ new \in FieldBits
  BY <1>1 DEF CallOK, IsOpen, HasOptions, HasBits
<1>3. RowsUnder(db, contested, o) /\ pc[e] \in HasOptions /\ db.profile = fingerprint(o)
  BY <1>2, OpenFacts
<1>4. /\ pc'[e] = "open" /\ call'[e] = NoCall /\ options'[e] = o /\ field_bits'[e] = new
  BY <1>1, RepackStep
<1>5. /\ db'.bits = new /\ db'.profile = db.profile
      /\ \A i \in Id \ contested' : db'.entries[i] # NULL =>
           \E j \in Id \ contested : db'.entries[i] = db.entries[j]
  BY <1>1, RepackedRows
<1> HIDE DEF o, new
<1>6. RowsUnder(db', contested', o)
  BY <1>3, <1>5 DEF RowsUnder
<1>7. RowsMove(e)
  BY <1>2, <1>3, <1>6 DEF RowsMove, RowsUnder, o
<1>8. FileMoves(e)
  BY <1>4, <1>5, <1>7 DEF FileMoves, BitsMove, ProfileMoves, HasBits
<1>9. stored_field_bits(db') \in {NULL, new}
  BY <1>2, <1>5, BitsAreSet DEF stored_field_bits
<1>10. StampsOK(e)'
  BY <1>3, <1>4, <1>5, <1>6, <1>9 DEF StampsOK, IsOpen
<1> QED
  BY <1>8, <1>10

LEMMA EndStamps ==
  ASSUME Sound, NEW e \in Engines, call_fails(e) \/ dies(e) \/ close(e)
  PROVE  FileMoves(e) /\ StampsOK(e)'
<1>1. TypeOK /\ CallOK(e) /\ File
  BY DEF Sound, TablesInv, call_fails, dies, close
<1>2. CASE Closed(e)
  <2>1. pc'[e] = "closed"
    BY <1>1, <1>2 DEF Closed, Goto, TypeOK
  <2>2. StampsOK(e)'
    BY <2>1, NotPast DEF HasBits
  <2> QED
    BY <1>1, <2>2, FileStill
<1>3. CASE ~ Closed(e)
  <2>1. /\ pc[e] \notin {"closed", "open"} /\ call[e].op # "open" /\ Return(e) /\ Config
    BY <1>3 DEF call_fails, dies, close
  <2>2. pc[e] \in Labels /\ pc[e] \notin Opening
    BY <1>1, <2>1 DEF TypeOK, CallOK
  <2>3. IsOpen(e)
    BY <2>1, <2>2 DEF IsOpen, Labels, Opening, HasOptions
  <2>4. RowsMove(e) /\ db' = db
    BY <1>1, TablesSame DEF File
  <2> QED
    BY <2>1, <2>3, <2>4, WritesLeaveStamps
<1> QED
  BY <1>2, <1>3

-----------------------------------------------------------------------------
(* The invariant. *)

LEMMA EveryMove ==
  ASSUME Sound, NEW e \in Engines, mixed' \in BOOLEAN, Step(e)
  PROVE  FileMoves(e) /\ StampsOK(e)'
<1>0. TablesInv
  BY DEF Sound
<1>1. CASE \/ new_default(e) \/ with_config(e) \/ with_config_rebuilding(e)
           \/ with_options(e) \/ with_options_rebuilding(e)
  BY <1>1, ConstructorStamps
<1>2. CASE count_for_bits(e) \/ read_bits(e) \/ count_for_profile(e) \/ read_profile(e)
  BY <1>2, CountForBitsStamps, ReadBitsStamps, CountForProfileStamps, ReadProfileStamps
<1>3. CASE write_bits(e) \/ write_profile(e)
  BY <1>3, WriteBitsStamps, WriteProfileStamps
<1>4. CASE \/ index(e) \/ remove(e) \/ remove_record(e) \/ reindex(e) \/ change_field_bits(e)
  BY <1>4, BeginStamps
<1>5. CASE delete_docs(e) \/ insert_docs(e) \/ replace_entries(e) \/ delete_entries(e)
  BY <1>5, DeleteDocsStamps, InsertDocsStamps, ReplaceEntriesStamps, DeleteEntriesStamps
<1>6. CASE \/ index_batch(e) \/ remove_batch(e) \/ remove_all(e)
           \/ index_record(e) \/ index_records_batch(e)
  <2>1. \E S \in SUBSET Id : StepOK(e, S) /\ Transacted(e, S)
    BY <1>0, <1>6, IndexBatchStep, IndexRecordStep, IndexRecordsBatchStep, RemoveSteps
  <2> QED
    BY <2>1, TransactStamps
<1>7. CASE select_rows(e) \/ regenerate(e) \/ repack(e)
  BY <1>7, SelectStamps, RegenerateStamps, RepackStamps
<1>8. CASE call_fails(e) \/ dies(e) \/ close(e)
  BY <1>8, EndStamps
<1> QED
  BY <1>1, <1>2, <1>3, <1>4, <1>5, <1>6, <1>7, <1>8 DEF Step

LEMMA StampsInit ==
  Init => StampsInv
<1> SUFFICES ASSUME Init PROVE StampsInv
  OBVIOUS
<1>1. \A e \in Engines : pc[e] = "closed"
  BY DEF Init
<1>2. \A e, f \in Engines : ~ Differ(e, f)
  BY <1>1 DEF Differ, HasOptions, HasBits
<1>3. \A e \in Engines : StampsOK(e)
  BY <1>1 DEF StampsOK, IsOpen, PastBits, HasOptions, HasBits
<1>4. \A i \in Id : db.entries[i] # NULL => db.entries[i].raw = NULL
  <2> DEFINE Empty(S, n) == [docs |-> [i \in Id |-> IF i \in S THEN n ELSE NULL],
                             entries |-> [i \in Id |-> IF i \in S THEN [norm |-> n, raw |-> NULL]
                                                       ELSE NULL],
                             profile |-> NULL, bits |-> NULL, torn |-> {}]
  <2>1. PICK S \in {{}, LegacyIds}, x \in Texts : db = Empty(S, Norm[preset("Loose"), x])
    BY Zenon DEF Init
  <2> DEFINE n == Norm[preset("Loose"), x]
  <2> HIDE DEF n
  <2>2. db = Empty(S, n)
    BY <2>1 DEF n
  <2> QED
    BY <2>2
<1>5. \A o : RowsUnder(db, contested, o)
  BY <1>4 DEF RowsUnder
<1> QED
  BY <1>2, <1>3, <1>5 DEF StampsInv

LEMMA StampsNext ==
  ASSUME TablesInv, StampsInv, [Next]_vars
  PROVE  StampsInv'
<1>1. CASE Next
  <2>1. PICK e \in Engines : Step(e)
    BY <1>1 DEF Next
  <2>2. mixed \in BOOLEAN /\ mixed' = (mixed \/ \E a, b \in Engines : Differ(a, b)')
    BY <1>1 DEF Next, TablesInv, TypeOK
  <2>3. mixed' \in BOOLEAN
    BY <2>2
  <2>4. CASE ~ mixed'
    <3>1. ~ mixed /\ \A a, b \in Engines : ~ Differ(a, b)'
      BY <2>2, <2>4
    <3>2. Sound
      BY <2>4, <3>1 DEF Sound
    <3>3. OnlyMoves(e)
      BY <2>1, <2>3, EveryStep DEF StepOK
    <3>4. FileMoves(e) /\ StampsOK(e)'
      BY <2>1, <2>3, <3>2, EveryMove
    <3> QED
      BY <3>2, <3>3, <3>4, StampsStep
  <2>5. CASE mixed'
    BY <2>5 DEF StampsInv
  <2> QED
    BY <2>4, <2>5
<1>2. CASE UNCHANGED vars
  <2>1. \A e, f \in Engines : Differ(e, f)' <=> Differ(e, f)
    BY <1>2 DEF vars, Differ
  <2>2. ASSUME NEW e \in Engines, StampsOK(e) PROVE StampsOK(e)'
    BY <1>2, <2>2 DEF vars, StampsOK, IsOpen, stored_field_bits, Stored, RowsUnder, Seen
  <2>3. \A o : (RowsUnder(db', contested', o) <=> RowsUnder(db, contested, o))
    BY <1>2 DEF vars
  <2>4. mixed' = mixed /\ StampedProfile(db') = StampedProfile(db)
    BY <1>2 DEF vars
  <2> QED
    BY <2>1, <2>2, <2>3, <2>4 DEF StampsInv
<1> QED
  BY <1>1, <1>2

\* What keeps one file's normalizations and encodings apart: an engine past its
\* checks has the encoding and, unless it is about to rebuild them, the
\* normalization of the rows it finds, however its steps and those of other
\* engines come after another.
THEOREM SharedInvariance ==
  Spec => []SharedInv
<1>1. Init => SharedInv
  BY TablesInit, StampsInit DEF SharedInv
<1>2. SharedInv /\ [Next]_vars => SharedInv'
  BY TablesNext, StampsNext DEF SharedInv
<1> QED
  BY <1>1, <1>2, PTL DEF Spec

\* An open engine finds every row that kept its raw text normalized the way it
\* normalizes queries, while no two engines have been open on the file under
\* different configurations at once (withConfig, withOptions and their rebuilding
\* forms).
THEOREM RowsFoundAsOpened ==
  Spec => []RowsAsOpened
<1>1. SharedInv => RowsAsOpened
  <2> SUFFICES ASSUME SharedInv, ~ mixed, NEW e \in Engines, IsOpen(e)
               PROVE  \A i \in Stored(db) \ contested :
                        db.entries[i].raw # NULL =>
                          db.entries[i].norm = Norm[options[e], db.entries[i].raw]
    BY DEF RowsAsOpened
  <2>1. CallOK(e) /\ StampsOK(e)
    BY DEF SharedInv, TablesInv, StampsInv
  <2>2. pc[e] \in HasOptions /\ ~ call[e].rebuild
    BY <2>1 DEF IsOpen, CallOK
  <2>3. RowsUnder(db, contested, options[e])
    BY <2>1, <2>2 DEF StampsOK
  <2> QED
    BY <2>3 DEF RowsUnder, Stored
<1> QED
  BY <1>1, SharedInvariance, PTL

\* ... and its own configuration stamped in the file (stamp_profile and
\* stamp_field_bits run before an engine is handed out).
THEOREM StampsFoundAsOpened ==
  Spec => []StampsMatch
<1>1. SharedInv => StampsMatch
  <2> SUFFICES ASSUME SharedInv, ~ mixed, NEW e \in Engines, IsOpen(e)
               PROVE  db.profile = fingerprint(options[e]) /\ db.bits = field_bits[e]
    BY DEF StampsMatch
  <2>1. CallOK(e) /\ StampsOK(e)
    BY DEF SharedInv, TablesInv, StampsInv
  <2>2. pc[e] \in HasOptions \ Opening
    BY <2>1 DEF IsOpen, CallOK
  <2>3. pc[e] \in PastBits
    BY <2>2 DEF HasOptions, Opening, PastBits
  <2> QED
    BY <2>1, <2>3 DEF StampsOK
<1> QED
  BY <1>1, SharedInvariance, PTL

-----------------------------------------------------------------------------
(* The encoding. *)

\* The encoding stamped changes in a constructor and in change_field_bits only.
LEMMA BitsStay ==
  ASSUME TablesInv, NEW e \in Engines, mixed' \in BOOLEAN, Step(e)
  PROVE  db'.bits = db.bits \/ write_bits(e) \/ repack(e)
<1>1. CASE File
  BY <1>1 DEF File
<1>2. CASE \/ index_batch(e) \/ remove_batch(e) \/ remove_all(e)
           \/ index_record(e) \/ index_records_batch(e)
  BY <1>2, IndexBatchStep, IndexRecordStep, IndexRecordsBatchStep, RemoveSteps DEF Transacted
<1>3. CASE write_profile(e)
  <2>1. /\ db' = stamp_profile(db, fingerprint(options[e])) /\ db \in Files
        /\ pc[e] \in Opening
    BY <1>3 DEF write_profile, Write, TablesInv, TypeOK, Opening
  <2>2. fingerprint(options[e]) \in Profiles
    BY <2>1, OpeningCall DEF Profiles
  <2> QED
    BY <2>1, <2>2, StampFacts
<1>4. CASE delete_docs(e)
  <2>1. db \in Files /\ call[e].ids \in SUBSET Id
    BY <1>4, MidCall DEF delete_docs
  <2>2. db' = Begun(DeleteDocs(db, call[e].ids), call[e].ids)
    BY <1>4 DEF delete_docs, Write
  <2>3. /\ DeleteDocs(db, call[e].ids) \in Files
        /\ DeleteDocs(db, call[e].ids).bits = db.bits
    BY <2>1, DeleteDocsFacts
  <2> QED
    BY <2>1, <2>2, <2>3, TornFacts
<1>5. CASE insert_docs(e) /\ ~ File
  <2>1. /\ db \in Files /\ call[e].ids \in SUBSET Id /\ options[e] \in Configurations
        /\ call[e].text \in Texts
    BY <1>5, MidCall DEF insert_docs, MidWrite
  <2>2. RowsOf(IndexRow(e))
    BY <2>1, RowType DEF IndexRow, RowsOf
  <2>3. db' = InsertDocs(db, IndexRow(e))
    BY <1>5 DEF insert_docs, Write
  <2> QED
    BY <2>1, <2>2, <2>3, InsertDocsFacts
<1>6. CASE replace_entries(e)
  <2>1. /\ db \in Files /\ call[e].ids \in SUBSET Id /\ options[e] \in Configurations
        /\ call[e].text \in Texts
    BY <1>6, MidCall DEF replace_entries, MidWrite
  <2>2. RowsOf(IndexRow(e))
    BY <2>1, RowType DEF IndexRow, RowsOf
  <2>3. db' = Completed(ReplaceEntries(db, IndexRow(e)), call[e].ids)
    BY <1>6 DEF replace_entries, Write
  <2>4. /\ ReplaceEntries(db, IndexRow(e)) \in Files
        /\ ReplaceEntries(db, IndexRow(e)).bits = db.bits
    BY <2>1, <2>2, ReplaceEntriesFacts
  <2> QED
    BY <2>1, <2>3, <2>4, TornFacts
<1>7. CASE delete_entries(e)
  <2>1. db \in Files /\ call[e].ids \in SUBSET Id
    BY <1>7, MidCall DEF delete_entries, MidWrite
  <2>2. db' = Completed(DeleteEntries(db, call[e].ids), call[e].ids)
    BY <1>7 DEF delete_entries, Write
  <2>3. /\ DeleteEntries(db, call[e].ids) \in Files
        /\ DeleteEntries(db, call[e].ids).bits = db.bits
    BY <2>1, DeleteEntriesFacts
  <2> QED
    BY <2>1, <2>2, <2>3, TornFacts
<1>8. CASE regenerate(e)
  <2>1. /\ pc[e] = "regenerate"
        /\ db' = stamp_profile(Regenerated(e, db), fingerprint(options[e]))
    BY <1>8 DEF regenerate, Write
  <2>2. fingerprint(options[e]) \in Profiles
    BY <2>1 DEF Profiles, TablesInv, CallOK
  <2>3. Regenerated(e, db) \in Files /\ Regenerated(e, db).bits = db.bits
    BY <2>1, RegeneratedFacts
  <2> QED
    BY <2>1, <2>2, <2>3, StampFacts
<1>9. CASE \/ new_default(e) \/ with_config(e) \/ with_config_rebuilding(e)
           \/ with_options(e) \/ with_options_rebuilding(e)
  BY <1>1, <1>9, ConstructorSteps DEF open
<1>10. CASE count_for_bits(e) \/ read_bits(e) \/ count_for_profile(e) \/ read_profile(e)
  BY <1>1, <1>10 DEF count_for_bits, read_bits, count_for_profile, read_profile
<1>11. CASE \/ index(e) \/ remove(e) \/ remove_record(e) \/ reindex(e) \/ change_field_bits(e)
  BY <1>1, <1>11, BeginSteps DEF Begin
<1>12. CASE insert_docs(e) \/ select_rows(e) \/ call_fails(e) \/ dies(e) \/ close(e)
  BY <1>1, <1>5, <1>12 DEF select_rows, call_fails, dies, close
<1> QED
  BY <1>2, <1>3, <1>4, <1>6, <1>7, <1>8, <1>9, <1>10, <1>11, <1>12 DEF Step

\* A step that changes the encoding the file is stamped with finds that every
\* document no other engine touched fits the new one, and moves it to the id of
\* the same record and slot with its text: no constructor relabels stored ids,
\* and change_field_bits moves them all.
THEOREM EncodingChangesKeepRecords ==
  Spec => EncodingKeepsRecords
<1>1. SharedInv /\ [Next]_vars => KeepsRecords
  <2> DEFINE b == stored_field_bits(db)
  <2> SUFFICES ASSUME SharedInv, [Next]_vars, ~ mixed, b # NULL, db'.bits \notin {NULL, b},
                      NEW i \in Stored(db) \ contested
               PROVE  /\ Fits(i, b, db'.bits)
                      /\ db'.entries[Repack(i, b, db'.bits)] = db.entries[i]
    BY DEF KeepsRecords
  <2>1. TablesInv /\ \A e \in Engines : StampsOK(e)
    BY DEF SharedInv, StampsInv
  <2>2. db'.bits # db.bits
    BY DEF stored_field_bits
  <2>3. PICK e \in Engines : Step(e)
    BY <2>2 DEF Next, vars
  <2>4. mixed' \in BOOLEAN
    <3>1. mixed \in BOOLEAN /\ mixed' = (mixed \/ \E a, c \in Engines : Differ(a, c)')
      BY <2>1, <2>2 DEF Next, vars, TablesInv, TypeOK
    <3> QED
      BY <3>1
  <2>5. write_bits(e) \/ repack(e)
    BY <2>1, <2>2, <2>3, <2>4, BitsStay
  <2>6. ~ write_bits(e)
    <3> SUFFICES ASSUME write_bits(e) PROVE FALSE
      OBVIOUS
    <3>1. db' = stamp_field_bits(db, field_bits[e]) /\ pc[e] \in HasBits
      BY DEF write_bits, Write, HasBits
    <3>2. db \in Files /\ field_bits[e] \in FieldBits
      BY <2>1 DEF TablesInv, TypeOK
    <3>3. db'.bits = field_bits[e]
      BY <3>1, <3>2, StampFacts
    <3>4. b = field_bits[e]
      BY <2>1, <3>1 DEF StampsOK
    <3> QED
      BY <3>3, <3>4
  <2>7. repack(e)
    BY <2>5, <2>6
  <2>8. b = field_bits[e] /\ i \in Id \ contested /\ db.entries[i] # NULL
    <3>1. pc[e] \in HasBits
      BY <2>7 DEF repack, HasBits
    <3> QED
      BY <2>1, <3>1 DEF StampsOK, Stored
  <2> HIDE DEF b
  <2> QED
    BY <2>1, <2>7, <2>8, RepackedRows
<1> QED
  BY <1>1, SharedInvariance, PTL DEF Spec, EncodingKeepsRecords
=============================================================================
