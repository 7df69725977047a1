-------------------------- MODULE SharedInvariant --------------------------
(***************************************************************************)
(* The inductive invariant behind SharedFile's safety properties.          *)
(***************************************************************************)
EXTENDS SharedFile

MidWrite == {"ins_docs", "ins_entries", "del_entries"}
Opening == {"count_bits", "read_bits", "count_profile", "read_profile",
            "stamp_bits", "stamp_profile"}

\* A call's arguments and locals fit its operation and the step it is at.
CallOK(e) ==
  LET c == call[e]
  IN  /\ pc[e] # "closed" => options[e] \in Configurations
      /\ pc[e] = "open" => c.op = "none"
      /\ pc[e] \in Opening => c.op = "open"
      /\ c.op # "open" => ~ c.rebuild
      /\ pc[e] \in MidWrite \cup {"del_docs"} => c.op \in {"index", "remove", "remove_record"}
      /\ pc[e] \in {"ins_docs", "ins_entries"} => c.op = "index"
      /\ c.op = "index" => c.text \in Texts
      /\ c.op = "change_field_bits" => c.arg \in FieldBits
      /\ pc[e] = "select" => c.op \in {"open", "reindex", "change_field_bits"}
      /\ pc[e] = "repack" => c.op = "change_field_bits"
      /\ pc[e] = "regenerate" => /\ c.op \in {"open", "reindex"}
                                 /\ \A i \in Seen(e) : c.seen[i].raw # NULL

\* What each step of a write may assume of the file, but for contested ids: how
\* far it has come, and that the rows it has read are still the ones there.
WriteOK(e) ==
  LET c == call[e]
  IN  /\ pc[e] \in MidWrite => c.ids \subseteq db.torn \cup contested
      /\ pc[e] = "ins_entries" =>
           \A i \in c.ids \ contested : db.docs[i] = Norm[options[e], c.text]
      /\ pc[e] = "del_entries" => \A i \in c.ids \ contested : db.docs[i] = NULL
      /\ pc[e] = "regenerate" => \A i \in Seen(e) \ contested : db.entries[i] = c.seen[i]
      /\ pc[e] = "repack" =>
           /\ \A i \in Id \ contested : db.entries[i] = c.seen[i]
           /\ \A i \in Seen(e) : Fits(i, field_bits[e], c.arg)

\* The two tables of an image agree on an id.
Agree(d, i) == d.docs[i] = IF d.entries[i] = NULL THEN NULL ELSE d.entries[i].norm

TablesInv ==
  /\ TypeOK
  /\ \A e \in Engines : CallOK(e) /\ WriteOK(e)
  /\ \A i \in Id \ (db.torn \cup contested) : Agree(db, i)

-----------------------------------------------------------------------------
(* What RowsAsOpened, StampsMatch and EncodingKeepsRecords need as well, as
   long as no two engines have been past their checks with different ones.   *)

PastBits == HasBits \ {"count_profile", "read_profile", "stamp_bits"}

\* The rows of d outside S that kept their raw text are normalized under o.
RowsUnder(d, S, o) ==
  \A i \in Id \ S :
    d.entries[i] # NULL /\ d.entries[i].raw # NULL =>
      d.entries[i].norm = Norm[o, d.entries[i].raw]

StampedProfile(d) == IF d.profile = NULL THEN Loose ELSE d.profile

\* An engine past its check of the encoding has the one of the rows, and has
\* stamped it before it writes; past its check of the profile it either knows
\* the rows to be normalized under its options, or is about to rebuild them.
StampsOK(e) ==
  /\ pc[e] \in HasBits => stored_field_bits(db) \in {NULL, field_bits[e]}
  /\ pc[e] \in PastBits => db.bits = field_bits[e]
  /\ pc[e] = "stamp_profile" => ~ call[e].rebuild
  /\ IsOpen(e) => db.profile = fingerprint(options[e])
  /\ pc[e] \in HasOptions /\ ~ call[e].rebuild => RowsUnder(db, contested, options[e])
  /\ pc[e] = "regenerate" => RowsUnder(db, contested \cup Seen(e), options[e])

StampsInv ==
  ~ mixed =>
    /\ \A e, f \in Engines : ~ Differ(e, f)
    /\ \A e \in Engines : StampsOK(e)
    /\ \A o \in Configurations :
         fingerprint(o) = StampedProfile(db) => RowsUnder(db, contested, o)

SharedInv == TablesInv /\ StampsInv
=============================================================================
