---------------------------- MODULE PluginProofs ----------------------------
(***************************************************************************)
(* HandlesInv is an invariant of Plugin: a handle means one engine for     *)
(* good, and FIFO delivery keeps every call ahead of the dispose that      *)
(* would take its engine away.                                             *)
(***************************************************************************)
EXTENDS Plugin, TLAPS

Statuses == {"new", "opening", "open", "failed"}
Call == [n : Nat, method : Methods, wrapper : Wrappers, handle : Int]
Reply == [n : Nat, method : Methods, wrapper : Wrappers, answer : Answers, handle : Int]

-----------------------------------------------------------------------------
(* Both queues grow at the end and shrink at the head. *)

LEMMA AppendAt ==
  ASSUME NEW S, NEW s \in Seq(S), NEW e \in S
  PROVE  /\ Append(s, e) \in Seq(S)
         /\ Len(s) \in Nat /\ DOMAIN s = 1 .. Len(s)
         /\ DOMAIN Append(s, e) = 1 .. Len(s) + 1
         /\ \A k \in 1 .. Len(s) : Append(s, e)[k] = s[k]
         /\ Append(s, e)[Len(s) + 1] = e
OBVIOUS

LEMMA TailAt ==
  ASSUME NEW S, NEW s \in Seq(S), s # <<>>
  PROVE  /\ Tail(s) \in Seq(S)
         /\ Len(s) \in Nat \ {0} /\ DOMAIN s = 1 .. Len(s)
         /\ DOMAIN Tail(s) = 1 .. Len(s) - 1
         /\ \A k \in 1 .. Len(s) - 1 : Tail(s)[k] = s[k + 1]
         /\ Head(s) = s[1] /\ Head(s) \in S
OBVIOUS

\* What TypeOK says of the queues, element by element.
LEMMA Elements ==
  ASSUME TypeOK
  PROVE  /\ channel \in Seq(Call) /\ replies \in Seq(Reply)
         /\ \A k \in DOMAIN channel : channel[k].wrapper \in Wrappers
         /\ \A k \in DOMAIN replies : replies[k].wrapper \in Wrappers
<1>1. channel \in Seq(Call) /\ replies \in Seq(Reply)
  BY DEF TypeOK, Call, Reply
<1>2. /\ \A k \in DOMAIN channel : channel[k] \in Call
      /\ \A k \in DOMAIN replies : replies[k] \in Reply
  BY <1>1
<1> QED BY <1>1, <1>2 DEF Call, Reply

\* The engine of a wrapper Dart is done with has its dispose on the way.
LEMMA DisposeSent ==
  ASSUME HandlesInv, NEW h \in DOMAIN engines, Finished(engines[h])
  PROVE  /\ \E k \in DOMAIN channel : channel[k].method = "dispose" /\ channel[k].handle = h
         /\ status[engines[h]] = "open"
<1> DEFINE w == engines[h]
<1>1. /\ \A v \in Wrappers : HandleOK(v)
      /\ \A k \in DOMAIN replies : AnswerOK(k)
      /\ \A k \in DOMAIN channel : CallOK(k)
      /\ NoneLeaks /\ TypeOK
  BY DEF HandlesInv
<1>2. h \in Nat
  BY <1>1 DEF TypeOK
<1>3. ASSUME NEW v \in Wrappers, status[v] = "open", _handle[v] = h PROVE FALSE
  <2>1. v = w /\ ~ _disposed(v)
    BY <1>1, <1>2, <1>3 DEF HandleOK, Holds, _disposed
  <2> QED BY <2>1, <1>3 DEF Finished
<1>4. ASSUME NEW k \in DOMAIN replies, replies[k].method = "open", replies[k].handle = h
      PROVE  FALSE
  <2>1. AnswerOK(k)
    BY <1>1
  <2>2. replies[k].wrapper = w /\ status[w] = "opening"
    BY <2>1, <1>2, <1>4 DEF AnswerOK, Holds
  <2> QED BY <2>2 DEF Finished
<1>5. PICK k \in DOMAIN channel : channel[k].method = "dispose" /\ channel[k].handle = h
  BY <1>1, <1>3, <1>4 DEF NoneLeaks
<1>6. CallOK(k)
  BY <1>1
<1> QED BY <1>5, <1>6 DEF CallOK, Holds

-----------------------------------------------------------------------------
(* Dart. *)

LEMMA OpenStep ==
  ASSUME HandlesInv, NEW w \in Wrappers, open(w)
  PROVE  HandlesInv'
<1> DEFINE c == [n |-> sent, method |-> "open", wrapper |-> w, handle |-> -1]
           L == Len(channel)
<1>1. /\ TypeOK /\ \A v \in Wrappers : HandleOK(v)
      /\ \A k \in DOMAIN replies : AnswerOK(k)
      /\ \A k \in DOMAIN channel : OpenOK(k) /\ CallOK(k) /\ DisposedAhead(k)
      /\ NoneLeaks /\ AloneApart
  BY DEF HandlesInv
<1>2. c \in Call /\ c.method = "open" /\ c.wrapper = w
  BY <1>1 DEF TypeOK, Call, Methods
<1>3. /\ channel \in Seq(Call) /\ replies \in Seq(Reply)
      /\ \A k \in DOMAIN channel : channel[k].wrapper \in Wrappers
      /\ \A k \in DOMAIN replies : replies[k].wrapper \in Wrappers
  BY <1>1, Elements
<1>4. /\ status[w] = "new" /\ status' = [status EXCEPT ![w] = "opening"]
      /\ channel' = Append(channel, c)
      /\ UNCHANGED <<_handle, replies, engines, nextHandle, missed, strays>>
      /\ sent' = sent + 1
      /\ alone' = IF \A v \in Wrappers \ {w} : Finished(v) THEN alone \cup {w} ELSE alone
  BY DEF open, invokeMethod, table
<1>5. /\ channel' \in Seq(Call) /\ L \in Nat /\ DOMAIN channel = 1 .. L
      /\ DOMAIN channel' = 1 .. L + 1 /\ channel'[L + 1] = c
      /\ \A k \in 1 .. L : channel'[k] = channel[k]
  BY <1>2, <1>3, <1>4, AppendAt
<1> HIDE DEF c, L
<1>6. status' \in [Wrappers -> Statuses]
  BY <1>1, <1>4 DEF TypeOK, Statuses
<1>7. \A v \in Wrappers : status'[v] = IF v = w THEN "opening" ELSE status[v]
  BY <1>1, <1>4 DEF TypeOK
<1>8. TypeOK'
  BY <1>1, <1>4, <1>5, <1>6 DEF TypeOK, Call, Statuses
<1>9. \A k \in DOMAIN replies : replies[k].method = "open" => replies[k].wrapper # w
  BY <1>1, <1>4 DEF AnswerOK
<1>10. \A k \in DOMAIN channel : channel[k].method = "open" => channel[k].wrapper # w
  BY <1>1, <1>4 DEF OpenOK
<1>11. ASSUME NEW v \in Wrappers PROVE HandleOK(v)'
  BY <1>1, <1>4, <1>7 DEF HandleOK, Holds, _disposed
<1>12. ASSUME NEW k \in DOMAIN replies PROVE AnswerOK(k)'
  BY <1>1, <1>3, <1>4, <1>7, <1>9 DEF AnswerOK, Holds
<1>13. \A h \in DOMAIN engines : engines[h] # w
  BY <1>4, DisposeSent DEF Finished
<1>14. ASSUME NEW k \in 1 .. L + 1 PROVE OpenOK(k)'
  <2>1. CASE k \in 1 .. L
    <3>1. OpenOK(k) /\ channel'[k] = channel[k] /\ channel[k].wrapper \in Wrappers
      BY <1>1, <1>3, <1>5, <2>1
    <3>2. SUFFICES ASSUME channel[k].method = "open" PROVE OpenOK(k)'
      BY <3>1 DEF OpenOK
    <3>3. status'[channel[k].wrapper] = "opening"
      BY <3>1, <3>2, <1>7 DEF OpenOK
    <3>4. ASSUME NEW j \in 1 .. L + 1, channel'[j].method = "open", j # k
          PROVE  channel'[j].wrapper # channel[k].wrapper
      <4>1. CASE j = L + 1
        BY <4>1, <3>2, <1>2, <1>5, <1>10, <2>1
      <4>2. CASE j \in 1 .. L
        BY <4>2, <3>1, <3>2, <3>4, <1>5 DEF OpenOK
      <4> QED BY <4>1, <4>2, <1>5
    <3> QED BY <3>1, <3>2, <3>3, <3>4, <1>4, <1>5 DEF OpenOK
  <2>2. CASE k = L + 1
    <3>1. \A j \in 1 .. L : channel'[j].method = "open" => channel'[j].wrapper # w
      BY <1>5, <1>10
    <3> QED BY <3>1, <2>2, <1>2, <1>4, <1>5, <1>7, <1>9, <1>13 DEF OpenOK
  <2> QED BY <2>1, <2>2, <1>5
<1>15. ASSUME NEW k \in 1 .. L + 1 PROVE CallOK(k)'
  BY <1>1, <1>2, <1>3, <1>4, <1>5, <1>7 DEF CallOK, Holds, _disposed
<1>16. \A v \in Wrappers : v # w => (Finished(v) <=> Finished(v)')
  BY <1>4, <1>7 DEF Finished, _disposed
<1>17. AloneApart'
  BY <1>1, <1>4, <1>7, <1>16 DEF AloneApart
<1>18. ASSUME NEW k \in 1 .. L + 1 PROVE DisposedAhead(k)'
  <2>1. CASE k \in 1 .. L
    <3>1. DisposedAhead(k) /\ channel'[k] = channel[k]
      BY <1>1, <1>5, <2>1
    <3>2. channel[k].method = "open" => channel[k].wrapper # w
      BY <1>10, <1>5, <2>1
    <3>3. SUFFICES ASSUME channel[k].method = "open", channel[k].wrapper \in alone',
                          NEW h \in DOMAIN engines, engines[h] \in alone'
                   PROVE  \E j \in 1 .. k - 1 : channel'[j].method = "dispose" /\ channel'[j].handle = h
      BY <3>1, <1>4 DEF DisposedAhead
    <3>4. engines[h] \in alone /\ channel[k].wrapper \in alone
      BY <3>2, <3>3, <1>4, <1>13
    <3>5. PICK j \in 1 .. k - 1 : channel[j].method = "dispose" /\ channel[j].handle = h
      BY <3>1, <3>3, <3>4 DEF DisposedAhead
    <3>6. j \in 1 .. L
      BY <2>1, <1>5
    <3> QED BY <3>5, <3>6, <1>5
  <2>2. CASE k = L + 1
    <3>1. SUFFICES ASSUME w \in alone', NEW h \in DOMAIN engines, engines[h] \in alone'
                   PROVE  \E j \in 1 .. L : channel[j].method = "dispose" /\ channel[j].handle = h
      BY <1>2, <1>4, <1>5, <2>2 DEF DisposedAhead
    <3>2. Finished(engines[h])
      BY <3>1, <1>1, <1>4, <1>13 DEF AloneApart, TypeOK
    <3> QED BY <3>2, <1>5, DisposeSent
  <2> QED BY <2>1, <2>2, <1>5
<1>19. NoneLeaks'
  BY <1>1, <1>2, <1>3, <1>4, <1>5, <1>7 DEF NoneLeaks
<1>20. OneEngineUnlessAsked'
  BY <1>4, <1>13 DEF HandlesInv, OneEngineUnlessAsked
<1>21. (OneEngineEach /\ ReachesItsEngine /\ NoneMissed)'
  BY <1>4 DEF HandlesInv, OneEngineEach, ReachesItsEngine, NoneMissed
<1> QED
  BY <1>4, <1>5, <1>8, <1>11, <1>12, <1>14, <1>15, <1>17, <1>18, <1>19, <1>20, <1>21
  DEF HandlesInv

\* use and dispose: a call with the handle of a live wrapper joins the channel,
\* and dispose gives the handle up.
LEMMA SendStep ==
  ASSUME HandlesInv, NEW w \in Wrappers, NEW c \in Call,
         status[w] = "open", ~ _disposed(w),
         c.method \in {"use", "dispose"}, c.wrapper = w, c.handle = _handle[w],
         channel' = Append(channel, c), sent' \in Nat,
         _handle' = IF c.method = "dispose" THEN [_handle EXCEPT ![w] = -1] ELSE _handle,
         UNCHANGED <<status, replies, engines, nextHandle, missed, strays, alone>>
  PROVE  HandlesInv'
<1> DEFINE L == Len(channel)
<1>1. /\ TypeOK /\ \A v \in Wrappers : HandleOK(v)
      /\ \A k \in DOMAIN replies : AnswerOK(k)
      /\ \A k \in DOMAIN channel : OpenOK(k) /\ CallOK(k) /\ DisposedAhead(k)
      /\ NoneLeaks /\ AloneApart
  BY DEF HandlesInv
<1>2. /\ channel \in Seq(Call) /\ replies \in Seq(Reply)
      /\ \A k \in DOMAIN channel : channel[k].wrapper \in Wrappers
  BY <1>1, Elements
<1>3. /\ channel' \in Seq(Call) /\ L \in Nat /\ DOMAIN channel = 1 .. L
      /\ DOMAIN channel' = 1 .. L + 1 /\ channel'[L + 1] = c
      /\ \A k \in 1 .. L : channel'[k] = channel[k]
  BY <1>2, AppendAt
<1> HIDE DEF L
<1>4. _handle' \in [Wrappers -> Int]
  BY <1>1 DEF TypeOK
<1>5. TypeOK'
  BY <1>1, <1>3, <1>4 DEF TypeOK, Call
<1>6. /\ \A v \in Wrappers : v # w => _handle'[v] = _handle[v]
      /\ c.method = "use" => _handle' = _handle
      /\ c.method = "dispose" => _disposed(w)'
      /\ \A v \in Wrappers : _disposed(v) => _disposed(v)'
  BY <1>1 DEF TypeOK, _disposed
<1>7. ASSUME NEW v \in Wrappers PROVE HandleOK(v)'
  <2>1. HandleOK(v)
    BY <1>1
  <2> QED BY <2>1, <1>6 DEF HandleOK, Holds, _disposed
<1>8. ASSUME NEW k \in DOMAIN replies PROVE AnswerOK(k)'
  BY <1>1 DEF AnswerOK, Holds
<1>9. ASSUME NEW k \in 1 .. L + 1 PROVE OpenOK(k)'
  BY <1>1, <1>3 DEF OpenOK
<1>10. ASSUME NEW k \in 1 .. L + 1 PROVE CallOK(k)'
  <2>1. CASE k \in 1 .. L
    <3>1. CallOK(k) /\ channel'[k] = channel[k] /\ channel[k].wrapper \in Wrappers
      BY <1>1, <1>2, <1>3, <2>1
    <3>2. \A j \in 1 .. k - 1 : channel'[j] = channel[j]
      BY <1>3, <2>1
    <3>3. SUFFICES ASSUME channel[k].method # "open" PROVE CallOK(k)'
      BY <3>1 DEF CallOK
    <3>4. Holds(channel[k].handle, channel[k].wrapper)
      BY <3>1, <3>3 DEF CallOK
    <3>5. \A j \in 1 .. k - 1 : channel'[j].method = "dispose" => channel'[j].handle # channel[k].handle
      BY <3>1, <3>2, <3>3 DEF CallOK
    <3>6. channel[k].method = "dispose" =>
            status[channel[k].wrapper] = "open" /\ _handle'[channel[k].wrapper] < 0
      BY <3>1, <3>3, <1>6 DEF CallOK, _disposed
    <3> QED BY <3>1, <3>4, <3>5, <3>6 DEF CallOK, Holds, _disposed
  <2>2. CASE k = L + 1
    <3>1. Holds(c.handle, w)
      BY <1>1 DEF HandleOK
    <3>2. ASSUME NEW j \in 1 .. L, channel[j].method = "dispose", channel[j].handle = c.handle
          PROVE  FALSE
      <4>1. CallOK(j)
        BY <1>1, <1>3
      <4> QED BY <4>1, <3>1, <3>2 DEF CallOK, Holds
    <3>3. \A j \in 1 .. L : channel'[j] = channel[j]
      BY <1>3
    <3> QED BY <3>1, <3>2, <3>3, <2>2, <1>3, <1>6 DEF CallOK, Holds
  <2> QED BY <2>1, <2>2, <1>3
<1>11. ASSUME NEW k \in 1 .. L + 1 PROVE DisposedAhead(k)'
  <2>1. CASE k \in 1 .. L
    <3>1. DisposedAhead(k) /\ channel'[k] = channel[k]
      BY <1>1, <1>3, <2>1
    <3>2. SUFFICES ASSUME channel[k].method = "open", channel[k].wrapper \in alone,
                          NEW h \in DOMAIN engines, engines[h] \in alone
                   PROVE  \E j \in 1 .. k - 1 : channel'[j].method = "dispose" /\ channel'[j].handle = h
      BY <3>1 DEF DisposedAhead
    <3>3. PICK j \in 1 .. k - 1 : channel[j].method = "dispose" /\ channel[j].handle = h
      BY <3>1, <3>2 DEF DisposedAhead
    <3>4. j \in 1 .. L
      BY <2>1, <1>3
    <3> QED BY <3>3, <3>4, <1>3
  <2>2. CASE k = L + 1
    BY <2>2, <1>3 DEF DisposedAhead
  <2> QED BY <2>1, <2>2, <1>3
<1>12. AloneApart'
  BY <1>1, <1>6 DEF AloneApart, Finished
<1>13. NoneLeaks'
  <2>1. SUFFICES ASSUME NEW h \in DOMAIN engines, NEW v \in Wrappers,
                        status[v] = "open" /\ _handle[v] = h
                 PROVE  \/ status[v] = "open" /\ _handle'[v] = h
                        \/ \E k \in DOMAIN channel' : channel'[k].method = "dispose" /\ channel'[k].handle = h
    BY <1>1, <1>3 DEF NoneLeaks
  <2> QED BY <2>1, <1>3, <1>6
<1>14. (OneEngineUnlessAsked /\ OneEngineEach /\ ReachesItsEngine /\ NoneMissed)'
  BY DEF HandlesInv, OneEngineUnlessAsked, OneEngineEach, ReachesItsEngine, NoneMissed
<1> QED
  BY <1>3, <1>5, <1>7, <1>8, <1>9, <1>10, <1>11, <1>12, <1>13, <1>14 DEF HandlesInv

LEMMA UseStep ==
  ASSUME HandlesInv, NEW w \in Wrappers, use(w)
  PROVE  HandlesInv'
<1> DEFINE c == [n |-> sent, method |-> "use", wrapper |-> w, handle |-> _handle[w]]
<1>1. TypeOK
  BY DEF HandlesInv
<1>2. /\ c \in Call /\ c.method = "use" /\ c.wrapper = w /\ c.handle = _handle[w]
      /\ sent + 1 \in Nat
  BY <1>1 DEF TypeOK, Call, Methods
<1>3. /\ status[w] = "open" /\ ~ _disposed(w)
      /\ channel' = Append(channel, c) /\ sent' = sent + 1
      /\ UNCHANGED <<status, _handle, replies, engines, nextHandle, missed, strays, alone>>
  BY DEF use, invokeMethod, table
<1> HIDE DEF c
<1> QED BY <1>2, <1>3, SendStep

LEMMA DisposeStep ==
  ASSUME HandlesInv, NEW w \in Wrappers, dispose(w)
  PROVE  HandlesInv'
<1> DEFINE c == [n |-> sent, method |-> "dispose", wrapper |-> w, handle |-> _handle[w]]
<1>1. TypeOK
  BY DEF HandlesInv
<1>2. /\ c \in Call /\ c.method = "dispose" /\ c.wrapper = w /\ c.handle = _handle[w]
      /\ sent + 1 \in Nat
  BY <1>1 DEF TypeOK, Call, Methods
<1>3. /\ status[w] = "open" /\ ~ _disposed(w)
      /\ _handle' = [_handle EXCEPT ![w] = -1]
      /\ channel' = Append(channel, c) /\ sent' = sent + 1
      /\ UNCHANGED <<status, replies, engines, nextHandle, missed, strays, alone>>
  BY DEF dispose, invokeMethod, table
<1> HIDE DEF c
<1> QED BY <1>2, <1>3, SendStep

\* The answer of an open makes the wrapper; the others only complete a future.
LEMMA CompleteStep ==
  ASSUME HandlesInv, complete
  PROVE  HandlesInv'
<1> DEFINE R == Len(replies)
           r == replies[1]
           w == r.wrapper
<1>1. /\ TypeOK /\ \A v \in Wrappers : HandleOK(v)
      /\ \A k \in DOMAIN replies : AnswerOK(k)
      /\ \A k \in DOMAIN channel : OpenOK(k) /\ CallOK(k) /\ DisposedAhead(k)
      /\ NoneLeaks /\ AloneApart
  BY DEF HandlesInv
<1>2. /\ channel \in Seq(Call) /\ replies \in Seq(Reply)
      /\ \A k \in DOMAIN channel : channel[k].wrapper \in Wrappers
      /\ \A k \in DOMAIN replies : replies[k].wrapper \in Wrappers
  BY <1>1, Elements
<1>3. /\ replies # <<>> /\ replies' = Tail(replies)
      /\ UNCHANGED <<channel, engines, nextHandle, missed, strays, sent, alone>>
  BY DEF complete, table
<1>4. /\ replies' \in Seq(Reply) /\ R \in Nat \ {0} /\ DOMAIN replies = 1 .. R
      /\ DOMAIN replies' = 1 .. R - 1 /\ Head(replies) = r /\ r \in Reply
      /\ \A k \in 1 .. R - 1 : replies'[k] = replies[k + 1]
  BY <1>2, <1>3, TailAt
<1>5. /\ r.method = "open" =>
           /\ status' = [status EXCEPT ![w] = IF r.answer = "ok" THEN "open" ELSE "failed"]
           /\ _handle' = [_handle EXCEPT ![w] = r.handle]
      /\ r.method # "open" => status' = status /\ _handle' = _handle
  BY <1>4 DEF complete
<1>6. w \in Wrappers /\ AnswerOK(1) /\ r.handle \in Int
  <2>1. 1 \in DOMAIN replies /\ r \in Reply
    BY <1>4
  <2>2. AnswerOK(1) /\ replies[1].wrapper \in Wrappers
    BY <2>1, <1>1, <1>2
  <2> QED BY <2>1, <2>2 DEF Reply
<1>7. r.method = "open" =>
        /\ status[w] = "opening"
        /\ IF r.answer = "ok" THEN Holds(r.handle, w) ELSE r.handle = -1
        /\ \A k \in 2 .. R : replies[k].method = "open" => replies[k].wrapper # w
        /\ \A k \in DOMAIN channel : channel[k].method = "open" => channel[k].wrapper # w
  <2>1. \A k \in DOMAIN channel : channel[k].method = "open" /\ r.method = "open" =>
          channel[k].wrapper # w
    BY <1>1, <1>4 DEF OpenOK
  <2> QED BY <2>1, <1>6, <1>4 DEF AnswerOK
<1>8. /\ \A v \in Wrappers : v # w \/ r.method # "open" =>
            status'[v] = status[v] /\ _handle'[v] = _handle[v]
      /\ r.method = "open" => /\ status'[w] = IF r.answer = "ok" THEN "open" ELSE "failed"
                              /\ _handle'[w] = r.handle
      /\ status' \in [Wrappers -> Statuses] /\ _handle' \in [Wrappers -> Int]
  <2>1. status \in [Wrappers -> Statuses] /\ _handle \in [Wrappers -> Int]
    BY <1>1 DEF TypeOK, Statuses
  <2>2. CASE r.method = "open"
    <3> DEFINE st == IF r.answer = "ok" THEN "open" ELSE "failed"
    <3>1. st \in Statuses
      BY DEF Statuses
    <3> HIDE DEF r, w
    <3>2. status' = [status EXCEPT ![w] = st] /\ _handle' = [_handle EXCEPT ![w] = r.handle]
      BY <2>2, <1>5
    <3> QED BY <2>1, <2>2, <3>1, <3>2, <1>6
  <2>3. CASE r.method # "open"
    BY <2>1, <2>3, <1>5
  <2> QED BY <2>2, <2>3
<1> HIDE DEF R, r, w
<1>9. TypeOK'
  BY <1>1, <1>3, <1>4, <1>8 DEF TypeOK, Reply, Statuses
<1>10. ASSUME NEW v \in Wrappers PROVE HandleOK(v)'
  <2>1. HandleOK(v)
    BY <1>1
  <2> QED BY <2>1, <1>3, <1>6, <1>7, <1>8 DEF HandleOK, Holds, _disposed
<1>11. ASSUME NEW k \in 1 .. R - 1 PROVE AnswerOK(k)'
  <2>1. /\ AnswerOK(k + 1) /\ k + 1 \in 2 .. R /\ replies'[k] = replies[k + 1]
        /\ replies[k + 1].wrapper \in Wrappers
    BY <1>1, <1>2, <1>4
  <2>2. replies[k + 1].method = "open" =>
          status'[replies[k + 1].wrapper] = status[replies[k + 1].wrapper]
    BY <2>1, <1>7, <1>8
  <2>3. \A j \in 1 .. R - 1 : replies'[j] = replies[j + 1] /\ j + 1 \in DOMAIN replies
                              /\ (j # k => j + 1 # k + 1)
    BY <1>4
  <2> QED BY <2>1, <2>2, <2>3, <1>3, <1>4 DEF AnswerOK, Holds
<1>12. ASSUME NEW k \in DOMAIN channel PROVE OpenOK(k)'
  <2>1. /\ OpenOK(k) /\ channel[k].wrapper \in Wrappers
        /\ channel[k].method = "open" => status'[channel[k].wrapper] = status[channel[k].wrapper]
    BY <1>1, <1>2, <1>7, <1>8
  <2>2. \A j \in 1 .. R - 1 : replies'[j] = replies[j + 1] /\ j + 1 \in DOMAIN replies
    BY <1>4
  <2> QED BY <2>1, <2>2, <1>3, <1>4 DEF OpenOK
<1>13. ASSUME NEW k \in DOMAIN channel PROVE CallOK(k)'
  <2>1. CallOK(k) /\ channel[k].wrapper \in Wrappers
    BY <1>1, <1>2
  <2> QED BY <2>1, <1>3, <1>7, <1>8 DEF CallOK, Holds, _disposed
<1>14. ASSUME NEW k \in DOMAIN channel PROVE DisposedAhead(k)'
  BY <1>1, <1>3 DEF DisposedAhead
<1>15. \A v \in Wrappers :
         /\ status[v] # "new" => status'[v] # "new"
         /\ Finished(v) => Finished(v)'
  BY <1>7, <1>8 DEF Finished, _disposed
<1>16. AloneApart'
  <2>1. AloneApart /\ alone' = alone
    BY <1>1, <1>3
  <2> QED BY <2>1, <1>15 DEF AloneApart
<1>17. NoneLeaks'
  <2>1. SUFFICES ASSUME NEW h \in DOMAIN engines
                 PROVE  \/ \E v \in Wrappers : status'[v] = "open" /\ _handle'[v] = h
                        \/ \E k \in DOMAIN replies' : replies'[k].method = "open" /\ replies'[k].handle = h
                        \/ \E k \in DOMAIN channel : channel[k].method = "dispose" /\ channel[k].handle = h
    BY <1>3 DEF NoneLeaks
  <2>2. h \in Nat
    BY <1>1 DEF TypeOK
  <2>3. ASSUME NEW v \in Wrappers, status[v] = "open" /\ _handle[v] = h
        PROVE  status'[v] = "open" /\ _handle'[v] = h
    BY <2>3, <1>7, <1>8
  <2>4. ASSUME NEW k \in 1 .. R, replies[k].method = "open" /\ replies[k].handle = h
        PROVE  \/ status'[w] = "open" /\ _handle'[w] = h
               \/ \E j \in DOMAIN replies' : replies'[j].method = "open" /\ replies'[j].handle = h
    <3>1. CASE k = 1
      BY <3>1, <2>2, <2>4, <1>7, <1>8 DEF r
    <3>2. CASE k # 1
      <4>1. k - 1 \in 1 .. R - 1 /\ (k - 1) + 1 = k
        BY <3>2, <1>4
      <4>2. k - 1 \in DOMAIN replies' /\ replies'[k - 1] = replies[k]
        BY <4>1, <1>4
      <4> QED BY <4>2, <2>4
    <3> QED BY <3>1, <3>2
  <2> QED BY <2>3, <2>4, <1>1, <1>4, <1>6 DEF NoneLeaks
<1>18. (OneEngineUnlessAsked /\ OneEngineEach /\ ReachesItsEngine /\ NoneMissed)'
  BY <1>3 DEF HandlesInv, OneEngineUnlessAsked, OneEngineEach, ReachesItsEngine, NoneMissed
<1> QED
  BY <1>3, <1>4, <1>9, <1>10, <1>11, <1>12, <1>13, <1>14, <1>16, <1>17, <1>18 DEF HandlesInv

-----------------------------------------------------------------------------
(* The platform. *)

\* The call at the head of the channel is answered with a, which has its method
\* and its wrapper.
Answered(a) ==
  /\ channel # <<>> /\ channel' = Tail(channel) /\ replies' = Append(replies, a)
  /\ a \in Reply /\ a.method = channel[1].method /\ a.wrapper = channel[1].wrapper
  /\ UNCHANGED <<status, _handle, alone, sent>>

LEMMA AnswerAnswers ==
  ASSUME TypeOK, channel # <<>>, NEW answer \in Answers, NEW h \in Int, Answer(answer, h)
  PROVE  \E a \in Reply : Answered(a) /\ a.answer = answer /\ a.handle = h
<1> DEFINE c == Head(channel)
           a == [n |-> c.n, method |-> c.method, wrapper |-> c.wrapper,
                 answer |-> answer, handle |-> h]
<1>1. c \in Call /\ c = channel[1]
  BY Elements, TailAt
<1>2. a \in Reply /\ a.method = c.method /\ a.wrapper = c.wrapper
      /\ a.answer = answer /\ a.handle = h
  BY <1>1 DEF Call, Reply
<1>3. /\ channel' = Tail(channel) /\ replies' = Append(replies, a)
      /\ UNCHANGED <<status, _handle, alone, sent>>
  BY DEF Answer, dart
<1> HIDE DEF a, c
<1>4. Answered(a)
  BY <1>1, <1>2, <1>3 DEF Answered
<1> QED BY <1>2, <1>4

LEMMA QueueFacts ==
  ASSUME TypeOK, NEW a \in Reply, Answered(a)
  PROVE  /\ channel' \in Seq(Call) /\ replies' \in Seq(Reply)
         /\ Len(channel) \in Nat \ {0} /\ DOMAIN channel = 1 .. Len(channel)
         /\ DOMAIN channel' = 1 .. Len(channel) - 1
         /\ \A k \in 1 .. Len(channel) - 1 :
              channel'[k] = channel[k + 1] /\ k + 1 \in 2 .. Len(channel)
         /\ Len(replies) \in Nat /\ DOMAIN replies = 1 .. Len(replies)
         /\ DOMAIN replies' = 1 .. Len(replies) + 1
         /\ \A k \in 1 .. Len(replies) : replies'[k] = replies[k]
         /\ replies'[Len(replies) + 1] = a
         /\ 1 \in DOMAIN channel /\ channel[1] \in Call
<1>1. channel \in Seq(Call) /\ replies \in Seq(Reply)
  BY Elements
<1>2. channel # <<>> /\ channel' = Tail(channel) /\ replies' = Append(replies, a)
  BY DEF Answered
<1>3. /\ channel' \in Seq(Call)
      /\ Len(channel) \in Nat \ {0} /\ DOMAIN channel = 1 .. Len(channel)
      /\ DOMAIN channel' = 1 .. Len(channel) - 1
      /\ \A k \in 1 .. Len(channel) - 1 : channel'[k] = channel[k + 1]
      /\ channel[1] \in Call
  BY <1>1, <1>2, TailAt
<1>4. /\ replies' \in Seq(Reply)
      /\ Len(replies) \in Nat /\ DOMAIN replies = 1 .. Len(replies)
      /\ DOMAIN replies' = 1 .. Len(replies) + 1
      /\ \A k \in 1 .. Len(replies) : replies'[k] = replies[k]
      /\ replies'[Len(replies) + 1] = a
  BY <1>1, <1>2, AppendAt
<1> QED BY <1>3, <1>4

\* What no handler touches but through the table: a wrapper has at most one open
\* on its way, as a call or as its answer.
LEMMA OpensAnswered ==
  ASSUME HandlesInv, NEW a \in Reply, Answered(a), NEW k \in DOMAIN channel'
  PROVE  LET w == channel'[k].wrapper
         IN  /\ w \in Wrappers
             /\ OpenOK(k + 1) /\ CallOK(k + 1) /\ DisposedAhead(k + 1)
             /\ channel'[k] = channel[k + 1] /\ k + 1 \in DOMAIN channel
             /\ channel'[k].method = "open" =>
                  /\ status'[w] = "opening"
                  /\ a.method = "open" => a.wrapper # w
                  /\ \A j \in DOMAIN replies' : replies'[j].method = "open" => replies'[j].wrapper # w
                  /\ \A j \in DOMAIN channel' : channel'[j].method = "open" /\ j # k =>
                       channel'[j].wrapper # w
<1> DEFINE w == channel'[k].wrapper
           L == Len(channel)
           R == Len(replies)
<1>1. TypeOK /\ \A i \in DOMAIN channel : OpenOK(i) /\ CallOK(i) /\ DisposedAhead(i)
  BY DEF HandlesInv
<1>2. /\ L \in Nat \ {0} /\ DOMAIN channel = 1 .. L /\ DOMAIN channel' = 1 .. L - 1
      /\ \A i \in 1 .. L - 1 : channel'[i] = channel[i + 1] /\ i + 1 \in 2 .. L
      /\ R \in Nat /\ DOMAIN replies = 1 .. R /\ DOMAIN replies' = 1 .. R + 1
      /\ \A i \in 1 .. R : replies'[i] = replies[i]
      /\ replies'[R + 1] = a
  BY <1>1, QueueFacts
<1>3. /\ UNCHANGED status
      /\ a.method = channel[1].method /\ a.wrapper = channel[1].wrapper
  BY DEF Answered
<1> HIDE DEF L, R
<1>4. k \in 1 .. L - 1 /\ k + 1 \in 2 .. L /\ k + 1 \in DOMAIN channel /\ k + 1 # 1
  BY <1>2
<1>5. OpenOK(k + 1) /\ CallOK(k + 1) /\ DisposedAhead(k + 1) /\ channel'[k] = channel[k + 1]
  BY <1>1, <1>2, <1>4
<1>6. w \in Wrappers
  BY <1>1, <1>4, <1>5, Elements
<1>7. ASSUME channel[k + 1].method = "open"
      PROVE  /\ status[w] = "opening"
             /\ \A j \in DOMAIN replies : replies[j].method = "open" => replies[j].wrapper # w
             /\ \A j \in DOMAIN channel : channel[j].method = "open" /\ j # k + 1 =>
                  channel[j].wrapper # w
  BY <1>5, <1>7 DEF OpenOK
<1>8. ASSUME channel[k + 1].method = "open", a.method = "open" PROVE a.wrapper # w
  <2>1. 1 \in DOMAIN channel /\ 1 # k + 1 /\ channel[1].method = "open"
    BY <1>2, <1>3, <1>4, <1>8
  <2>2. channel[1].wrapper # w
    BY <2>1, <1>7, <1>8
  <2> QED BY <2>2, <1>3
<1>9. ASSUME channel[k + 1].method = "open", NEW j \in DOMAIN replies', replies'[j].method = "open"
      PROVE  replies'[j].wrapper # w
  <2>1. CASE j = R + 1
    BY <2>1, <1>2, <1>8, <1>9
  <2>2. CASE j \in 1 .. R
    BY <2>2, <1>2, <1>7, <1>9
  <2> QED BY <2>1, <2>2, <1>2
<1>10. ASSUME channel[k + 1].method = "open", NEW j \in DOMAIN channel',
              channel'[j].method = "open", j # k
       PROVE  channel'[j].wrapper # w
  <2>1. j + 1 \in DOMAIN channel /\ channel'[j] = channel[j + 1] /\ j + 1 # k + 1
    BY <1>2, <1>4, <1>10
  <2> QED BY <2>1, <1>7, <1>10
<1> QED BY <1>3, <1>4, <1>5, <1>6, <1>7, <1>8, <1>9, <1>10

\* The answers that were under way stay good, if the table keeps their handles.
LEMMA AnswersKept ==
  ASSUME HandlesInv, NEW a \in Reply, Answered(a), NEW k \in DOMAIN replies,
         replies[k].method = "open" /\ replies[k].answer = "ok"
           => Holds(replies[k].handle, replies[k].wrapper)'
  PROVE  AnswerOK(k)'
<1> DEFINE R == Len(replies)
<1>1. TypeOK /\ AnswerOK(k) /\ \A i \in DOMAIN channel : OpenOK(i)
  BY DEF HandlesInv
<1>2. /\ R \in Nat /\ DOMAIN replies = 1 .. R /\ DOMAIN replies' = 1 .. R + 1
      /\ \A i \in 1 .. R : replies'[i] = replies[i]
      /\ replies'[R + 1] = a /\ 1 \in DOMAIN channel
  BY <1>1, QueueFacts
<1>3. status' = status /\ a.method = channel[1].method /\ a.wrapper = channel[1].wrapper
  BY DEF Answered
<1>4. OpenOK(1)
  BY <1>1, <1>2
<1>5. replies'[k] = replies[k]
  BY <1>2
<1> HIDE DEF R
<1>6. SUFFICES ASSUME replies[k].method = "open"
               PROVE  AnswerOK(k)'
  BY <1>5 DEF AnswerOK
<1>7. a.method = "open" => a.wrapper # replies[k].wrapper
  BY <1>3, <1>4, <1>6 DEF OpenOK
<1>8. ASSUME NEW j \in DOMAIN replies', replies'[j].method = "open", j # k
      PROVE  replies'[j].wrapper # replies[k].wrapper
  <2>1. CASE j = R + 1
    BY <2>1, <1>2, <1>7, <1>8
  <2>2. CASE j \in 1 .. R
    BY <2>2, <1>1, <1>2, <1>6, <1>8 DEF AnswerOK
  <2> QED BY <2>1, <2>2, <1>2
<1> QED BY <1>1, <1>3, <1>5, <1>6, <1>8 DEF AnswerOK

\* The new answer is good, if it brings its wrapper the handle of an engine.
LEMMA AnswerNew ==
  ASSUME HandlesInv, NEW a \in Reply, Answered(a), NEW m, m = Len(replies) + 1,
         a.method = "open" =>
           IF a.answer = "ok" THEN Holds(a.handle, a.wrapper)' ELSE a.handle = -1
  PROVE  AnswerOK(m)'
<1> DEFINE R == Len(replies)
<1>1. TypeOK /\ \A i \in DOMAIN channel : OpenOK(i)
  BY DEF HandlesInv
<1>2. /\ m = R + 1 /\ R \in Nat /\ DOMAIN replies = 1 .. R /\ DOMAIN replies' = 1 .. R + 1
      /\ \A i \in 1 .. R : replies'[i] = replies[i]
      /\ replies'[m] = a /\ 1 \in DOMAIN channel
  BY <1>1, QueueFacts
<1>3. status' = status /\ a.method = channel[1].method /\ a.wrapper = channel[1].wrapper
  BY DEF Answered
<1>4. OpenOK(1)
  BY <1>1, <1>2
<1> HIDE DEF R
<1>5. SUFFICES ASSUME a.method = "open" PROVE AnswerOK(m)'
  BY <1>2 DEF AnswerOK
<1>6. status[a.wrapper] = "opening"
  BY <1>3, <1>4, <1>5 DEF OpenOK
<1>7. \A j \in 1 .. R : replies[j].method = "open" => replies[j].wrapper # a.wrapper
  BY <1>2, <1>3, <1>4, <1>5 DEF OpenOK
<1>8. \A j \in DOMAIN replies' : replies'[j].method = "open" /\ j # m =>
        replies'[j].wrapper # a.wrapper
  BY <1>2, <1>7
<1> QED BY <1>2, <1>3, <1>5, <1>6, <1>8 DEF AnswerOK

\* A dispose of another handle than the one at the head moves up with the rest.
LEMMA DisposesKept ==
  ASSUME HandlesInv, NEW a \in Reply, Answered(a), NEW h, NEW i \in DOMAIN channel,
         channel[i].method = "dispose", channel[i].handle = h,
         channel[1].method # "dispose" \/ channel[1].handle # h
  PROVE  /\ i \in 2 .. Len(channel) /\ i - 1 \in DOMAIN channel'
         /\ channel'[i - 1].method = "dispose" /\ channel'[i - 1].handle = h
<1>1. TypeOK
  BY DEF HandlesInv
<1>2. /\ Len(channel) \in Nat \ {0} /\ DOMAIN channel = 1 .. Len(channel)
      /\ DOMAIN channel' = 1 .. Len(channel) - 1
      /\ \A k \in 1 .. Len(channel) - 1 : channel'[k] = channel[k + 1]
  BY <1>1, QueueFacts
<1>3. i # 1
  OBVIOUS
<1>4. i \in 2 .. Len(channel) /\ i - 1 \in 1 .. Len(channel) - 1 /\ (i - 1) + 1 = i
  BY <1>2, <1>3
<1> QED BY <1>2, <1>4

\* A handler that leaves the table alone: a use, or an open that failed.
LEMMA TableKept ==
  ASSUME HandlesInv, NEW a \in Reply, Answered(a), a.method # "dispose",
         a.method = "open" => a.answer # "ok" /\ a.handle = -1,
         engines' = engines, nextHandle' \in Nat, nextHandle' >= nextHandle,
         missed' = {}, strays' = {}
  PROVE  HandlesInv'
<1> DEFINE R == Len(replies)
           L == Len(channel)
<1>1. /\ TypeOK /\ \A v \in Wrappers : HandleOK(v)
      /\ \A k \in DOMAIN replies : AnswerOK(k)
      /\ NoneLeaks /\ AloneApart /\ OneEngineEach /\ OneEngineUnlessAsked
  BY DEF HandlesInv
<1>2. /\ channel' \in Seq(Call) /\ replies' \in Seq(Reply)
      /\ R \in Nat /\ DOMAIN replies = 1 .. R /\ DOMAIN replies' = 1 .. R + 1
      /\ \A k \in 1 .. R : replies'[k] = replies[k]
      /\ L \in Nat \ {0} /\ DOMAIN channel = 1 .. L /\ DOMAIN channel' = 1 .. L - 1
      /\ \A k \in 1 .. L - 1 : channel'[k] = channel[k + 1] /\ k + 1 \in 2 .. L
  BY <1>1, QueueFacts
<1>3. /\ UNCHANGED <<status, _handle, alone, sent>>
      /\ channel[1].method # "dispose"
  BY DEF Answered
<1> HIDE DEF R, L
<1>4. TypeOK'
  <2>1. DOMAIN engines \subseteq 0 .. nextHandle' - 1
    BY <1>1 DEF TypeOK
  <2> QED BY <2>1, <1>1, <1>2, <1>3 DEF TypeOK, Call, Reply
<1>5. ASSUME NEW v \in Wrappers PROVE HandleOK(v)'
  BY <1>1, <1>3 DEF HandleOK, Holds, _disposed
<1>6. ASSUME NEW k \in DOMAIN replies' PROVE AnswerOK(k)'
  <2>1. CASE k \in 1 .. R
    <3>1. replies[k].method = "open" /\ replies[k].answer = "ok"
            => Holds(replies[k].handle, replies[k].wrapper)
      BY <2>1, <1>1, <1>2 DEF AnswerOK
    <3> QED BY <3>1, <2>1, <1>2, AnswersKept DEF Holds
  <2>2. CASE k = R + 1
    BY <2>2, AnswerNew DEF R
  <2> QED BY <2>1, <2>2, <1>2
<1>7. ASSUME NEW k \in DOMAIN channel' PROVE OpenOK(k)' /\ CallOK(k)' /\ DisposedAhead(k)'
  <2> DEFINE w == channel'[k].wrapper
  <2>1. /\ w \in Wrappers /\ k + 1 \in DOMAIN channel /\ channel'[k] = channel[k + 1]
        /\ OpenOK(k + 1) /\ CallOK(k + 1) /\ DisposedAhead(k + 1)
        /\ channel'[k].method = "open" =>
             /\ status'[w] = "opening"
             /\ \A j \in DOMAIN replies' : replies'[j].method = "open" => replies'[j].wrapper # w
             /\ \A j \in DOMAIN channel' : channel'[j].method = "open" /\ j # k =>
                  channel'[j].wrapper # w
    BY OpensAnswered, SMTT(30)
  <2>2. OpenOK(k)'
    BY <2>1 DEF OpenOK
  <2>3. \A j \in 1 .. k - 1 : channel'[j] = channel[j + 1] /\ j + 1 \in 1 .. (k + 1) - 1
    BY <1>2
  <2>4. CallOK(k)'
    BY <2>1, <2>3, <1>3 DEF CallOK, Holds, _disposed
  <2>5. DisposedAhead(k)'
    <3>1. SUFFICES ASSUME channel[k + 1].method = "open", channel[k + 1].wrapper \in alone,
                          NEW h \in DOMAIN engines, engines[h] \in alone
                   PROVE  \E j \in 1 .. k - 1 : channel'[j].method = "dispose" /\ channel'[j].handle = h
      BY <2>1, <1>3 DEF DisposedAhead
    <3>2. PICK j \in 1 .. (k + 1) - 1 : channel[j].method = "dispose" /\ channel[j].handle = h
      BY <2>1, <3>1 DEF DisposedAhead
    <3>3. j \in DOMAIN channel
      BY <2>1, <1>2
    <3>4. channel'[j - 1].method = "dispose" /\ channel'[j - 1].handle = h /\ j \in 2 .. L
      BY <3>2, <3>3, <1>3, DisposesKept DEF L
    <3>5. j - 1 \in 1 .. k - 1
      BY <3>4, <1>2
    <3> QED BY <3>4, <3>5
  <2> QED BY <2>2, <2>4, <2>5
<1>8. NoneLeaks'
  <2>1. SUFFICES ASSUME NEW h \in DOMAIN engines
                 PROVE  \/ \E v \in Wrappers : status[v] = "open" /\ _handle[v] = h
                        \/ \E k \in DOMAIN replies' : replies'[k].method = "open" /\ replies'[k].handle = h
                        \/ \E k \in DOMAIN channel' : channel'[k].method = "dispose" /\ channel'[k].handle = h
    BY <1>3 DEF NoneLeaks
  <2>2. ASSUME NEW k \in DOMAIN replies, replies[k].method = "open" /\ replies[k].handle = h
        PROVE  \E j \in DOMAIN replies' : replies'[j].method = "open" /\ replies'[j].handle = h
    BY <2>2, <1>2
  <2>3. ASSUME NEW k \in DOMAIN channel, channel[k].method = "dispose" /\ channel[k].handle = h
        PROVE  \E j \in DOMAIN channel' : channel'[j].method = "dispose" /\ channel'[j].handle = h
    BY <2>3, <1>3, DisposesKept
  <2> QED BY <2>2, <2>3, <1>1 DEF NoneLeaks
<1>9. (AloneApart /\ OneEngineEach /\ OneEngineUnlessAsked)'
  BY <1>1, <1>3 DEF AloneApart, OneEngineEach, OneEngineUnlessAsked, Finished, _disposed
<1> QED
  BY <1>3, <1>4, <1>5, <1>6, <1>7, <1>8, <1>9 DEF HandlesInv, ReachesItsEngine, NoneMissed

LEMMA OpenFailsStep ==
  ASSUME HandlesInv, on_open_fails
  PROVE  HandlesInv'
<1>1. TypeOK /\ missed = {} /\ strays = {}
  BY DEF HandlesInv, NoneMissed, ReachesItsEngine
<1>2. /\ channel # <<>> /\ Head(channel).method = "open"
      /\ engines' = engines /\ missed' = {} /\ strays' = {}
      /\ nextHandle' \in Nat /\ nextHandle' >= nextHandle
  BY <1>1 DEF on_open_fails, Handling, TypeOK
<1> PICK failure \in Failures : Answer(failure, -1)
  BY DEF on_open_fails
<1> failure \in Answers /\ -1 \in Int
  BY DEF Answers
<1>3. PICK a \in Reply : Answered(a) /\ a.answer = failure /\ a.handle = -1
  BY <1>1, <1>2, AnswerAnswers
<1>4. Head(channel) = channel[1]
  BY <1>1, <1>2, Elements, TailAt
<1>5. a.method = "open"
  BY <1>2, <1>3, <1>4 DEF Answered
<1>6. a.answer # "ok"
  BY <1>3 DEF Failures
<1> QED BY <1>2, <1>3, <1>5, <1>6, TableKept

LEMMA OnUseStep ==
  ASSUME HandlesInv, on_use
  PROVE  HandlesInv'
<1> DEFINE c == Head(channel)
<1>1. TypeOK /\ missed = {} /\ strays = {}
  BY DEF HandlesInv, NoneMissed, ReachesItsEngine
<1>2. channel # <<>> /\ c.method = "use" /\ engines' = engines /\ nextHandle' = nextHandle
  BY DEF on_use, Handling
<1>3. c = channel[1] /\ 1 \in DOMAIN channel
  BY <1>1, <1>2, Elements, TailAt
<1>4. CallOK(1)
  BY <1>3 DEF HandlesInv
<1>5. c.handle \in DOMAIN engines /\ engines[c.handle] = c.wrapper
  BY <1>2, <1>3, <1>4 DEF CallOK, Holds
<1>6. PICK answer \in {"ok"} \cup Failures : Answer(answer, -1)
  BY <1>5 DEF on_use, Failures
<1>7. missed' = {} /\ strays' = {}
  BY <1>1, <1>5 DEF on_use
<1>8. PICK a \in Reply : Answered(a) /\ a.answer = answer /\ a.handle = -1
  BY <1>1, <1>2, <1>6, AnswerAnswers DEF Answers
<1>9. a.method = "use"
  BY <1>2, <1>3, <1>8 DEF Answered
<1>10. nextHandle' \in Nat /\ nextHandle' >= nextHandle
  BY <1>1, <1>2 DEF TypeOK
<1> QED BY <1>2, <1>7, <1>8, <1>9, <1>10, TableKept

\* dispose drops the handle, which nobody else refers to any more.
LEMMA OnDisposeStep ==
  ASSUME HandlesInv, on_dispose
  PROVE  HandlesInv'
<1> DEFINE R == Len(replies)
           L == Len(channel)
           c == channel[1]
           g == c.handle
<1>1. /\ TypeOK /\ \A v \in Wrappers : HandleOK(v)
      /\ \A k \in DOMAIN replies : AnswerOK(k)
      /\ \A k \in DOMAIN channel : CallOK(k)
      /\ NoneLeaks /\ AloneApart /\ OneEngineEach /\ OneEngineUnlessAsked
  BY DEF HandlesInv
<1>2. /\ channel # <<>> /\ Head(channel).method = "dispose" /\ Answer("ok", -1)
      /\ engines' = Without(Head(channel).handle)
      /\ UNCHANGED <<nextHandle, missed, strays>>
  BY DEF on_dispose, Handling
<1>3. c = Head(channel) /\ 1 \in DOMAIN channel
  BY <1>1, <1>2, Elements, TailAt
<1>4. PICK a \in Reply : Answered(a) /\ a.answer = "ok" /\ a.handle = -1
  BY <1>1, <1>2, AnswerAnswers DEF Answers
<1>5. /\ channel' \in Seq(Call) /\ replies' \in Seq(Reply)
      /\ R \in Nat /\ DOMAIN replies = 1 .. R /\ DOMAIN replies' = 1 .. R + 1
      /\ \A k \in 1 .. R : replies'[k] = replies[k]
      /\ replies'[R + 1] = a
      /\ L \in Nat \ {0} /\ DOMAIN channel = 1 .. L /\ DOMAIN channel' = 1 .. L - 1
      /\ \A k \in 1 .. L - 1 : channel'[k] = channel[k + 1] /\ k + 1 \in 2 .. L
  BY <1>1, <1>4, QueueFacts
<1>6. /\ UNCHANGED <<status, _handle, alone, sent>>
      /\ a.method = "dispose" /\ c.method = "dispose"
  BY <1>2, <1>3, <1>4 DEF Answered
<1>7. /\ DOMAIN engines' = DOMAIN engines \ {g}
      /\ \A h \in DOMAIN engines' : engines'[h] = engines[h]
  BY <1>2, <1>3 DEF Without
<1>8. Holds(g, c.wrapper) /\ status[c.wrapper] = "open" /\ _disposed(c.wrapper)
  BY <1>1, <1>3, <1>6 DEF CallOK
<1>9. ASSUME NEW h, NEW w, Holds(h, w), h # g PROVE Holds(h, w)'
  BY <1>7, <1>9 DEF Holds
<1> HIDE DEF R, L, c, g
<1>10. TypeOK'
  BY <1>1, <1>2, <1>5, <1>6, <1>7 DEF TypeOK, Call, Reply
<1>11. ASSUME NEW v \in Wrappers PROVE HandleOK(v)'
  <2>1. CASE status[v] = "open" /\ ~ _disposed(v)
    <3>1. Holds(_handle[v], v)
      BY <2>1, <1>1 DEF HandleOK
    <3>2. _handle[v] # g
      BY <2>1, <3>1, <1>8 DEF Holds
    <3>3. _handle'[v] = _handle[v]
      BY <1>6
    <3> QED BY <3>1, <3>2, <3>3, <1>9 DEF HandleOK, Holds
  <2>2. CASE ~ (status[v] = "open" /\ ~ _disposed(v))
    BY <2>2, <1>6 DEF HandleOK, _disposed
  <2> QED BY <2>1, <2>2
<1>12. ASSUME NEW k \in DOMAIN replies' PROVE AnswerOK(k)'
  <2>1. CASE k \in 1 .. R
    <3>1. AnswerOK(k) /\ replies'[k] = replies[k]
      BY <2>1, <1>1, <1>5
    <3>2. ASSUME replies[k].method = "open", replies[k].answer = "ok"
          PROVE  Holds(replies[k].handle, replies[k].wrapper)'
      <4>1. Holds(replies[k].handle, replies[k].wrapper) /\ status[replies[k].wrapper] = "opening"
        BY <3>1, <3>2 DEF AnswerOK
      <4>2. replies[k].handle # g
        BY <4>1, <1>8 DEF Holds
      <4> QED BY <4>1, <4>2, <3>1, <1>9 DEF Holds
    <3> QED BY <2>1, <3>2, <1>4, <1>5, AnswersKept
  <2>2. CASE k = R + 1
    BY <2>2, <1>4, <1>6, AnswerNew DEF R
  <2> QED BY <2>1, <2>2, <1>5
<1>13. ASSUME NEW k \in DOMAIN channel' PROVE OpenOK(k)' /\ CallOK(k)' /\ DisposedAhead(k)'
  <2> DEFINE w == channel'[k].wrapper
  <2>1. /\ w \in Wrappers /\ k + 1 \in DOMAIN channel /\ channel'[k] = channel[k + 1]
        /\ OpenOK(k + 1) /\ CallOK(k + 1) /\ DisposedAhead(k + 1)
        /\ channel'[k].method = "open" =>
             /\ status'[w] = "opening"
             /\ \A j \in DOMAIN replies' : replies'[j].method = "open" => replies'[j].wrapper # w
             /\ \A j \in DOMAIN channel' : channel'[j].method = "open" /\ j # k =>
                  channel'[j].wrapper # w
    BY <1>4, OpensAnswered, SMTT(30)
  <2>2. OpenOK(k)'
    BY <2>1, <1>7 DEF OpenOK
  <2>3. \A j \in 1 .. k - 1 : channel'[j] = channel[j + 1] /\ j + 1 \in 1 .. (k + 1) - 1
    BY <1>5
  <2>4. CallOK(k)'
    <3>1. SUFFICES ASSUME channel[k + 1].method # "open" PROVE CallOK(k)'
      BY <2>1 DEF CallOK
    <3>2. 1 \in 1 .. (k + 1) - 1
      BY <1>5
    <3>3. channel[k + 1].handle # g /\ Holds(channel[k + 1].handle, channel[k + 1].wrapper)
      BY <2>1, <3>1, <3>2, <1>6 DEF CallOK, c, g
    <3>4. /\ channel[k + 1].handle \in DOMAIN engines'
          /\ engines'[channel[k + 1].handle] = channel[k + 1].wrapper
      BY <3>3, <1>7 DEF Holds
    <3>5. ASSUME NEW j \in 1 .. k - 1, channel'[j].method = "dispose"
          PROVE  channel'[j].handle # channel[k + 1].handle
      BY <2>1, <2>3, <3>1, <3>5 DEF CallOK
    <3>6. channel[k + 1].method = "dispose" =>
            status[channel[k + 1].wrapper] = "open" /\ _handle[channel[k + 1].wrapper] < 0
      BY <2>1, <3>1, <1>6 DEF CallOK, _disposed
    <3>7. channel'[k] = channel[k + 1] /\ status' = status /\ _handle' = _handle
      BY <2>1, <1>6
    <3> QED BY <3>4, <3>5, <3>6, <3>7 DEF CallOK, Holds, _disposed
  <2>5. DisposedAhead(k)'
    <3>1. SUFFICES ASSUME channel[k + 1].method = "open", channel[k + 1].wrapper \in alone,
                          NEW h \in DOMAIN engines, h # g, engines[h] \in alone
                   PROVE  \E j \in 1 .. k - 1 : channel'[j].method = "dispose" /\ channel'[j].handle = h
      BY <2>1, <1>6, <1>7 DEF DisposedAhead
    <3>2. PICK j \in 1 .. (k + 1) - 1 : channel[j].method = "dispose" /\ channel[j].handle = h
      BY <2>1, <3>1 DEF DisposedAhead
    <3>3. j \in DOMAIN channel
      BY <2>1, <1>5
    <3>4. channel'[j - 1].method = "dispose" /\ channel'[j - 1].handle = h /\ j \in 2 .. L
      BY <3>1, <3>2, <3>3, <1>4, DisposesKept DEF L, c, g
    <3>5. j - 1 \in 1 .. k - 1
      BY <3>4, <1>5
    <3> QED BY <3>4, <3>5
  <2> QED BY <2>2, <2>4, <2>5
<1>14. NoneLeaks'
  <2>1. SUFFICES ASSUME NEW h \in DOMAIN engines, h # g
                 PROVE  \/ \E v \in Wrappers : status[v] = "open" /\ _handle[v] = h
                        \/ \E k \in DOMAIN replies' : replies'[k].method = "open" /\ replies'[k].handle = h
                        \/ \E k \in DOMAIN channel' : channel'[k].method = "dispose" /\ channel'[k].handle = h
    BY <1>6, <1>7 DEF NoneLeaks
  <2>2. ASSUME NEW k \in DOMAIN replies, replies[k].method = "open" /\ replies[k].handle = h
        PROVE  \E j \in DOMAIN replies' : replies'[j].method = "open" /\ replies'[j].handle = h
    <3>1. k \in DOMAIN replies' /\ replies'[k] = replies[k]
      BY <1>5
    <3> QED BY <2>2, <3>1
  <2>3. ASSUME NEW k \in DOMAIN channel, channel[k].method = "dispose" /\ channel[k].handle = h
        PROVE  \E j \in DOMAIN channel' : channel'[j].method = "dispose" /\ channel'[j].handle = h
    BY <2>1, <2>3, <1>4, DisposesKept DEF c, g
  <2> QED BY <2>2, <2>3, <1>1 DEF NoneLeaks
<1>15. (AloneApart /\ OneEngineEach /\ OneEngineUnlessAsked)'
  BY <1>1, <1>6, <1>7 DEF AloneApart, OneEngineEach, OneEngineUnlessAsked, Finished, _disposed
<1>16. (ReachesItsEngine /\ NoneMissed)'
  BY <1>2 DEF HandlesInv, ReachesItsEngine, NoneMissed
<1> QED BY <1>10, <1>11, <1>12, <1>13, <1>14, <1>15, <1>16 DEF HandlesInv

\* open brings a new handle, so none that is referred to changes its meaning.
LEMMA OnOpenStep ==
  ASSUME HandlesInv, on_open
  PROVE  HandlesInv'
<1> DEFINE R == Len(replies)
           L == Len(channel)
           c == channel[1]
           w == c.wrapper
           g == nextHandle
<1>1. /\ TypeOK /\ \A v \in Wrappers : HandleOK(v)
      /\ \A k \in DOMAIN replies : AnswerOK(k)
      /\ \A k \in DOMAIN channel : OpenOK(k) /\ DisposedAhead(k)
      /\ NoneLeaks /\ AloneApart /\ OneEngineEach /\ OneEngineUnlessAsked
  BY DEF HandlesInv
<1>2. /\ channel # <<>> /\ Head(channel).method = "open" /\ Answer("ok", nextHandle)
      /\ engines' = [h \in DOMAIN engines \cup {nextHandle} |->
                       IF h = nextHandle THEN Head(channel).wrapper ELSE engines[h]]
      /\ nextHandle' = nextHandle + 1
      /\ UNCHANGED <<missed, strays>>
  BY DEF on_open, Handling, FreshHandle
<1>3. c = Head(channel) /\ 1 \in DOMAIN channel /\ w \in Wrappers /\ nextHandle \in Int
  BY <1>1, <1>2, Elements, TailAt DEF TypeOK
<1>4. PICK a \in Reply : Answered(a) /\ a.answer = "ok" /\ a.handle = nextHandle
  BY <1>1, <1>2, <1>3, AnswerAnswers DEF Answers
<1>5. /\ channel' \in Seq(Call) /\ replies' \in Seq(Reply)
      /\ R \in Nat /\ DOMAIN replies = 1 .. R /\ DOMAIN replies' = 1 .. R + 1
      /\ \A k \in 1 .. R : replies'[k] = replies[k]
      /\ replies'[R + 1] = a
      /\ L \in Nat \ {0} /\ DOMAIN channel = 1 .. L /\ DOMAIN channel' = 1 .. L - 1
      /\ \A k \in 1 .. L - 1 : channel'[k] = channel[k + 1] /\ k + 1 \in 2 .. L
  BY <1>1, <1>4, QueueFacts
<1>6. /\ UNCHANGED <<status, _handle, alone, sent>>
      /\ c.method = "open" /\ a.method = "open" /\ a.wrapper = w
  BY <1>2, <1>3, <1>4 DEF Answered
<1>7. /\ DOMAIN engines' = DOMAIN engines \cup {g} /\ g \notin DOMAIN engines
      /\ engines'[g] = w /\ \A h \in DOMAIN engines : engines'[h] = engines[h]
  BY <1>1, <1>2, <1>3 DEF TypeOK
<1>8. /\ status[w] = "opening" /\ \A h \in DOMAIN engines : engines[h] # w
      /\ w \in alone => \A h \in DOMAIN engines : engines[h] \notin alone
  BY <1>1, <1>3, <1>6 DEF OpenOK, DisposedAhead
<1> HIDE DEF R, L, c, g, w
<1>9. TypeOK'
  <2>1. g \in Nat /\ g + 1 \in Nat /\ nextHandle' = g + 1
    BY <1>1, <1>2 DEF TypeOK, g
  <2>2. DOMAIN engines' \subseteq 0 .. nextHandle' - 1
    BY <2>1, <1>1, <1>7 DEF TypeOK, g
  <2>3. \A h \in DOMAIN engines' : engines'[h] \in Wrappers
    BY <1>1, <1>3, <1>7 DEF TypeOK
  <2> QED BY <2>1, <2>2, <2>3, <1>1, <1>5, <1>6 DEF TypeOK, Call, Reply
<1>10. ASSUME NEW v \in Wrappers PROVE HandleOK(v)'
  <2>1. HandleOK(v)
    BY <1>1
  <2> QED BY <2>1, <1>6, <1>7 DEF HandleOK, Holds, _disposed
<1>11. ASSUME NEW k \in DOMAIN replies' PROVE AnswerOK(k)'
  <2>1. CASE k \in 1 .. R
    <3>1. AnswerOK(k) /\ replies'[k] = replies[k]
      BY <2>1, <1>1, <1>5
    <3>2. replies[k].method = "open" /\ replies[k].answer = "ok"
            => Holds(replies[k].handle, replies[k].wrapper)'
      BY <3>1, <1>7 DEF AnswerOK, Holds
    <3> QED BY <2>1, <3>2, <1>4, <1>5, AnswersKept
  <2>2. CASE k = R + 1
    <3>1. Holds(a.handle, a.wrapper)'
      BY <1>4, <1>6, <1>7 DEF Holds, g
    <3> QED BY <2>2, <3>1, <1>4, <1>6, AnswerNew DEF R
  <2> QED BY <2>1, <2>2, <1>5
<1>12. ASSUME NEW k \in DOMAIN channel' PROVE OpenOK(k)' /\ CallOK(k)' /\ DisposedAhead(k)'
  <2> DEFINE v == channel'[k].wrapper
  <2>1. /\ v \in Wrappers /\ k + 1 \in DOMAIN channel /\ channel'[k] = channel[k + 1]
        /\ OpenOK(k + 1) /\ CallOK(k + 1) /\ DisposedAhead(k + 1)
        /\ channel'[k].method = "open" =>
             /\ status'[v] = "opening" /\ w # v
             /\ \A j \in DOMAIN replies' : replies'[j].method = "open" => replies'[j].wrapper # v
             /\ \A j \in DOMAIN channel' : channel'[j].method = "open" /\ j # k =>
                  channel'[j].wrapper # v
    BY <1>4, <1>6, OpensAnswered, SMTT(30)
  <2>2. OpenOK(k)'
    BY <2>1, <1>7 DEF OpenOK
  <2>3. \A j \in 1 .. k - 1 : channel'[j] = channel[j + 1] /\ j + 1 \in 1 .. (k + 1) - 1
    BY <1>5
  <2>4. CallOK(k)'
    <3>1. SUFFICES ASSUME channel[k + 1].method # "open" PROVE CallOK(k)'
      BY <2>1 DEF CallOK
    <3>2. /\ channel[k + 1].handle \in DOMAIN engines'
          /\ engines'[channel[k + 1].handle] = channel[k + 1].wrapper
      BY <2>1, <3>1, <1>7 DEF CallOK, Holds
    <3>3. ASSUME NEW j \in 1 .. k - 1, channel'[j].method = "dispose"
          PROVE  channel'[j].handle # channel[k + 1].handle
      BY <2>1, <2>3, <3>1, <3>3 DEF CallOK
    <3>4. channel[k + 1].method = "dispose" =>
            status[channel[k + 1].wrapper] = "open" /\ _handle[channel[k + 1].wrapper] < 0
      BY <2>1, <3>1 DEF CallOK, _disposed
    <3>5. channel'[k] = channel[k + 1] /\ status' = status /\ _handle' = _handle
      BY <2>1, <1>6
    <3> QED BY <3>2, <3>3, <3>4, <3>5 DEF CallOK, Holds, _disposed
  <2>5. DisposedAhead(k)'
    <3>1. SUFFICES ASSUME channel[k + 1].method = "open", channel[k + 1].wrapper \in alone,
                          NEW h \in DOMAIN engines', engines'[h] \in alone
                   PROVE  \E j \in 1 .. k - 1 : channel'[j].method = "dispose" /\ channel'[j].handle = h
      BY <2>1, <1>6 DEF DisposedAhead
    <3>2. h # g
      <4>1. status[v] = "opening" /\ v # w /\ v \in alone
        BY <2>1, <3>1, <1>6
      <4>2. ~ Finished(v) /\ ~ Finished(w)
        BY <4>1, <1>8 DEF Finished
      <4>3. w \notin alone
        BY <4>1, <4>2, <1>1 DEF AloneApart
      <4> QED BY <4>3, <3>1, <1>7
    <3>3. h \in DOMAIN engines /\ engines[h] \in alone
      BY <3>1, <3>2, <1>7
    <3>4. PICK j \in 1 .. (k + 1) - 1 : channel[j].method = "dispose" /\ channel[j].handle = h
      BY <2>1, <3>1, <3>3 DEF DisposedAhead
    <3>5. j \in DOMAIN channel
      BY <2>1, <1>5
    <3>6. channel'[j - 1].method = "dispose" /\ channel'[j - 1].handle = h /\ j \in 2 .. L
      BY <3>4, <3>5, <1>4, <1>6, DisposesKept DEF L, c
    <3>7. j - 1 \in 1 .. k - 1
      BY <3>6, <1>5
    <3> QED BY <3>6, <3>7
  <2> QED BY <2>2, <2>4, <2>5
<1>13. NoneLeaks'
  <2>1. SUFFICES ASSUME NEW h \in DOMAIN engines'
                 PROVE  \/ \E v \in Wrappers : status[v] = "open" /\ _handle[v] = h
                        \/ \E k \in DOMAIN replies' : replies'[k].method = "open" /\ replies'[k].handle = h
                        \/ \E k \in DOMAIN channel' : channel'[k].method = "dispose" /\ channel'[k].handle = h
    BY <1>6 DEF NoneLeaks
  <2>2. ASSUME NEW k \in DOMAIN replies, replies[k].method = "open" /\ replies[k].handle = h
        PROVE  \E j \in DOMAIN replies' : replies'[j].method = "open" /\ replies'[j].handle = h
    <3>1. k \in DOMAIN replies' /\ replies'[k] = replies[k]
      BY <1>5
    <3> QED BY <2>2, <3>1
  <2>3. ASSUME NEW k \in DOMAIN channel, channel[k].method = "dispose" /\ channel[k].handle = h
        PROVE  \E j \in DOMAIN channel' : channel'[j].method = "dispose" /\ channel'[j].handle = h
    BY <2>3, <1>4, <1>6, DisposesKept DEF c
  <2>4. CASE h = g
    <3>1. R + 1 \in DOMAIN replies' /\ replies'[R + 1].method = "open" /\ replies'[R + 1].handle = h
      BY <2>4, <1>4, <1>5, <1>6 DEF g
    <3> QED BY <3>1
  <2>5. CASE h \in DOMAIN engines
    BY <2>2, <2>3, <2>5, <1>1 DEF NoneLeaks
  <2> QED BY <2>4, <2>5, <1>7
<1>14. AloneApart'
  BY <1>1, <1>6 DEF AloneApart, Finished, _disposed
<1>15. OneEngineEach'
  BY <1>1, <1>7, <1>8 DEF OneEngineEach
<1>16. OneEngineUnlessAsked'
  <2>1. SUFFICES ASSUME NEW f \in DOMAIN engines', NEW h \in DOMAIN engines', f # h,
                        engines'[f] \in alone, engines'[h] \in alone
                 PROVE  FALSE
    BY <1>6 DEF OneEngineUnlessAsked
  <2>2. CASE f = g
    BY <2>1, <2>2, <1>7, <1>8
  <2>3. CASE h = g
    BY <2>1, <2>3, <1>7, <1>8
  <2>4. CASE f \in DOMAIN engines /\ h \in DOMAIN engines
    <3>1. {engines[f], engines[h]} \subseteq alone
      BY <2>1, <2>4, <1>7
    <3> QED BY <2>1, <2>4, <3>1, <1>1 DEF OneEngineUnlessAsked
  <2> QED BY <2>2, <2>3, <2>4, <1>7
<1>17. (ReachesItsEngine /\ NoneMissed)'
  BY <1>2 DEF HandlesInv, ReachesItsEngine, NoneMissed
<1> QED
  BY <1>9, <1>10, <1>11, <1>12, <1>13, <1>14, <1>15, <1>16, <1>17 DEF HandlesInv

LEMMA DetachStep ==
  ASSUME HandlesInv, onDetachedFromEngine
  PROVE  HandlesInv'
<1>1. TypeOK /\ AloneApart
  BY DEF HandlesInv
<1>2. /\ DOMAIN engines' = {} /\ channel' = <<>> /\ replies' = <<>>
      /\ status' = [w \in Wrappers |-> "failed"] /\ _handle' = [w \in Wrappers |-> -1]
      /\ UNCHANGED <<nextHandle, missed, strays, sent, alone>>
  BY DEF onDetachedFromEngine
<1>3. DOMAIN channel' = {} /\ DOMAIN replies' = {}
  BY <1>2
<1>4. TypeOK'
  BY <1>1, <1>2 DEF TypeOK
<1>5. \A w \in Wrappers : HandleOK(w)'
  BY <1>2 DEF HandleOK
<1>6. AloneApart'
  BY <1>1, <1>2 DEF AloneApart, Finished
<1>7. (NoneLeaks /\ OneEngineEach /\ OneEngineUnlessAsked)'
  BY <1>2 DEF NoneLeaks, OneEngineEach, OneEngineUnlessAsked
<1>8. (ReachesItsEngine /\ NoneMissed)'
  BY <1>2 DEF HandlesInv, ReachesItsEngine, NoneMissed
<1> QED BY <1>3, <1>4, <1>5, <1>6, <1>7, <1>8 DEF HandlesInv

-----------------------------------------------------------------------------
\* The three facts that make HandlesInv an invariant.

LEMMA HandlesInit == Init => HandlesInv
<1> SUFFICES ASSUME Init PROVE HandlesInv
  OBVIOUS
<1>1. /\ status = [w \in Wrappers |-> "new"] /\ _handle = [w \in Wrappers |-> -1]
      /\ channel = <<>> /\ replies = <<>> /\ engines = <<>> /\ nextHandle = 0 /\ sent = 0
      /\ missed = {} /\ strays = {} /\ alone = {}
  BY DEF Init
<1>2. DOMAIN channel = {} /\ DOMAIN replies = {} /\ DOMAIN engines = {}
  BY <1>1
<1>3. TypeOK
  BY <1>1, <1>2 DEF TypeOK
<1>4. \A w \in Wrappers : HandleOK(w)
  BY <1>1 DEF HandleOK
<1>5. AloneApart /\ NoneLeaks /\ OneEngineEach /\ OneEngineUnlessAsked
  BY <1>1, <1>2 DEF AloneApart, NoneLeaks, OneEngineEach, OneEngineUnlessAsked
<1> QED BY <1>1, <1>2, <1>3, <1>4, <1>5 DEF HandlesInv, ReachesItsEngine, NoneMissed

LEMMA HandlesStutter ==
  ASSUME HandlesInv, UNCHANGED vars
  PROVE  HandlesInv'
<1>1. UNCHANGED <<status, _handle, channel, replies, engines, nextHandle, sent, missed,
                  strays, alone>>
  BY DEF vars
<1> QED
  BY <1>1 DEF HandlesInv, TypeOK, HandleOK, AnswerOK, OpenOK, CallOK, DisposedAhead, Holds,
    OneEngineEach, AloneApart, ReachesItsEngine, NoneMissed, NoneLeaks,
    OneEngineUnlessAsked, Finished, _disposed

LEMMA HandlesNext == HandlesInv /\ [Next]_vars => HandlesInv'
<1> SUFFICES ASSUME HandlesInv, [Next]_vars PROVE HandlesInv'
  OBVIOUS
<1>1. CASE \E w \in Wrappers : open(w) \/ use(w) \/ dispose(w)
  BY <1>1, OpenStep, UseStep, DisposeStep
<1>2. CASE complete
  BY <1>2, CompleteStep
<1>3. CASE Handler
  BY <1>3, OnOpenStep, OpenFailsStep, OnUseStep, OnDisposeStep DEF Handler
<1>4. CASE onDetachedFromEngine
  BY <1>4, DetachStep
<1>5. CASE UNCHANGED vars
  BY <1>5, HandlesStutter
<1> QED BY <1>1, <1>2, <1>3, <1>4, <1>5 DEF Next

\* The queues and the table of handles tell one story of every wrapper, whatever
\* Dart sends and however the platform keeps up (search_engine.dart,
\* UnfydqryPlugin.kt, UnfydqryPlugin.swift).
THEOREM HandlesInvariant == Spec => []HandlesInv
BY HandlesInit, HandlesNext, PTL DEF Spec

\* A call made through a wrapper is carried out by the engine it was opened for.
THEOREM HandlesAreForGood == Spec => []ReachesItsEngine
<1>1. HandlesInv => ReachesItsEngine
  BY DEF HandlesInv
<1> QED BY <1>1, HandlesInvariant, PTL

\* No call finds its engine gone, though Dart does not wait for dispose().
THEOREM CallsFindTheirEngine == Spec => []NoneMissed
<1>1. HandlesInv => NoneMissed
  BY DEF HandlesInv
<1> QED BY <1>1, HandlesInvariant, PTL

\* The platform keeps no engine that Dart cannot reach or has not disposed of.
THEOREM NoEngineLeaks == Spec => []NoneLeaks
<1>1. HandlesInv => NoneLeaks
  BY DEF HandlesInv
<1> QED BY <1>1, HandlesInvariant, PTL

\* Disposing before reopening, without awaiting, keeps one engine on the file.
THEOREM OneEngineAtOnce == Spec => []OneEngineUnlessAsked
<1>1. HandlesInv => OneEngineUnlessAsked
  BY DEF HandlesInv
<1> QED BY <1>1, HandlesInvariant, PTL
=============================================================================
