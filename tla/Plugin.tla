------------------------------- MODULE Plugin -------------------------------
(***************************************************************************)
(* The Flutter plugin (flutter/): Dart wrappers forward calls over a       *)
(* method channel to a handler on the platform's main thread (Kotlin or    *)
(* Swift), which keeps the engines in a table under integer handles.       *)
(* Channel and replies are FIFO; a handler runs to its end, the engine's   *)
(* call included, before the next one starts.  Dart does not wait: a       *)
(* wrapper may be used or disposed of while its calls are on the way.      *)
(* Every wrapper here is opened on the same index file.                    *)
(***************************************************************************)
EXTENDS Integers, FiniteSets, Sequences

CONSTANTS Wrappers,  \* SearchEngine objects in Dart, each opened once
          MaxUses    \* bound on the calls made through them

VARIABLES
  platform,    \* "android" or "ios"
  attached,    \* onDetachedFromEngine has not run
  status,      \* of each wrapper: new, opening, open or failed
  _handle,     \* of each wrapper; -1 once disposed of
  channel,     \* calls on their way to the platform
  replies,     \* their answers on the way back
  awaited,     \* the serial numbers of the calls whose future is not completed
  engines,     \* platform: handle -> engine, which is named by its wrapper
  nextHandle,  \* platform
  sent, uses,  \* calls made, and those bounded by MaxUses
  missed,      \* ghost: calls answered with NO_ENGINE
  strays,      \* ghost: calls that reached another wrapper's engine
  alone        \* ghost: wrappers opened when every other one was disposed of

vars == <<platform, attached, status, _handle, channel, replies, awaited, engines,
          nextHandle, sent, uses, missed, strays, alone>>

dart == <<status, _handle, uses, alone>>
table == <<engines, nextHandle, missed, strays>>

-----------------------------------------------------------------------------
(* Dart: lib/src/search_engine.dart *)

invokeMethod(method, w, handle) ==
  /\ attached
  /\ channel' = Append(channel, [n |-> sent, method |-> method, wrapper |-> w, handle |-> handle])
  /\ awaited' = awaited \cup {sent}
  /\ sent' = sent + 1
  /\ UNCHANGED <<platform, attached, replies, table>>

_disposed(w) == _handle[w] < 0

Finished(w) == status[w] \in {"new", "failed"} \/ (status[w] = "open" /\ _disposed(w))

\* open, openWithOptions and openWithOptionsRebuilding
open(w) ==
  /\ status[w] = "new"
  /\ status' = [status EXCEPT ![w] = "opening"]
  /\ alone' = IF \A v \in Wrappers \ {w} : Finished(v) THEN alone \cup {w} ELSE alone
  /\ invokeMethod("open", w, -1)
  /\ UNCHANGED <<_handle, uses>>

\* index, search and every other call on an engine; _checkAlive throws at once.
use(w) ==
  /\ status[w] = "open" /\ ~ _disposed(w) /\ uses < MaxUses
  /\ uses' = uses + 1
  /\ invokeMethod("use", w, _handle[w])
  /\ UNCHANGED <<status, _handle, alone>>

\* Mutant: the handle is given up when the platform has answered.
dispose_late(w) ==
  /\ status[w] = "open" /\ ~ _disposed(w)
  /\ invokeMethod("dispose", w, _handle[w])
  /\ UNCHANGED <<status, _handle, uses, alone>>

\* Mutant: the handle is given up before it is sent.
dispose_cleared(w) ==
  /\ status[w] = "open" /\ ~ _disposed(w)
  /\ _handle' = [_handle EXCEPT ![w] = -1]
  /\ invokeMethod("dispose", w, _handle'[w])
  /\ UNCHANGED <<status, uses, alone>>

\* Disposing again is a no-op: there is no second message.
dispose(w) ==
  /\ status[w] = "open" /\ ~ _disposed(w)
  /\ _handle' = [_handle EXCEPT ![w] = -1]
  /\ invokeMethod("dispose", w, _handle[w])
  /\ UNCHANGED <<status, uses, alone>>

\* The future of the first answer completes; open makes the wrapper of it.
complete ==
  LET r == Head(replies)
  IN  /\ attached /\ replies # <<>>
      /\ replies' = Tail(replies)
      /\ awaited' = awaited \ {r.n}
      /\ IF r.method = "open"
         THEN /\ status' = [status EXCEPT ![r.wrapper] = IF r.answer = "ok" THEN "open" ELSE "failed"]
              /\ _handle' = [_handle EXCEPT ![r.wrapper] = r.handle]
         ELSE UNCHANGED <<status, _handle>>
      /\ UNCHANGED <<platform, attached, channel, table, sent, uses, alone>>

-----------------------------------------------------------------------------
(* The platform: UnfydqryPlugin.kt and UnfydqryPlugin.swift *)

\* A handler's failures: an argument is missing or of another type, the engine
\* refuses, anything else is thrown (an argument's conversion, a panic).
Failures == {"BAD_ARGS", "SEARCH_ERROR", "PLUGIN_ERROR"}

\* The call at the head of the channel, and its one answer.
Handling(method) == attached /\ channel # <<>> /\ Head(channel).method = method

Answer(answer, handle) ==
  LET c == Head(channel)
  IN  /\ channel' = Tail(channel)
      /\ replies' = Append(replies, [n |-> c.n, method |-> c.method, wrapper |-> c.wrapper,
                                     answer |-> answer, handle |-> handle])
      /\ UNCHANGED <<platform, attached, awaited, sent, dart>>

\* Mutant: numbers the engines by their count.
FreshHandle_by_count == Cardinality(DOMAIN engines)

FreshHandle == nextHandle

on_open ==
  /\ Handling("open")
  /\ engines' = [h \in DOMAIN engines \cup {FreshHandle} |->
                   IF h = FreshHandle THEN Head(channel).wrapper ELSE engines[h]]
  /\ nextHandle' = nextHandle + 1
  /\ Answer("ok", FreshHandle)
  /\ UNCHANGED <<missed, strays>>

\* Mutant: the exception is not caught, and nothing is answered.
on_open_fails_silently ==
  /\ Handling("open")
  /\ channel' = Tail(channel)
  /\ UNCHANGED <<platform, attached, replies, awaited, sent, dart, table>>

\* The arguments are refused, or the constructor throws.  Kotlin has taken the
\* handle when it calls the constructor, Swift takes it afterwards.
on_open_fails ==
  /\ Handling("open")
  /\ \E failure \in Failures :
       /\ Answer(failure, -1)
       /\ \/ failure # "SEARCH_ERROR" /\ UNCHANGED nextHandle
          \/ failure # "BAD_ARGS"
               /\ nextHandle' = IF platform = "android" THEN nextHandle + 1 ELSE nextHandle
  /\ UNCHANGED <<engines, missed, strays>>

\* The arguments are looked at first; then engine() / requireEngine(), and the
\* engine's call, which may throw.
on_use ==
  LET c == Head(channel)
  IN  /\ Handling("use")
      /\ \/ /\ \E failure \in Failures \ {"SEARCH_ERROR"} : Answer(failure, -1)
            /\ UNCHANGED <<missed, strays>>
         \/ IF c.handle \in DOMAIN engines
            THEN /\ \E answer \in {"ok", "SEARCH_ERROR", "PLUGIN_ERROR"} : Answer(answer, -1)
                 /\ strays' = IF engines[c.handle] = c.wrapper THEN strays ELSE strays \cup {c.n}
                 /\ UNCHANGED missed
            ELSE /\ Answer("NO_ENGINE", -1)
                 /\ missed' = missed \cup {c.n}
                 /\ UNCHANGED strays
      /\ UNCHANGED <<engines, nextHandle>>

\* Mutant: closes the engine and leaves it in the table.
Without_kept(handle) == engines

Without(handle) == [h \in DOMAIN engines \ {handle} |-> engines[h]]

on_dispose ==
  /\ Handling("dispose")
  /\ engines' = Without(Head(channel).handle)
  /\ Answer("ok", -1)
  /\ UNCHANGED <<nextHandle, missed, strays>>

\* Mutant: leaves the engines open.
onDetachedFromEngine_kept ==
  /\ attached
  /\ attached' = FALSE
  /\ channel' = <<>> /\ replies' = <<>> /\ awaited' = {}
  /\ status' = [w \in Wrappers |-> "failed"] /\ _handle' = [w \in Wrappers |-> -1]
  /\ UNCHANGED <<platform, sent, uses, alone, engines, nextHandle, missed, strays>>

\* The Flutter engine goes, its isolate with it.  Swift has no such handler: its
\* plugin object goes too, and reference counting closes the engines of the table.
onDetachedFromEngine ==
  /\ attached
  /\ attached' = FALSE
  /\ engines' = <<>>
  /\ channel' = <<>> /\ replies' = <<>> /\ awaited' = {}
  /\ status' = [w \in Wrappers |-> "failed"] /\ _handle' = [w \in Wrappers |-> -1]
  /\ UNCHANGED <<platform, sent, uses, alone, nextHandle, missed, strays>>

-----------------------------------------------------------------------------
Init ==
  /\ platform \in {"android", "ios"} /\ attached = TRUE
  /\ status = [w \in Wrappers |-> "new"] /\ _handle = [w \in Wrappers |-> -1]
  /\ channel = <<>> /\ replies = <<>> /\ awaited = {}
  /\ engines = <<>> /\ nextHandle = 0
  /\ sent = 0 /\ uses = 0 /\ missed = {} /\ strays = {} /\ alone = {}

Handler == on_open \/ on_open_fails \/ on_use \/ on_dispose

Next ==
  \/ \E w \in Wrappers : open(w) \/ use(w) \/ dispose(w)
  \/ complete \/ Handler \/ onDetachedFromEngine

\* Both event loops keep running; an engine's call returns (SearchEngine's
\* CallsReturn).
Spec == Init /\ [][Next]_vars /\ WF_vars(Handler) /\ WF_vars(complete)

-----------------------------------------------------------------------------
(* Properties. *)

\* A handle means one engine for good: a call made through a wrapper is carried
\* out by the engine that wrapper was opened for, however opens, failed opens
\* and disposals are interleaved (nextHandle, engines).
ReachesItsEngine == strays = {}

\* dispose() overtakes nothing and is overtaken by nothing: a call made before
\* it still finds its engine, and no call made after it is sent (_checkAlive).
NoneMissed == missed = {}

\* An engine the platform keeps is one that Dart can still reach: an open
\* wrapper has its handle, or will have it, or has sent the dispose that drops
\* it; none is left once the plugin is detached (onDetachedFromEngine in Kotlin).
NoneLeaks ==
  \A h \in DOMAIN engines :
    \/ \E w \in Wrappers : status[w] = "open" /\ _handle[w] = h
    \/ \E k \in DOMAIN replies : replies[k].method = "open" /\ replies[k].handle = h
    \/ \E k \in DOMAIN channel : channel[k].method = "dispose" /\ channel[k].handle = h

\* A host that reopens an index only after it called dispose() on every earlier
\* wrapper, without awaiting it, never has two engines on the file at once: what
\* SharedFile's properties ask of a host.
OneEngineUnlessAsked ==
  \A g, h \in DOMAIN engines : {engines[g], engines[h]} \subseteq alone => g = h

\* Every call's future completes unless the plugin is detached: each handler
\* answers on each of its paths.
EveryCallAnswered ==
  \A n \in 0 .. 2 * Cardinality(Wrappers) + MaxUses - 1 : n \in awaited ~> n \notin awaited

-----------------------------------------------------------------------------
(* The inductive invariant behind the four safety properties. *)

Methods == {"open", "use", "dispose"}
Answers == {"ok", "NO_ENGINE"} \cup Failures

TypeOK ==
  /\ status \in [Wrappers -> {"new", "opening", "open", "failed"}]
  /\ _handle \in [Wrappers -> Int]
  /\ channel \in Seq([n : Nat, method : Methods, wrapper : Wrappers, handle : Int])
  /\ replies \in Seq([n : Nat, method : Methods, wrapper : Wrappers, answer : Answers,
                      handle : Int])
  /\ nextHandle \in Nat /\ DOMAIN engines \subseteq 0 .. nextHandle - 1
  /\ \A h \in DOMAIN engines : engines[h] \in Wrappers
  /\ sent \in Nat

\* The handle h is in the table, for the engine of w.
Holds(h, w) == h \in DOMAIN engines /\ engines[h] = w

\* A live wrapper's handle is its engine's.
HandleOK(w) == status[w] = "open" /\ ~ _disposed(w) => Holds(_handle[w], w)

\* A wrapper is opened by one answer, with the handle of an engine of its own or
\* none.
AnswerOK(k) ==
  LET r == replies[k]
  IN  r.method = "open" =>
        /\ status[r.wrapper] = "opening"
        /\ IF r.answer = "ok" THEN Holds(r.handle, r.wrapper) ELSE r.handle = -1
        /\ \A j \in DOMAIN replies :
             replies[j].method = "open" /\ j # k => replies[j].wrapper # r.wrapper

\* A wrapper whose open is on its way has no engine yet and no answer.
OpenOK(k) ==
  LET w == channel[k].wrapper
  IN  channel[k].method = "open" =>
        /\ status[w] = "opening"
        /\ \A h \in DOMAIN engines : engines[h] # w
        /\ \A j \in DOMAIN replies : replies[j].method = "open" => replies[j].wrapper # w
        /\ \A j \in DOMAIN channel :
             channel[j].method = "open" /\ j # k => channel[j].wrapper # w

\* A call on an engine carries a handle of its wrapper's, and follows no dispose
\* of that handle; whoever has sent a dispose has given its handle up.
CallOK(k) ==
  LET c == channel[k]
  IN  c.method # "open" =>
        /\ Holds(c.handle, c.wrapper)
        /\ \A j \in 1 .. k - 1 : channel[j].method = "dispose" => channel[j].handle # c.handle
        /\ c.method = "dispose" => status[c.wrapper] = "open" /\ _disposed(c.wrapper)

OneEngineEach == \A g, h \in DOMAIN engines : engines[g] = engines[h] => g = h

\* Of two wrappers opened alone, one was finished when the other was opened ...
AloneApart ==
  /\ \A w \in alone : w \in Wrappers /\ status[w] # "new"
  /\ \A v, w \in alone : v # w => Finished(v) \/ Finished(w)

\* ... and its dispose, if its engine is still there, is ahead of that open.
DisposedAhead(k) ==
  channel[k].method = "open" /\ channel[k].wrapper \in alone =>
    \A h \in DOMAIN engines : engines[h] \in alone =>
      \E j \in 1 .. k - 1 : channel[j].method = "dispose" /\ channel[j].handle = h

HandlesInv ==
  /\ TypeOK
  /\ \A w \in Wrappers : HandleOK(w)
  /\ \A k \in DOMAIN replies : AnswerOK(k)
  /\ \A k \in DOMAIN channel : OpenOK(k) /\ CallOK(k) /\ DisposedAhead(k)
  /\ OneEngineEach /\ AloneApart
  /\ ReachesItsEngine /\ NoneMissed /\ NoneLeaks /\ OneEngineUnlessAsked
=============================================================================
