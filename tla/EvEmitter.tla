------------------------------ MODULE EvEmitter ------------------------------
(***************************************************************************)
(* The event emitter of src/common/ev_emitter.c: a ternary search tree     *)
(* from event names to entries, each with a callback and the flag once.    *)
(* One thread uses an emitter, but a callback may call it again: emissions *)
(* nest.  Entries are the values of the tree; only destroy takes them out. *)
(***************************************************************************)
EXTENDS TSearchTree

CONSTANTS
    Callbacks,
    Depth       \* bound: nested emissions

VARIABLES
    entry,      \* the allocated entries: ev_cb_s
    calls,      \* the entries whose callback ev_emitter_emit_f is in
    want,       \* history: the callback that ev_emitter_on last gave a name
    spent       \* history: names whose once callback has been called

emitterVars == <<entry, calls, want, spent>>

EmitterInit ==
    /\ TreeInit
    /\ entry = << >> /\ calls = <<>>
    /\ want = NoKeys /\ spent = {}

NewEntry(new, e) ==
    entry' = [p \in DOMAIN entry \cup {new} |-> IF p = new THEN e ELSE entry[p]]

(* The entry of a known name is written over; a new name gets one.         *)
(* (Mutant: the flag of a known name is left alone.)                       *)
RegisterKeepsOnce(ev, cb, once) ==
    LET p == tst_search(ev) IN
    IF p # NULL
    THEN entry' = [entry EXCEPT ![p].cb = cb, ![p].once = @ \/ once] /\ UNCHANGED treeVars
    ELSE \E new \in Values \ DOMAIN entry :
            /\ NewEntry(new, [cb |-> cb, once |-> once])
            /\ tst_insert(ev, new)

Register(ev, cb, once) ==
    LET p == tst_search(ev) IN
    IF p # NULL
    THEN entry' = [entry EXCEPT ![p] = [cb |-> cb, once |-> once]] /\ UNCHANGED treeVars
    ELSE \E new \in Values \ DOMAIN entry :
            /\ NewEntry(new, [cb |-> cb, once |-> once])
            /\ tst_insert(ev, new)

ev_emitter_on(ev, cb) ==
    /\ Register(ev, cb, FALSE)
    /\ want' = [want EXCEPT ![ev] = cb]
    /\ spent' = spent \ {ev}
    /\ UNCHANGED calls

ev_emitter_once(ev, cb) ==
    /\ Register(ev, cb, TRUE)
    /\ want' = [want EXCEPT ![ev] = NULL]
    /\ spent' = spent \ {ev}
    /\ UNCHANGED calls

ev_emitter_off(ev) ==
    /\ LET p == tst_search(ev) IN
       entry' = IF p = NULL THEN entry ELSE [entry EXCEPT ![p].cb = NULL]
    /\ want' = [want EXCEPT ![ev] = NULL]
    /\ UNCHANGED <<treeVars, calls, spent>>

(* emit_f calls the callback, and looks at once when that has returned.    *)
ev_emitter_emit_f(ev) ==
    LET p == tst_search(ev) IN
    /\ Len(calls) < Depth
    /\ p # NULL /\ entry[p].cb # NULL
    /\ calls' = Append(calls, p)
    /\ spent' = IF entry[p].once THEN spent \cup {ev} ELSE spent
    /\ UNCHANGED <<treeVars, entry, want>>

(* Mutant: the flag is dropped, not the callback.                          *)
CallbackReturnsOnce ==
    /\ calls # <<>>
    /\ LET p == calls[Len(calls)] IN
       entry' = IF entry[p].once THEN [entry EXCEPT ![p].once = FALSE] ELSE entry
    /\ calls' = SubSeq(calls, 1, Len(calls) - 1)
    /\ UNCHANGED <<treeVars, want, spent>>

CallbackReturns ==
    /\ calls # <<>>
    /\ LET p == calls[Len(calls)] IN
       entry' = IF entry[p].once THEN [entry EXCEPT ![p].cb = NULL] ELSE entry
    /\ calls' = SubSeq(calls, 1, Len(calls) - 1)
    /\ UNCHANGED <<treeVars, want, spent>>

ev_emitter_destroy ==
    /\ calls = <<>>
    /\ tst_destroy
    /\ entry' = << >> /\ want' = NoKeys /\ spent' = {}
    /\ UNCHANGED calls

EmitterNext ==
    \/ \E ev \in Keys, cb \in Callbacks : ev_emitter_on(ev, cb) \/ ev_emitter_once(ev, cb)
    \/ \E ev \in Keys : ev_emitter_off(ev) \/ ev_emitter_emit_f(ev)
    \/ CallbackReturns \/ ev_emitter_destroy

EmitterSpec == EmitterInit /\ [][EmitterNext]_<<treeVars, emitterVars>>

-----------------------------------------------------------------------------
(* Properties                                                              *)

(* A callback that was registered with on stays registered until it is     *)
(* taken off or replaced: an emission of an earlier once callback that is  *)
(* still running does not take it away, nor do registrations of names that *)
(* are prefixes of this one.                                               *)
OnStays ==
    \A ev \in Keys : want[ev] # NULL =>
        /\ tst_search(ev) \in DOMAIN entry
        /\ entry[tst_search(ev)] = [cb |-> want[ev], once |-> FALSE]

(* Outside of emissions a once callback that has been called is gone,      *)
(* however the emissions were nested.  (That includes one which the        *)
(* callback itself has registered for its name again: emit_f drops it when *)
(* the callback returns, before it was ever called.)                       *)
OnceSpent ==
    calls = <<>> => \A ev \in spent : entry[tst_search(ev)].cb = NULL

=============================================================================
