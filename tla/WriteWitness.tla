---------------------------- MODULE WriteWitness ----------------------------
(***************************************************************************)
(* What the guest-write tracker promises the code that keeps copies of     *)
(* guest pages (hw/display/reims-vgpu-dirty.h): a copy reported current    *)
(* once a handoff is over holds everything the guest stored before the     *)
(* doorbell of that handoff.  No generation, log, bitmap or lock appears   *)
(* here; DirtyTracker is shown to implement this module.                   *)
(***************************************************************************)
EXTENDS Naturals

CONSTANTS Page,    \* guest pages
          Reader   \* holders of copies

VARIABLES mem,      \* page contents, as a count of guest stores
          copy,     \* the contents a reader's copy was taken from
          current,  \* the pages of it that are reported current
          handed,   \* the contents at the last doorbell
          handing   \* that doorbell's handoff is not over

vars == <<mem, copy, current, handed, handing>>

Untouched == [p \in Page |-> 0]

Init ==
    /\ mem = Untouched
    /\ copy = [r \in Reader |-> Untouched]
    /\ current = [r \in Reader |-> {}]
    /\ handed = Untouched
    /\ handing = FALSE

\* The guest stores to a page, at any time.
Store(p) ==
    /\ mem' = [mem EXCEPT ![p] = @ + 1]
    /\ UNCHANGED <<copy, current, handed, handing>>

\* What a page may have held at some moment since the last doorbell.
Recent == {c \in [Page -> UNION {handed[p]..mem[p] : p \in Page}] :
              \A p \in Page : c[p] \in handed[p]..mem[p]}

\* A reader records a copy it made since the last handoff was over, to be told
\* which of pages P stay current.
Take(r, P) ==
    /\ ~handing
    /\ \E c \in Recent : copy' = [copy EXCEPT ![r] = c]
    /\ current' = [current EXCEPT ![r] = P]
    /\ UNCHANGED <<mem, handed, handing>>

\* A reader gives its copy up.
Drop(r) ==
    /\ ~handing
    /\ copy' = [copy EXCEPT ![r] = Untouched]
    /\ current' = [current EXCEPT ![r] = {}]
    /\ UNCHANGED <<mem, handed, handing>>

\* The device stops: nothing is reported current any more.
Stop ==
    /\ ~handing
    /\ current' = [r \in Reader |-> {}]
    /\ UNCHANGED <<mem, copy, handed, handing>>

\* The guest rings: what it has stored so far is handed over.
Ring ==
    /\ ~handing
    /\ handed' = mem
    /\ handing' = TRUE
    /\ UNCHANGED <<mem, copy, current>>

\* Pages P of a copy are reported written.  A report may be wrong in this
\* direction only.
Report(r, P) ==
    /\ handing
    /\ current' = [current EXCEPT ![r] = @ \ P]
    /\ UNCHANGED <<mem, copy, handed, handing>>

\* The handoff is over only once every copy that misses a store made before the
\* doorbell has been reported.
Settled == \A r \in Reader : \A p \in current[r] : copy[r][p] >= handed[p]

Finish ==
    /\ handing
    /\ Settled
    /\ handing' = FALSE
    /\ UNCHANGED <<mem, copy, current, handed>>

Next == \/ \E p \in Page : Store(p)
        \/ \E r \in Reader, P \in SUBSET Page : Take(r, P) \/ Report(r, P)
        \/ \E r \in Reader : Drop(r)
        \/ Stop \/ Ring \/ Finish

Spec == Init /\ [][Next]_vars
=============================================================================
