------------------------------ MODULE CommitLast ------------------------------
(***************************************************************************)
(* What the object store's commit protocol promises its readers, without   *)
(* transactions over several objects: a marker names a set of contents,    *)
(* appears when all of them are in the store, and never changes.  The raw  *)
(* archive and the publication of deliveries are shown to implement it.    *)
(***************************************************************************)
CONSTANTS Markers,    \* archive ids, or artifact ids
          Contents,   \* what objects may hold
          NoSet       \* the value of a marker that is not there

VARIABLES held,       \* the contents that are under their own key, intact
          named       \* [Markers -> SUBSET Contents \cup {NoSet}]

commitVars == <<held, named>>

CommitInit == held = {} /\ named = [m \in Markers |-> NoSet]

Put ==
    /\ UNCHANGED named /\ held' # held
    /\ \E c \in Contents : held' = held \cup {c}

\* An operator removes an object that some marker may name.
Remove == UNCHANGED named /\ \E c \in held : held' = held \ {c}

Commit ==
    /\ UNCHANGED held
    /\ \E m \in Markers :
          /\ named[m] = NoSet /\ named'[m] # NoSet /\ named'[m] \subseteq held
          /\ named' = [named EXCEPT ![m] = named'[m]]

CommitNext == Put \/ Remove \/ Commit

CommitSpec == CommitInit /\ [][CommitNext]_commitVars
=============================================================================
