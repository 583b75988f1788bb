------------------------- MODULE ConnectionProfiles -------------------------
(***************************************************************************)
(* The terminal UI's profile file (connection-profile.ts) and the places a *)
(* token may come from (token.ts), as operators on the contents of the     *)
(* file.  A store maps every profile name to its saved token, or to        *)
(* "absent"; times, URLs and notes are left out.                           *)
(***************************************************************************)
EXTENDS Naturals, Sequences, FiniteSets

CONSTANTS Profiles,      \* names that may be saved
          NoProfile      \* null

ASSUME NoProfileAssumption == NoProfile \notin Profiles

Tokens == {"good", "bad"}           \* what the gateway accepts and refuses
SavedToken == Tokens \cup {"none", "absent"}

Store == [active : Profiles \cup {NoProfile}, saved : [Profiles -> SavedToken]]

Empty == [active |-> NoProfile, saved |-> [n \in Profiles |-> "absent"]]

(* A missing, empty or unreadable file, one that a crash cut short for
   instance, loads as the empty store. *)
Unreadable == Empty

Names(store) == {n \in Profiles : store.saved[n] # "absent"}

(* resolveProfileSelection: the preferred profile, else the active one, else none. *)
ResolveProfileSelection(store, preferred) ==
    CASE preferred \in Names(store) -> preferred
      [] preferred \notin Names(store) /\ store.active \in Names(store) -> store.active
      [] OTHER -> NoProfile

(* upsertProfile: the normalised entry replaces the old one, its token with it. *)
UpsertProfile(store, n) ==
    [active |-> IF store.active = NoProfile THEN n ELSE store.active,
     saved  |-> [store.saved EXCEPT ![n] = "none"]]

(* A removal that forgets to choose another active profile. *)
RemoveKeepsActive(store, n) == [store EXCEPT !.saved[n] = "absent"]

(* removeProfile: another profile becomes active, the file's first one: any. *)
RemoveProfile(store, n) ==
    LET left == Names(store) \ {n}
        next == IF left = {} THEN NoProfile ELSE CHOOSE m \in left : TRUE
    IN  [active |-> IF store.active = n THEN next ELSE store.active,
         saved  |-> [store.saved EXCEPT ![n] = "absent"]]

SetActiveProfile(store, n) ==
    [store EXCEPT !.active = IF n \in Names(store) THEN n ELSE NoProfile]

SetProfileToken(store, n, t) ==
    IF n \in Names(store) THEN [store EXCEPT !.saved[n] = t] ELSE store

(* resolveStoredAuthToken: the files in their order, then the environment;
   an unreadable or blank source is "none". *)
ResolveStoredAuthToken(sources) ==
    LET usable == {i \in DOMAIN sources : sources[i] # "none"}
    IN  IF usable = {} THEN "none"
        ELSE sources[CHOOSE i \in usable : \A j \in usable : i <= j]
=============================================================================
