-------------------------- MODULE ReplacementPromise --------------------------
(***************************************************************************)
(* What "Replace Library Copy" promises (docs/decisions.md, ADR-052): the  *)
(* old Library file goes to the trash, the Incoming comic takes its place, *)
(* ComicDb.xml and then IncomingDb.xml are written, and the Incoming       *)
(* source is removed last.  Nothing is touched before the promise is       *)
(* durable, every effect is permanent, and the promise is withdrawn only   *)
(* when nothing was done yet to be finished.                               *)
(***************************************************************************)

CONSTANT Order      \* Order[e]: the effects that must precede effect e

Effects == DOMAIN Order

VARIABLES
    promised,       \* a durable journal obliges the program to finish
    effects         \* the effects that reached the disk

pvars == <<promised, effects>>

PromiseTypeOK == promised \in BOOLEAN /\ effects \subseteq Effects

PromiseInit == promised = FALSE /\ effects = {}

\* The journal becomes durable; no effect has happened yet.
Promise == /\ ~promised
           /\ effects = {}
           /\ promised' = TRUE
           /\ UNCHANGED effects

\* One effect reaches the disk, after the effects it depends on.
Apply == \E e \in Effects \ effects :
            /\ promised
            /\ Order[e] \subseteq effects
            /\ effects' = effects \cup {e}
            /\ UNCHANGED promised

\* The journal goes away once every effect is on disk.
Release == /\ promised
           /\ effects = Effects
           /\ promised' = FALSE
           /\ UNCHANGED effects

PromiseNext == Promise \/ Apply \/ Release

PromiseSpec == PromiseInit /\ [][PromiseNext]_pvars

\* A promise is eventually kept in full.
Kept == promised ~> (~promised /\ effects = Effects)

===============================================================================
