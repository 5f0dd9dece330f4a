--------------------------- MODULE MCConfigProxy ----------------------------
(* Two keys, two classes: the first defines both keys, the second only one, *)
(* so that a switch can take an attribute away between hasattr and getattr. *)
EXTENDS ConfigProxy, TLC

CONSTANTS t1, t2, k1, k2, v0, v1, c1, c2

MCClassAttrs ==
    c1 :> (k1 :> v0 @@ k2 :> v0) @@ c2 :> (k1 :> v0 @@ k2 :> Absent)

BothKeys == {k1 :> v1 @@ k2 :> v1}

\* A setattr of one key, and a batch of both.
MCUpdates == BothKeys \cup {k1 :> v1 @@ k2 :> Absent}

\* An empty dict empties the cache; the other keeps one key.
MCDicts == {Empty, k1 :> v1 @@ k2 :> Absent}

\* For SnapshotNotMixed: every batch covers both keys.
EmptyDict == {Empty}

AllOfBothKeys == c1 :> (k1 :> v0 @@ k2 :> v0)
=============================================================================
