-------------------------- MODULE MCCompatibility --------------------------
(***************************************************************************)
(* Compatibility for TLC: real words with the bits that FNV-1a gives them, *)
(* among them the first and last bit of a half and two words that collide. *)
(***************************************************************************)
EXTENDS Compatibility, TLC

Bits64 ==
  "music" :> 20 @@ "hiking" :> 53 @@ "fishing" :> 53 @@ "rock" :> 52
    @@ "film" :> 27 @@ "cats" :> 28 @@ "piano" :> 30 @@ "history" :> 31
    @@ "poetry" :> 32 @@ "coffee" :> 33 @@ "tennis" :> 34 @@ "fashion" :> 63

\* "tv" has no word of three letters; "all" is one long entry.
InterestWordsOf ==
  "music" :> {"music"} @@ "rock music" :> {"rock", "music"} @@ "tv" :> {}
    @@ "hiking" :> {"hiking"} @@ "fishing" :> {"fishing"}
    @@ "all" :> {"film", "cats", "piano", "history", "poetry", "coffee",
                 "tennis", "fashion", "rock"}

AllWords == DOMAIN Bits64
AllInterests == DOMAIN InterestWordsOf

\* No interest or one.
ShortLists == UNION {[1..n -> AllInterests] : n \in 0..1}

\* Three interests: one more than the fallback compares here.
LongLists == {<<"hiking", "all", "tv">>, <<"tv", "music", "all">>}

Mine ==
  {[age |-> 16, gender |-> {"female"}, interests |-> l, bio |-> {}] : l \in ShortLists}
    \cup
  {[age |-> 30, gender |-> {"female"}, interests |-> l, bio |-> {"film", "history"}]
     : l \in [1..2 -> AllInterests] \cup LongLists}

Peers ==
  {[age |-> 18, sex |-> "male", interests |-> l, bio |-> {}] : l \in ShortLists}
    \cup
  {[age |-> 30, sex |-> "female", interests |-> l, bio |-> {"film", "history"}]
     : l \in ShortLists \cup LongLists}

\* Both sides of the limits and of the cutoff, and one above the range.
Signals == {-84, -83, -45, -30}
=============================================================================
