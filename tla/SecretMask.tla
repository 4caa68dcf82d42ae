----------------------------- MODULE SecretMask -----------------------------
(***************************************************************************)
(* The Masker, through which every line a step prints goes before it       *)
(* leaves the agent.  A value or a line is a sequence of characters.       *)
(***************************************************************************)
EXTENDS Naturals, Sequences, SequencesExt, FiniteSets

CONSTANT MinLen   \* values below this length are left alone, 4 in the code

Stars == <<"*", "*", "*">>

\* Mutant of Add: values are kept in the order they came.
AddLast(values, v) ==
  IF Len(v) < MinLen \/ v \in Range(values) THEN values ELSE Append(values, v)

\* A new value goes where the stable sort puts it: behind those as long.
Add(values, v) ==
  IF Len(v) < MinLen \/ v \in Range(values) THEN values
  ELSE InsertAt(values, 1 + Cardinality({k \in DOMAIN values :
                                           Len(values[k]) >= Len(v)}), v)

AddAll(values, new) ==
  LET added[k \in 0..Len(new)] ==
        IF k = 0 THEN values ELSE Add(added[k - 1], new[k])
  IN added[Len(new)]

\* str::replace: from left to right, without overlaps.
Replaced(line, v) ==
  LET Starts(i) == SubSeq(line, i, i + Len(v) - 1) = v
      from[i \in 1..(Len(line) + Len(v))] ==
        IF i > Len(line) THEN <<>>
        ELSE IF i + Len(v) - 1 <= Len(line) /\ Starts(i)
             THEN Stars \o from[i + Len(v)]
             ELSE <<line[i]>> \o from[i + 1]
  IN from[1]

\* One value after the other, in the order they are kept.
Mask(values, line) ==
  LET masked[k \in 0..Len(values)] ==
        IF k = 0 THEN line ELSE Replaced(masked[k - 1], values[k])
  IN masked[Len(values)]

Shows(line, v) ==
  \E i \in 1..(Len(line) + 1 - Len(v)) : SubSeq(line, i, i + Len(v) - 1) = v
=============================================================================
