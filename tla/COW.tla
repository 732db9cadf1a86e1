-------------------------------- MODULE COW --------------------------------
(***************************************************************************)
(* COWDictMeta of bitbake/lib/bb/COW.py.  A dictionary is a class, its     *)
(* copy a subclass: a key is looked up along the bases, and a value that   *)
(* can be changed is copied into the class it is taken from, unless it is  *)
(* taken for reading only.                                                 *)
(*                                                                         *)
(* own maps each class and key to the value that the class itself holds,   *)
(* or to Absent; mro maps a class to the set of itself and its bases.      *)
(* Classes are numbered as they are made, so that the nearest of these     *)
(* have the highest numbers.                                               *)
(***************************************************************************)
EXTENDS Naturals

CONSTANT Absent

\* The class in which getattr finds a key; 0 when there is none.
Holder(own, mro, cls, key) ==
    LET holders == {c \in mro[cls] : own[c][key] # Absent}
    IN IF holders = {} THEN 0 ELSE CHOOSE c \in holders : \A b \in holders : b <= c

has_key(own, mro, cls, key) == Holder(own, mro, cls, key) # 0

getreadonly(own, mro, cls, key) == own[Holder(own, mro, cls, key)][key]

\* For a mutant: the value is changed where it was found.
Changed_InPlace(own, mro, cls, key, value) ==
    [own EXCEPT ![IF has_key(own, mro, cls, key)
                  THEN Holder(own, mro, cls, key) ELSE cls][key] = value]

\* What cls[key] returned, or what is put there, becomes value: the class has
\* its own copy by then.
Changed(own, mro, cls, key, value) == [own EXCEPT ![cls][key] = value]
=============================================================================
