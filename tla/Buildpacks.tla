----------------------------- MODULE Buildpacks -----------------------------
(***************************************************************************)
(* The last step of a staging before its report: the builder's result      *)
(* names buildpacks, and BuildpacksKeyModifier                             *)
(* (recipe/staging_result_modifier.go) replaces the names by the keys the  *)
(* Cloud Controller has given for them.  The result has one name of its    *)
(* own, place 0 here, and a list of names, places 1 to its length, which   *)
(* is replaced in place, one after the other.                              *)
(***************************************************************************)
EXTENDS Naturals, Sequences

CONSTANTS
    Names,              \* names and keys of buildpacks: a key may be a name too
    MaxProvided,        \* bound on the buildpacks of the Cloud Controller
    MaxUsed             \* bound on the buildpacks of the result

ASSUME BuildpacksAssumption == MaxProvided \in Nat /\ MaxUsed \in Nat

Buildpack == [name : Names, key : Names]
Invalid   == <<[name |-> "{very invalid", key |-> "json"]>>

VARIABLES
    provided,           \* the Cloud Controller's buildpacks, in its order
    given,              \* the result of the builder
    result,             \* the same with the names that have been replaced
    modifier,           \* what Modify does next
    place,              \* place of the result that comes next
    pos                 \* position in provided that is looked at

modifierVars == <<provided, given, result, modifier, place, pos>>

ModifierInit ==
    /\ provided = << >>
    /\ given = [p \in {} |-> 0]
    /\ result = given
    /\ modifier = "idle"
    /\ place = 0
    /\ pos = 1

\* Modify is called with a result.
Modify ==
    /\ modifier = "idle"
    /\ modifier' = "parse"
    /\ provided' \in UNION {[1 .. n -> Buildpack] : n \in 0 .. MaxProvided}
                        \cup {Invalid}
    /\ given' \in UNION {[0 .. n -> Names] : n \in 0 .. MaxUsed}
    /\ result' = given'
    /\ UNCHANGED <<place, pos>>

getProvidedBuildpacks ==
    /\ modifier = "parse"
    /\ modifier' = IF provided = Invalid THEN "failed" ELSE "modify"
    /\ UNCHANGED <<provided, given, result, place, pos>>

\* getBuildpackKey looks for the name of the place, from the start of the list.
Looking == modifier = "modify" /\ place \in DOMAIN result

NextBuildpack ==
    /\ Looking
    /\ pos <= Len(provided)
    /\ provided[pos].name # result[place]
    /\ pos' = pos + 1
    /\ UNCHANGED <<provided, given, result, modifier, place>>

\* Mutant: the search goes on with the key it has just found.
ReplaceAndGoOn ==
    /\ Looking
    /\ pos <= Len(provided)
    /\ provided[pos].name = result[place]
    /\ result' = [result EXCEPT ![place] = provided[pos].key]
    /\ pos' = pos + 1
    /\ place' = IF pos = Len(provided) THEN place + 1 ELSE place
    /\ UNCHANGED <<provided, given, modifier>>

\* modifyBuildpackKey and modifyBuildpackMetadata.
Replace ==
    /\ Looking
    /\ pos <= Len(provided)
    /\ provided[pos].name = result[place]
    /\ result' = [result EXCEPT ![place] = provided[pos].key]
    /\ place' = place + 1
    /\ pos' = 1
    /\ UNCHANGED <<provided, given, modifier>>

\* Mutant: an unknown buildpack keeps its name.
NotFoundKept ==
    /\ Looking
    /\ pos > Len(provided)
    /\ place' = place + 1
    /\ pos' = 1
    /\ UNCHANGED <<provided, given, result, modifier>>

NotFound ==
    /\ Looking
    /\ pos > Len(provided)
    /\ modifier' = "failed"
    /\ UNCHANGED <<provided, given, result, place, pos>>

ModifyReturns ==
    /\ modifier = "modify"
    /\ place \notin DOMAIN result
    /\ modifier' = "done"
    /\ UNCHANGED <<provided, given, result, place, pos>>

ModifierNext ==
    \/ getProvidedBuildpacks \/ NextBuildpack \/ Replace \/ NotFound
    \/ ModifyReturns
-----------------------------------------------------------------------------
\* The key is that of the Cloud Controller's first buildpack of the name.
IsKeyOf(key, name) ==
    \E b \in 1 .. Len(provided) :
        /\ provided[b] = [name |-> name, key |-> key]
        /\ \A c \in 1 .. b - 1 : provided[c].name # name

Known(name) == \E b \in 1 .. Len(provided) : provided[b].name = name

(***************************************************************************)
(* Every name of a result that Modify returns has been replaced exactly    *)
(* once, by the key of the first buildpack of that name, although names    *)
(* are looked up in a list that is changed on the way and a key may be the *)
(* name of another buildpack (modifyBuildpacks in                          *)
(* recipe/staging_result_modifier.go).                                     *)
(***************************************************************************)
ReplacedOnce ==
    modifier = "done" =>
        /\ DOMAIN result = DOMAIN given
        /\ \A p \in DOMAIN given : IsKeyOf(result[p], given[p])

(***************************************************************************)
(* Modify fails exactly when the list is no JSON or lacks a name of the    *)
(* result, and no earlier than it must: places behind the one that fails   *)
(* are as the builder left them (modifyBuildpackKey, modifyBuildpacks).    *)
(***************************************************************************)
FailsWhenUnknown ==
    /\ modifier = "failed" /\ provided # Invalid =>
          /\ ~Known(given[place])
          /\ \A p \in DOMAIN given : p >= place => result[p] = given[p]
    /\ modifier = "done" =>
          provided # Invalid /\ \A p \in DOMAIN given : Known(given[p])
-----------------------------------------------------------------------------
\* The places of a result that have names, once there is one.
Shape ==
    /\ place \in Nat
    /\ pos \in Nat \ {0}
    /\ modifier = "idle" \/ \E n \in 0 .. MaxUsed : given \in [0 .. n -> Names]
    /\ DOMAIN result = DOMAIN given
    /\ provided \in Seq(Buildpack) \/ provided = Invalid

\* Places before the current one have keys, the others what the builder wrote.
PlacesInOrder ==
    \A p \in DOMAIN given :
        IF p < place THEN IsKeyOf(result[p], given[p]) ELSE result[p] = given[p]

\* The buildpacks that were looked at for this place have other names.
LookedAt ==
    place \in DOMAIN given =>
        \A b \in 1 .. Len(provided) : b < pos => provided[b].name # given[place]

\* Where Modify stands says what it has found out.
StageOf ==
    /\ modifier \in {"idle", "parse", "modify", "failed", "done"}
    /\ modifier \in {"idle", "parse"} => place = 0 /\ pos = 1
    /\ modifier \in {"modify", "done"} => provided # Invalid
    /\ modifier = "done" => place \notin DOMAIN given
    /\ modifier = "failed" /\ provided # Invalid =>
          place \in DOMAIN given /\ ~Known(given[place])

(***************************************************************************)
(* The inductive invariant of Modify: it goes through the places in order  *)
(* and through the buildpacks in order for each of them, and never comes   *)
(* back to a place it has replaced (modifyBuildpacks, getBuildpackKey in   *)
(* recipe/staging_result_modifier.go).                                     *)
(***************************************************************************)
ModifierInv == Shape /\ PlacesInOrder /\ LookedAt /\ StageOf
=============================================================================
