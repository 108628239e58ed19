------------------------------- MODULE Ability -------------------------------
(***************************************************************************)
(* One Ability<int> (ability.hpp) with its script: a value, a temporary    *)
(* bonus, and the modifier the script computes from both, which is cached. *)
(*                                                                         *)
(* Every public method that reads or changes state is an action, called in *)
(* any order, with one exception: Load is called by Character::Load only,  *)
(* on an object that was just constructed.                                 *)
(***************************************************************************)
EXTENDS Integers

CONSTANTS MinInt, MaxInt,   \* range of int
          Cap,              \* what checkValueBeforeSet compares with, 100
          Capped,           \* FALSE for strength, whose script checks nothing
          Inputs,           \* arguments methods are called with
          MaxGiven,         \* bound: size of the sum of bonuses given
          Null

Int32 == MinInt..MaxInt

ASSUME AbilityAssumption ==
  /\ MinInt \in Int /\ MaxInt \in Int /\ MinInt <= 0 /\ 0 <= MaxInt
  /\ Cap \in Int /\ Capped \in BOOLEAN
  /\ Inputs \subseteq Int32
  /\ MaxGiven \in Nat
  /\ Null \notin [value : Int32, temp : Int32, modifier : Int32]

VARIABLES m_abilityValue, m_tempBonus, m_modifierCache, m_cacheInvalidated,
          saved,        \* what Save returned last
          given         \* the bonuses given since the last reset, added up
                        \* without overflow

vars == <<m_abilityValue, m_tempBonus, m_modifierCache, m_cacheInvalidated, saved, given>>

Unwrapped(n) == n

Clamped(n) == IF n < MinInt THEN MinInt ELSE IF n > MaxInt THEN MaxInt ELSE n

(* Arithmetic of int as the build does it: modulo the number of ints. *)
Wrap(n) == MinInt + ((n - MinInt) % (MaxInt - MinInt + 1))

(* The script's result: computed in Lua's wider integers, returned as int. *)
getModifier == Wrap((m_abilityValue \div 2) - 5 + m_tempBonus)

checkValueBeforeSet(value) == Capped => value < Cap

(* The constructor asks no script for the value it is given. *)
Construct(default) ==
  /\ m_abilityValue' = default
  /\ m_tempBonus' = 0 /\ m_modifierCache' = 0 /\ m_cacheInvalidated' = TRUE
  /\ given' = 0
  /\ UNCHANGED saved

Forget == m_cacheInvalidated' = m_cacheInvalidated

Invalidate == m_cacheInvalidated' = TRUE

(* The methods that change a value and invalidate the cache. *)
SetValue(value) ==
  /\ checkValueBeforeSet(value)
  /\ m_abilityValue' = value
  /\ Invalidate
  /\ UNCHANGED <<m_tempBonus, m_modifierCache, saved, given>>

Temp(val) ==
  /\ given + val \in -MaxGiven..MaxGiven
  /\ m_tempBonus' = Wrap(m_tempBonus + val)
  /\ Invalidate
  /\ given' = given + val
  /\ UNCHANGED <<m_abilityValue, m_modifierCache, saved>>

ResetTemp ==
  /\ m_tempBonus' = 0
  /\ Invalidate
  /\ given' = 0
  /\ UNCHANGED <<m_abilityValue, m_modifierCache, saved>>

(* The cache is filled by Modifier, and by Save, which leaves it invalid. *)
Cached == IF m_cacheInvalidated THEN getModifier ELSE m_modifierCache

Modifier ==
  /\ m_modifierCache' = Cached
  /\ m_cacheInvalidated' = FALSE
  /\ UNCHANGED <<m_abilityValue, m_tempBonus, saved, given>>

Save ==
  /\ m_modifierCache' = Cached
  /\ saved' = [value |-> m_abilityValue, temp |-> m_tempBonus, modifier |-> Cached]
  /\ UNCHANGED <<m_abilityValue, m_tempBonus, m_cacheInvalidated, given>>

(* Load takes value and temp and checks neither. *)
Load(value, temp) == m_abilityValue' = value /\ m_tempBonus' = temp /\ given' = temp

(* Character::Load makes an Ability and loads it. *)
LoadNew(value, temp) ==
  /\ m_modifierCache' = 0 /\ m_cacheInvalidated' = TRUE
  /\ Load(value, temp)
  /\ UNCHANGED saved

Init ==
  /\ m_abilityValue \in Inputs
  /\ m_tempBonus = 0 /\ m_modifierCache = 0 /\ m_cacheInvalidated = TRUE
  /\ saved = Null /\ given = 0

Next ==
  \/ \E n \in Inputs : Construct(n) \/ SetValue(n) \/ Temp(n)
  \/ ResetTemp \/ Modifier \/ Save
  \/ \E value, temp \in Inputs : LoadNew(value, temp)

Spec == Init /\ [][Next]_vars

-----------------------------------------------------------------------------
(* Values, bonus and modifier are ints, whatever is added to them. *)
TypeOK ==
  /\ m_abilityValue \in Int32 /\ m_tempBonus \in Int32 /\ m_modifierCache \in Int32
  /\ m_cacheInvalidated \in BOOLEAN
  /\ saved \in [value : Int32, temp : Int32, modifier : Int32] \cup {Null}
  /\ given \in Int

(* The modifier by the rules: of the value and all bonuses that were given. *)
ExactModifier == (m_abilityValue \div 2) - 5 + given

(* In any order of calls a valid cache, which Modifier returns unasked, is  *)
(* the modifier by the rules if that is an int, however often the bonus     *)
(* overflowed on the way to it.                                             *)
CacheCoherent ==
  ~m_cacheInvalidated /\ ExactModifier \in Int32 => m_modifierCache = ExactModifier

(* The modifier in a file is that of the value and the bonus beside it,     *)
(* without overflow, if that is an int: who loads the file, and computes    *)
(* it again, gets the same.                                                 *)
SavedCoherent ==
  [][saved' # saved =>
       LET exact == (saved'.value \div 2) - 5 + saved'.temp IN
       exact \in Int32 => saved'.modifier = exact]_vars
=============================================================================
