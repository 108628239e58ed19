---------------------------- MODULE AbilityProofs ----------------------------
(***************************************************************************)
(* Theorems about Ability, for ints of any width, any cap and any inputs.  *)
(* The cache is coherent because the three methods that change the value   *)
(* or the bonus invalidate it and an Ability that is loaded is new.  It is *)
(* exact because arithmetic modulo the number of ints may be done at every *)
(* step or once at the end (lemma WrapSum): the bonus is always that of    *)
(* the sum of the bonuses given, though it overflowed (BonusIsGiven).      *)
(***************************************************************************)
EXTENDS Ability, TLAPS

BonusIsGiven == m_tempBonus = Wrap(given)

CacheIsWrapped == ~m_cacheInvalidated => m_modifierCache = getModifier

(* The inductive invariant. *)
AbilityInv == TypeOK /\ BonusIsGiven /\ CacheIsWrapped

-----------------------------------------------------------------------------
(* Division with a rest, of integers by a positive one. *)
LEMMA Division ==
  ASSUME NEW k \in Nat \ {0}, NEW x \in Int
  PROVE  /\ x % k \in 0..(k - 1)
         /\ x \div k \in Int
         /\ x = k * (x \div k) + (x % k)
OBVIOUS

LEMMA MultipleIsFar ==
  ASSUME NEW k \in Nat \ {0}, NEW d \in Int, d >= 1
  PROVE  k * d >= k
<1>1. k * (d - 1) >= 0
  OBVIOUS
<1>2. k * d = k * (d - 1) + k
  OBVIOUS
<1> QED
  BY <1>1, <1>2

(* The rest is the only one there is. *)
LEMMA RestIsUnique ==
  ASSUME NEW k \in Nat \ {0}, NEW x \in Int, NEW q \in Int, NEW r \in 0..(k - 1),
         x = k * q + r
  PROVE  x % k = r
<1> DEFINE p == x \div k
           s == x % k
<1>1. p \in Int /\ s \in 0..(k - 1) /\ x = k * p + s
  BY Division
<1> HIDE DEF p, s
<1>2. k * (p - q) = r - s /\ k * (q - p) = s - r
  BY <1>1
<1>3. ~(p - q >= 1)
  <2> SUFFICES ASSUME p - q >= 1
               PROVE  FALSE
    OBVIOUS
  <2>1. k * (p - q) >= k
    BY <1>1, MultipleIsFar
  <2> QED
    BY <1>1, <1>2, <2>1
<1>4. ~(q - p >= 1)
  <2> SUFFICES ASSUME q - p >= 1
               PROVE  FALSE
    OBVIOUS
  <2>1. k * (q - p) >= k
    BY <1>1, MultipleIsFar
  <2> QED
    BY <1>1, <1>2, <2>1
<1>5. p = q
  BY <1>1, <1>3, <1>4
<1> QED
  BY <1>1, <1>5 DEF s

-----------------------------------------------------------------------------
(* Arithmetic modulo the number of ints. *)
LEMMA WrapIs ==
  ASSUME NEW n \in Int
  PROVE  Wrap(n) = MinInt + ((n - MinInt) % (MaxInt - MinInt + 1))
BY DEF Wrap

LEMMA WrapType ==
  ASSUME NEW n \in Int
  PROVE  Wrap(n) \in Int32
<1> DEFINE k == MaxInt - MinInt + 1
<1>1. k \in Nat \ {0}
  BY AbilityAssumption
<1>2. (n - MinInt) % k \in 0..(k - 1)
  BY <1>1, Division, AbilityAssumption
<1> QED
  BY <1>2, AbilityAssumption DEF Wrap, Int32

LEMMA WrapSame ==
  ASSUME NEW n \in Int32
  PROVE  Wrap(n) = n
<1> DEFINE k == MaxInt - MinInt + 1
<1>1. k \in Nat \ {0} /\ n - MinInt \in 0..(k - 1) /\ n - MinInt \in Int
  BY AbilityAssumption DEF Int32
<1> HIDE DEF k
<1>2. n - MinInt = k * 0 + (n - MinInt)
  BY <1>1
<1>3. (n - MinInt) % k = n - MinInt
  BY <1>1, <1>2, RestIsUnique
<1> QED
  BY <1>3, AbilityAssumption DEF Wrap, k, Int32

LEMMA WrapSum ==
  ASSUME NEW a \in Int, NEW b \in Int
  PROVE  Wrap(a + Wrap(b)) = Wrap(a + b)
<1> DEFINE k == MaxInt - MinInt + 1
           x == b - MinInt
           y == a + b - MinInt
<1>1. k \in Nat \ {0} /\ x \in Int /\ y \in Int /\ MinInt \in Int
  BY AbilityAssumption
<1>2. Wrap(b) = MinInt + (x % k) /\ Wrap(a + b) = MinInt + (y % k)
  BY <1>1, WrapIs, AbilityAssumption
<1>3. Wrap(a + Wrap(b)) = MinInt + (((a + (MinInt + (x % k))) - MinInt) % k)
  BY <1>1, <1>2, WrapIs, WrapType, AbilityAssumption
<1>4. x = b - MinInt /\ y = a + b - MinInt
  OBVIOUS
<1> HIDE DEF k, x, y
<1>5. /\ x \div k \in Int /\ x % k \in Int /\ x = k * (x \div k) + (x % k)
      /\ y \div k \in Int /\ y % k \in 0..(k - 1) /\ y = k * (y \div k) + (y % k)
  BY <1>1, Division
<1> DEFINE z == (a + (MinInt + (x % k))) - MinInt
           q == (y \div k) - (x \div k)
<1>6. z = y - k * (x \div k) /\ z \in Int
  BY <1>1, <1>4, <1>5
<1>7. k * q = k * (y \div k) - k * (x \div k) /\ q \in Int
  BY <1>1, <1>5
<1>8. k * (y \div k) \in Int /\ k * (x \div k) \in Int
  BY <1>1, <1>5
<1> HIDE DEF z, q
<1>9. z = k * q + (y % k)
  BY <1>1, <1>5, <1>6, <1>7, <1>8
<1>10. z \in Int /\ q \in Int /\ y % k \in 0..(k - 1)
  BY <1>5, <1>6, <1>7
<1>11. z % k = y % k
  BY <1>1, <1>9, <1>10, RestIsUnique
<1> QED
  BY <1>2, <1>3, <1>11 DEF z

LEMMA ModifierType ==
  ASSUME TypeOK
  PROVE  getModifier \in Int32
<1>1. m_abilityValue \div 2 \in Int
  BY AbilityAssumption DEF TypeOK, Int32
<1>2. (m_abilityValue \div 2) - 5 + m_tempBonus \in Int
  BY <1>1, AbilityAssumption DEF TypeOK, Int32
<1> QED
  BY <1>2, WrapType DEF getModifier

(* The script's result, though computed from a wrapped bonus, is the exact *)
(* one if that is an int.                                                  *)
LEMMA ModifierExact ==
  ASSUME TypeOK, BonusIsGiven, ExactModifier \in Int32
  PROVE  getModifier = ExactModifier
<1> DEFINE a == (m_abilityValue \div 2) - 5
<1>1. a \in Int /\ given \in Int
  BY AbilityAssumption DEF TypeOK, Int32
<1>2. getModifier = Wrap(a + Wrap(given)) /\ ExactModifier = a + given
  BY DEF getModifier, BonusIsGiven, ExactModifier
<1> HIDE DEF a
<1> QED
  BY <1>1, <1>2, WrapSum, WrapSame

-----------------------------------------------------------------------------
LEMMA AbilityInvInit ==
  ASSUME Init
  PROVE  AbilityInv
<1>1. 0 \in Int32
  BY AbilityAssumption DEF Int32
<1>2. Wrap(0) = 0
  BY <1>1, WrapSame
<1> QED
  BY <1>1, <1>2, AbilityAssumption
     DEF Init, AbilityInv, TypeOK, BonusIsGiven, CacheIsWrapped

LEMMA AbilityInvStep ==
  ASSUME AbilityInv, [Next]_vars
  PROVE  AbilityInv'
<1> USE AbilityAssumption DEF AbilityInv, TypeOK
<1>1. \A n \in Inputs : n \in Int32 /\ n \in Int
  BY DEF Int32
<1>2. 0 \in Int32 /\ getModifier \in Int32
  BY ModifierType DEF Int32
<1>3. \A n \in Int32 : Wrap(n) = n
  BY WrapSame
<1>4. ASSUME NEW n \in Inputs, Construct(n)
      PROVE  AbilityInv'
  <2>1. Wrap(0) = 0
    BY <1>2, <1>3
  <2> QED
    BY <1>1, <1>2, <1>4, <2>1 DEF Construct, BonusIsGiven, CacheIsWrapped
<1>5. ASSUME NEW n \in Inputs, SetValue(n)
      PROVE  AbilityInv'
  BY <1>1, <1>5 DEF SetValue, Invalidate, BonusIsGiven, CacheIsWrapped
<1>6. ASSUME NEW n \in Inputs, Temp(n)
      PROVE  AbilityInv'
  <2>1. given \in Int /\ n \in Int /\ given + n \in Int
    BY <1>1
  <2>2. m_tempBonus = Wrap(given) /\ Wrap(given) \in Int
    BY DEF BonusIsGiven, Int32
  <2>3. Wrap(n + Wrap(given)) = Wrap(n + given)
    BY <2>1, WrapSum
  <2>4. n + Wrap(given) = m_tempBonus + n /\ n + given = given + n
    BY <2>1, <2>2
  <2>5. Wrap(m_tempBonus + n) = Wrap(given + n)
    BY <2>3, <2>4
  <2>6. Wrap(given + n) \in Int32
    BY <2>1, WrapType
  <2> QED
    BY <1>6, <2>1, <2>5, <2>6 DEF Temp, Invalidate, BonusIsGiven, CacheIsWrapped
<1>7. CASE ResetTemp
  <2>1. Wrap(0) = 0
    BY <1>2, <1>3
  <2> QED
    BY <1>2, <1>7, <2>1 DEF ResetTemp, Invalidate, BonusIsGiven, CacheIsWrapped
<1>8. CASE Modifier
  <2>1. getModifier' = getModifier
    BY <1>8 DEF Modifier, getModifier
  <2>2. Cached \in Int32 /\ Cached = getModifier
    BY <1>2 DEF Cached, CacheIsWrapped
  <2> QED
    BY <1>8, <2>1, <2>2 DEF Modifier, BonusIsGiven, CacheIsWrapped
<1>9. CASE Save
  <2>1. getModifier' = getModifier
    BY <1>9 DEF Save, getModifier
  <2>2. Cached \in Int32 /\ Cached = getModifier
    BY <1>2 DEF Cached, CacheIsWrapped
  <2> QED
    BY <1>9, <2>1, <2>2 DEF Save, BonusIsGiven, CacheIsWrapped
<1>10. ASSUME NEW value \in Inputs, NEW temp \in Inputs, LoadNew(value, temp)
       PROVE  AbilityInv'
  <2>1. Wrap(temp) = temp
    BY <1>1, <1>3
  <2> QED
    BY <1>1, <1>2, <1>10, <2>1 DEF LoadNew, Load, BonusIsGiven, CacheIsWrapped
<1>11. CASE UNCHANGED vars
  BY <1>11 DEF vars, BonusIsGiven, CacheIsWrapped, getModifier
<1> QED
  BY <1>4, <1>5, <1>6, <1>7, <1>8, <1>9, <1>10, <1>11 DEF Next

(* Types, bonus and cache are as AbilityInv says in every behaviour: the    *)
(* bonus is the sum of what was given, modulo the number of ints.           *)
THEOREM AbilityInvariant == Spec => []AbilityInv
<1>1. Init => AbilityInv
  BY AbilityInvInit
<1>2. AbilityInv /\ [Next]_vars => AbilityInv'
  BY AbilityInvStep
<1> QED
  BY <1>1, <1>2, PTL DEF Spec

(* The value, the bonus and the cached modifier stay within an int. *)
THEOREM AbilityTypes == Spec => []TypeOK
<1>1. AbilityInv => TypeOK
  BY DEF AbilityInv
<1> QED
  BY <1>1, AbilityInvariant, PTL

(* A cached modifier that is marked valid, and that Ability::Modifier thus  *)
(* returns, is the exact one whenever that is an int.                       *)
THEOREM ModifierCoherent == Spec => []CacheCoherent
<1>1. AbilityInv => CacheCoherent
  BY ModifierExact DEF AbilityInv, CacheIsWrapped, CacheCoherent
<1> QED
  BY <1>1, AbilityInvariant, PTL

(* What a Save writes as modifier is that of what it writes with it. *)
LEMMA SaveWrites ==
  ASSUME AbilityInv, [Next]_vars, saved' # saved,
         (saved'.value \div 2) - 5 + saved'.temp \in Int32
  PROVE  saved'.modifier = (saved'.value \div 2) - 5 + saved'.temp
<1>1. Save
  BY DEF Next, vars, Construct, SetValue, Temp, ResetTemp, Modifier, LoadNew
<1>2. Cached = getModifier
  BY DEF AbilityInv, CacheIsWrapped, Cached
<1>3. /\ saved'.value = m_abilityValue /\ saved'.temp = m_tempBonus
      /\ saved'.modifier = getModifier
  BY <1>1, <1>2 DEF Save
<1>4. Wrap((m_abilityValue \div 2) - 5 + m_tempBonus) = (m_abilityValue \div 2) - 5 + m_tempBonus
  BY <1>3, WrapSame
<1> QED
  BY <1>3, <1>4 DEF getModifier

(* The modifier in a file is that of the value and the bonus beside it.     *)
THEOREM SaveCoherent == Spec => SavedCoherent
<1>1. AbilityInv /\ [Next]_vars
        => [saved' # saved =>
              LET exact == (saved'.value \div 2) - 5 + saved'.temp IN
              exact \in Int32 => saved'.modifier = exact]_vars
  BY SaveWrites
<1> QED
  BY <1>1, AbilityInvariant, PTL DEF Spec, SavedCoherent
=============================================================================
