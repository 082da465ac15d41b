-------------------------- MODULE TopicMatchProofs --------------------------
(***************************************************************************)
(* Proofs about TopicMatch, for strings of any length: the two pointers    *)
(* stay within their strings, a topic with a wildcard matches nothing, any *)
(* other has the verdict that MQTT prescribes for a valid filter, and the  *)
(* steps to the verdict are bounded.                                       *)
(***************************************************************************)
EXTENDS TopicMatch, FiniteSetTheorems, TLAPS

\* A string of n characters and its terminator.
CString(str, n) ==
    /\ DOMAIN str = 0..n
    /\ str[n] = Nul
    /\ \A i \in 0..n - 1 : str[i] \in Chars

\* The bounded strings of the model are such strings.
LEMMA BoundedStrings ==
    ASSUME NEW m \in Nat, NEW str \in CStrings(m)
    PROVE  \E n \in Nat : CString(str, n)
<1>0. PICK n \in 0..m :
         str \in {[i \in 0..n |-> IF i = n THEN Nul ELSE f[i]] : f \in [0..n - 1 -> Chars]}
  BY DEF CStrings
<1>1. PICK f \in [0..n - 1 -> Chars] : str = [i \in 0..n |-> IF i = n THEN Nul ELSE f[i]]
  BY <1>0
<1>2. n \in Nat
  BY <1>1
<1>3. str[n] = Nul
  BY <1>1
<1>4. ASSUME NEW i \in 0..n - 1 PROVE str[i] \in Chars
  <2>1. i \in 0..n /\ i # n
    BY <1>2, <1>4
  <2>2. str[i] = f[i]
    BY <1>1, <2>1
  <2> QED BY <1>1, <1>4, <2>2
<1>5. DOMAIN str = 0..n
  BY <1>1
<1> QED BY <1>2, <1>3, <1>4, <1>5 DEF CString

\* The terminator is no other character.
LEMMA NulIsNoChar == Nul \notin Chars /\ Nul \notin Wild
BY LettersArePlain DEF Nul, Chars, Wild

\* Only the last offset of a string holds the terminator.
LEMMA NulIsLast ==
    ASSUME NEW n \in Nat, NEW str, CString(str, n), NEW i \in 0..n
    PROVE  str[i] = Nul <=> i = n
BY NulIsNoChar DEF CString

\* Both strings are terminated, the pointers are within them, and a verdict is
\* given only at the end.
Inside(m, n) ==
    /\ CString(sub, m) /\ CString(topic, n)
    /\ s \in 0..m /\ t \in 0..n
    /\ pc \in {"start", "loop", "skip", "rest", "done"}
    /\ pc = "start" => s = 0 /\ t = 0
    /\ match \in BOOLEAN
    /\ pc # "done" => match = FALSE

\* What the topic pointer has passed holds no wildcard, and a match has seen
\* the whole topic, or was answered before the strings were compared.
Plain(n) ==
    /\ \A i \in 0..t - 1 : topic[i] \notin Wild
    /\ match = TRUE => OneDollar \/ \A i \in 0..n : topic[i] \notin Wild

Inv == \E m, n \in Nat : Inside(m, n) /\ Plain(n)

\* A call begins with both pointers at the start.
LEMMA InitInside == Init => Inv
<1> SUFFICES ASSUME Init PROVE Inv
  OBVIOUS
<1>1. PICK m \in Nat : CString(sub, m)
  BY BoundedStrings, LengthsAreNats DEF Init
<1>2. PICK n \in Nat : CString(topic, n)
  BY BoundedStrings, LengthsAreNats DEF Init
<1>3. s = 0 /\ t = 0 /\ pc = "start" /\ match = FALSE
  BY DEF Init
<1>4. Inside(m, n)
  <2>1. s \in 0..m /\ t \in 0..n
    BY <1>3
  <2>2. match \in BOOLEAN
    BY <1>3
  <2> QED BY <1>1, <1>2, <1>3, <2>1, <2>2, Zenon DEF Inside
<1>5. Plain(n)
  BY <1>3 DEF Plain
<1> QED BY <1>4, <1>5 DEF Inv

\* Every step moves a pointer only off a character that is not the terminator,
\* and past a character of the topic only if it is no wildcard.
LEMMA StepInside ==
    ASSUME NEW m \in Nat, NEW n \in Nat, Inside(m, n), Plain(n), Next
    PROVE  Inside(m, n)' /\ Plain(n)'
<1>1. UNCHANGED <<sub, topic>>
  BY DEF Next
<1>2. /\ \A i \in 0..m : sub[i] = Nul <=> i = m
      /\ \A i \in 0..n : topic[i] = Nul <=> i = n
      /\ m \in Nat /\ n \in Nat
  BY NulIsLast DEF Inside
<1>3. Nul \notin Wild /\ "+" \in Wild /\ "#" \in Wild
  BY NulIsNoChar DEF Wild
<1>0. CString(sub, m)' /\ CString(topic, n)'
  BY <1>1 DEF Inside, CString
<1> USE <1>0, <1>1, <1>2, <1>3 DEF Inside, Plain
<1>4. ASSUME t = n, \A i \in 0..t - 1 : topic[i] \notin Wild
      PROVE  \A i \in 0..n : topic[i] \notin Wild
  BY <1>4
<1>5. OneDollar' = OneDollar
  BY DEF OneDollar
<1>6. CASE Early
  BY <1>5, <1>6 DEF Early, Done
<1>7. CASE FilterEnds
  BY <1>4, <1>5, <1>7 DEF FilterEnds, Done
<1>8. CASE WildcardInTopic \/ BadWildcard \/ Hash
  BY <1>5, <1>8 DEF WildcardInTopic, BadWildcard, Hash, InLoop, Done
<1>9. CASE Plus
  BY <1>5, <1>9 DEF Plus, InLoop
<1>10. CASE SkipLevel
  <2>1. CASE pc = "skip" /\ t' = t + 1 /\ topic[t] \notin Wild \cup {Nul} /\ UNCHANGED <<s, pc, match>>
    BY <1>5, <2>1
  <2>2. CASE topic[t] = Nul /\ Done(TRUE) /\ UNCHANGED <<s, t>>
    BY <1>4, <1>5, <2>2 DEF Done
  <2>3. CASE pc = "skip" /\ pc' = "loop" /\ UNCHANGED <<s, t, match>>
    BY <1>5, <2>3
  <2> QED BY <1>10, <2>1, <2>2, <2>3 DEF SkipLevel
<1>11. CASE SkipRest
  <2>1. CASE pc = "rest" /\ t' = t + 1 /\ topic[t] \notin Wild \cup {Nul} /\ UNCHANGED <<s, pc, match>>
    BY <1>5, <2>1
  <2>2. CASE topic[t] = Nul /\ Done(TRUE) /\ UNCHANGED <<s, t>>
    BY <1>4, <1>5, <2>2 DEF Done
  <2> QED BY <1>11, <2>1, <2>2 DEF SkipRest
<1>12. CASE Differ
  BY <1>5, <1>4, <1>12 DEF Differ, InLoop, Done
<1>13. CASE Equal
  <2>1. s \in 0..m - 1 /\ t \in 0..n - 1 /\ topic[t] \notin Wild
    BY <1>13 DEF Equal, InLoop
  <2>2. \A i \in 0..t : topic[i] \notin Wild
    BY <2>1
  <2>3. topic[t + 1] = Nul => \A i \in 0..n : topic[i] \notin Wild
    BY <2>1, <2>2
  <2>4. CASE ParentOfHash
    BY <1>13, <1>5, <2>3, <2>4 DEF Equal, ParentOfHash, Done, InLoop
  <2>5. CASE ~ParentOfHash
    <3>1. s' = s + 1 /\ t' = t + 1 /\ pc = "loop"
      BY <1>13, <2>5 DEF Equal, InLoop
    <3>2. /\ pc' \in {"loop", "done"} /\ match' \in BOOLEAN
          /\ match' = TRUE => pc' = "done" /\ topic[t + 1] = Nul
      BY <1>13, <2>5, <3>1 DEF Equal, Done
    <3> QED BY <1>5, <2>1, <2>2, <2>3, <3>1, <3>2
  <2> QED BY <2>4, <2>5
<1> QED
  BY <1>7, <1>8, <1>9, <1>10, <1>11, <1>12, <1>13, <1>6 DEF Next, Step

\* Inv is inductive.
LEMMA NextInside == Inv /\ [Next]_vars => Inv'
<1> SUFFICES ASSUME Inv, [Next]_vars PROVE Inv'
  OBVIOUS
<1>1. PICK m \in Nat, n \in Nat : Inside(m, n) /\ Plain(n)
  BY DEF Inv
<1>2. CASE Next
  BY <1>1, <1>2, StepInside DEF Inv
<1>3. CASE UNCHANGED vars
  BY <1>1, <1>3 DEF vars, Inv, Inside, Plain, CString, OneDollar
<1> QED BY <1>2, <1>3

\* veides_utils_topic_match never moves a pointer past the terminator of its
\* string, whatever the filter and the topic.
THEOREM PointersInside == Spec => []TypeOK
<1>1. Inv => TypeOK
  BY DEF Inv, Inside, CString, TypeOK
<1> QED
  BY <1>1, InitInside, NextInside, PTL DEF Spec

\* No topic with a wildcard in it is matched by any filter, itself included,
\* where the two strings begin alike with "$" or with other characters.
THEOREM WildcardsUnmatched == Spec => []WildcardMatchesNothing
<1>1. Inv => WildcardMatchesNothing
  BY DEF Inv, Inside, Plain, CString, WildcardMatchesNothing
<1> QED
  BY <1>1, InitInside, NextInside, PTL DEF Spec

-----------------------------------------------------------------------------
(* Levels.  What the definitions of MQTT's levels say of a string at one of  *)
(* its offsets, as the scanner meets it.                                     *)

\* No slash in the string from offset i to before offset j.
NoSlash(str, i, j) == \A p \in i..j - 1 : str[p] # "/"

\* The number of a level is a number, and does not fall towards the end.
LEMMA LevelsRise ==
    ASSUME NEW str, NEW j \in Nat, NEW i \in 0..j
    PROVE  /\ LevelOf(str, i) \in Nat /\ LevelOf(str, j) \in Nat
           /\ LevelOf(str, i) <= LevelOf(str, j)
<1> DEFINE cuts(k) == {p \in 0..k - 1 : str[p] = "/"}
<1>1. cuts(i) \subseteq cuts(j) /\ cuts(j) \subseteq 0..j - 1
  OBVIOUS
<1>2. IsFiniteSet(cuts(j))
  BY <1>1, FS_Interval, FS_Subset, 0 \in Int, j - 1 \in Int
<1>3. /\ IsFiniteSet(cuts(i)) /\ Cardinality(cuts(i)) <= Cardinality(cuts(j))
  BY <1>1, <1>2, FS_Subset
<1> QED BY <1>2, <1>3, FS_CardinalityType DEF LevelOf

\* Two offsets are in one level when no slash is between them ...
LEMMA LevelStays ==
    ASSUME NEW str, NEW j \in Nat, NEW i \in 0..j, NoSlash(str, i, j)
    PROVE  LevelOf(str, i) = LevelOf(str, j)
<1>1. {p \in 0..i - 1 : str[p] = "/"} = {p \in 0..j - 1 : str[p] = "/"}
  BY DEF NoSlash
<1> QED BY <1>1 DEF LevelOf

\* ... and a slash begins the next one.
LEMMA LevelNext ==
    ASSUME NEW str, NEW i \in Nat, str[i] = "/"
    PROVE  LevelOf(str, i + 1) = LevelOf(str, i) + 1
<1> DEFINE cuts(k) == {p \in 0..k - 1 : str[p] = "/"}
<1>1. IsFiniteSet(cuts(i))
  <2>1. cuts(i) \subseteq 0..i - 1
    OBVIOUS
  <2> QED BY <2>1, FS_Interval, FS_Subset, 0 \in Int, i - 1 \in Int
<1>2. cuts(i + 1) = cuts(i) \cup {i} /\ i \notin cuts(i)
  OBVIOUS
<1>3. Cardinality(cuts(i) \cup {i}) = Cardinality(cuts(i)) + 1
  BY <1>1, <1>2, FS_AddElement
<1> QED BY <1>2, <1>3 DEF LevelOf

LEMMA LevelRises ==
    ASSUME NEW str, NEW j \in Nat, NEW i \in 0..j, NEW p \in i..j - 1, str[p] = "/"
    PROVE  LevelOf(str, i) < LevelOf(str, j)
<1>1. LevelOf(str, i) <= LevelOf(str, p) /\ LevelOf(str, p) \in Nat /\ LevelOf(str, i) \in Nat
  BY LevelsRise
<1>2. LevelOf(str, p + 1) <= LevelOf(str, j) /\ LevelOf(str, j) \in Nat
  <2>1. p + 1 \in 0..j
    OBVIOUS
  <2> QED BY <2>1, LevelsRise
<1>3. LevelOf(str, p + 1) = LevelOf(str, p) + 1
  BY LevelNext
<1> QED BY <1>1, <1>2, <1>3

\* The string begins in level 0, and its terminator ends the last one.
LEMMA LevelEnds ==
    ASSUME NEW str, NEW n \in Nat, CString(str, n)
    PROVE  LevelOf(str, 0) = 0 /\ LevelOf(str, n) = LastLevel(str)
<1>1. {j \in 0..0 - 1 : str[j] = "/"} = {}
  OBVIOUS
<1>2. str[n] # "/"
  BY LettersArePlain DEF CString, Nul
<1>3. {j \in 0..n - 1 : str[j] = "/"} = {j \in DOMAIN str : str[j] = "/"}
  BY <1>2 DEF CString
<1> QED BY <1>1, <1>3, FS_EmptySet DEF LevelOf, LastLevel

\* A level starts where it begins.
LEMMA LevelStart ==
    ASSUME NEW str, NEW n \in Nat, CString(str, n), NEW b \in 0..n, Begins(str, b)
    PROVE  Start(str, LevelOf(str, b)) = b
<1>1. ASSUME NEW c \in 0..n, NEW d \in 0..n, c < d, Begins(str, d)
      PROVE  LevelOf(str, c) # LevelOf(str, d)
  <2>1. d - 1 \in c..d - 1 /\ str[d - 1] = "/" /\ c \in 0..d /\ d \in Nat
    BY <1>1 DEF Begins
  <2>2. LevelOf(str, c) < LevelOf(str, d)
    BY <2>1, LevelRises
  <2>3. LevelOf(str, c) \in Nat /\ LevelOf(str, d) \in Nat
    BY <2>1, LevelsRise
  <2> QED BY <2>2, <2>3
<1>2. \A c \in 0..n : Begins(str, c) /\ LevelOf(str, c) = LevelOf(str, b) => c = b
  BY <1>1
<1>3. b \in DOMAIN str /\ DOMAIN str = 0..n
  BY DEF CString
<1> QED BY <1>2, <1>3 DEF Start

\* The text of a level, character by character up to one that is looked at.
LEMMA LevelText ==
    ASSUME NEW str, NEW n \in Nat, CString(str, n), NEW b \in 0..n, NEW i \in b..n,
           Begins(str, b), NoSlash(str, b, i)
    PROVE  /\ i - b \in DOMAIN Level(str, LevelOf(str, i)) <=> str[i] \notin {"/", Nul}
           /\ i - b \in DOMAIN Level(str, LevelOf(str, i)) =>
                Level(str, LevelOf(str, i))[i - b] = str[i]
<1> DEFINE k == LevelOf(str, i)
<1>1. Start(str, k) = b
  BY LevelStart, LevelStays
<1>2. DOMAIN str = 0..n
  BY DEF CString
<1>3. i - b \in {j - b : j \in InLevel(str, k)} <=> i \in InLevel(str, k)
  <2>1. \A j \in InLevel(str, k) : j \in Int
    BY <1>2 DEF InLevel
  <2> QED BY <2>1
<1>4. i \in InLevel(str, k) <=> str[i] \notin {"/", Nul}
  BY <1>2 DEF InLevel
<1>5. Level(str, k) = [d \in {j - b : j \in InLevel(str, k)} |-> str[b + d]]
  BY <1>1 DEF Level
<1>6. b + (i - b) = i
  OBVIOUS
<1> HIDE DEF k
<1> QED BY <1>3, <1>4, <1>5, <1>6 DEF k

\* The text of a whole level, from where it begins to where it ends.
LEMMA WholeLevel ==
    ASSUME NEW str, NEW n \in Nat, CString(str, n), NEW b \in 0..n, NEW e \in b..n,
           Begins(str, b), NoSlash(str, b, e), str[e] \in {"/", Nul}
    PROVE  Level(str, LevelOf(str, e)) = [d \in 0..e - b - 1 |-> str[b + d]]
<1> DEFINE k == LevelOf(str, e)
<1>1. Start(str, k) = b /\ LevelOf(str, b) = k
  BY LevelStart, LevelStays
<1>2. DOMAIN str = 0..n
  BY DEF CString
<1>3. ASSUME NEW j \in InLevel(str, k) PROVE j \in b..e - 1
  <2>1. j \in 0..n /\ LevelOf(str, j) = k /\ str[j] \notin {"/", Nul}
    BY <1>2 DEF InLevel
  <2>2. CASE j < b
    <3>1. str[b - 1] = "/" /\ b - 1 \in j..b - 1 /\ j \in 0..b /\ b \in Nat
      BY <2>1, <2>2 DEF Begins
    <3>2. LevelOf(str, j) < LevelOf(str, b)
      BY <3>1, LevelRises
    <3>3. LevelOf(str, b) \in Nat
      BY <3>1, LevelsRise
    <3> QED BY <2>1, <1>1, <3>2, <3>3
  <2>3. CASE j > e
    <3>1. str[e] = "/"
      BY <2>1, <2>3, NulIsLast
    <3>2. e \in e..j - 1 /\ e \in 0..j /\ j \in Nat
      BY <2>1, <2>3
    <3>3. LevelOf(str, e) < LevelOf(str, j)
      BY <3>1, <3>2, LevelRises
    <3>4. LevelOf(str, j) \in Nat
      BY <3>2, LevelsRise
    <3> QED BY <2>1, <3>3, <3>4
  <2> QED BY <2>1, <2>2, <2>3
<1>4. ASSUME NEW j \in b..e - 1 PROVE j \in InLevel(str, k)
  <2>1. j \in 0..n /\ j # n /\ str[j] # "/" /\ str[j] # Nul
    BY NulIsLast DEF NoSlash
  <2>2. LevelOf(str, j) = LevelOf(str, e)
    <3>1. NoSlash(str, j, e) /\ e \in Nat /\ j \in 0..e
      BY DEF NoSlash
    <3> QED BY <3>1, LevelStays
  <2> QED BY <1>2, <2>1, <2>2 DEF InLevel
<1>5. InLevel(str, k) = b..e - 1
  BY <1>3, <1>4
<1>6. {j - b : j \in b..e - 1} = 0..e - b - 1
  <2>1. ASSUME NEW d \in 0..e - b - 1 PROVE \E j \in b..e - 1 : d = j - b
    BY b + d \in b..e - 1, d = (b + d) - b
  <2> QED BY <2>1
<1>7. Level(str, k) = [d \in {j - b : j \in InLevel(str, k)} |-> str[b + d]]
  BY <1>1 DEF Level
<1> HIDE DEF k
<1> QED BY <1>5, <1>6, <1>7 DEF k

\* A level that is a single character.
LEMMA SingleLevel ==
    ASSUME NEW str, NEW n \in Nat, CString(str, n), NEW i \in 0..n - 1,
           Begins(str, i), str[i] \notin {"/", Nul}, str[i + 1] \in {"/", Nul}
    PROVE  /\ LevelOf(str, i + 1) = LevelOf(str, i)
           /\ Level(str, LevelOf(str, i)) = Just(str[i])
<1>1. i \in 0..n /\ i + 1 \in i..n /\ NoSlash(str, i, i + 1)
  BY DEF NoSlash
<1>2. LevelOf(str, i) = LevelOf(str, i + 1)
  BY <1>1, LevelStays
<1>3. Level(str, LevelOf(str, i + 1)) = [d \in 0..(i + 1) - i - 1 |-> str[i + d]]
  BY <1>1, WholeLevel
<1>4. [d \in 0..(i + 1) - i - 1 |-> str[i + d]] = [d \in {0} |-> str[i]]
  <2>1. 0..(i + 1) - i - 1 = {0} /\ i + 0 = i
    OBVIOUS
  <2> QED BY <2>1
<1> QED BY <1>2, <1>3, <1>4 DEF Just

-----------------------------------------------------------------------------
(* What the scanner knows at a pair of offsets.                              *)

\* The levels that x and y are in have one number, and up to x and y the two
\* have the same characters.
AlignedAt(x, y) ==
    /\ LevelOf(sub, x) = LevelOf(topic, y)
    /\ \E d \in 0..x :
        /\ d <= y
        /\ Begins(sub, x - d) /\ Begins(topic, y - d)
        /\ \A i \in 1..d : sub[x - i] = topic[y - i] /\ sub[x - i] # "/"

MatchedBelow(k) == \A j \in 0..k - 1 : LevelMatches(j)

\* x and y end levels of one number; these match, and all before them.
MatchedTo(x, y) ==
    /\ sub[x] \in {"/", Nul} /\ topic[y] \in {"/", Nul}
    /\ LevelOf(sub, x) = LevelOf(topic, y)
    /\ MatchedBelow(LevelOf(sub, x)) /\ LevelMatches(LevelOf(sub, x))
    /\ Level(sub, LevelOf(sub, x)) # Just("#")

\* A single character is not another.
LEMMA JustOnce == \A c, d : Just(c) = Just(d) => c = d
<1> TAKE c, d
<1>1. Just(c)[0] = c /\ Just(d)[0] = d
  BY DEF Just
<1> QED BY <1>1

\* Levels with the same characters up to their ends are the same.
LEMMA AlignedEnds ==
    ASSUME NEW m \in Nat, NEW n \in Nat, CString(sub, m), CString(topic, n), PlainTopic,
           NEW x \in 0..m, NEW y \in 0..n, AlignedAt(x, y), MatchedBelow(LevelOf(sub, x)),
           sub[x] \in {"/", Nul}, topic[y] \in {"/", Nul}
    PROVE  MatchedTo(x, y)
<1> DEFINE k == LevelOf(sub, x)
<1>1. PICK d \in 0..x :
        /\ d <= y
        /\ Begins(sub, x - d) /\ Begins(topic, y - d)
        /\ \A i \in 1..d : sub[x - i] = topic[y - i] /\ sub[x - i] # "/"
  BY DEF AlignedAt
<1>2. x - d \in 0..m /\ x \in (x - d)..m /\ y - d \in 0..n /\ y \in (y - d)..n /\ d \in Nat
  BY <1>1
<1>3. \A p \in 0..d - 1 : sub[(x - d) + p] = topic[(y - d) + p] /\ sub[(x - d) + p] # "/"
  <2> TAKE p \in 0..d - 1
  <2>1. d - p \in 1..d /\ (x - d) + p = x - (d - p) /\ (y - d) + p = y - (d - p)
    BY <1>2
  <2> QED BY <1>1, <2>1
<1>4. NoSlash(sub, x - d, x) /\ NoSlash(topic, y - d, y)
  <2>1. ASSUME NEW p \in (x - d)..x - 1 PROVE sub[p] # "/"
    BY <1>2, <1>3, p - (x - d) \in 0..d - 1, (x - d) + (p - (x - d)) = p
  <2>2. ASSUME NEW p \in (y - d)..y - 1 PROVE topic[p] # "/"
    <3>1. p - (y - d) \in 0..d - 1 /\ (y - d) + (p - (y - d)) = p
      BY <1>2
    <3> QED BY <1>3, <3>1
  <2> QED BY <2>1, <2>2 DEF NoSlash
<1>5. Level(sub, k) = [p \in 0..x - (x - d) - 1 |-> sub[(x - d) + p]]
  BY <1>1, <1>2, <1>4, WholeLevel
<1>6. Level(topic, k) = [p \in 0..y - (y - d) - 1 |-> topic[(y - d) + p]]
  BY <1>1, <1>2, <1>4, WholeLevel DEF AlignedAt
<1>7. x - (x - d) - 1 = d - 1 /\ y - (y - d) - 1 = d - 1
  BY <1>2
<1>8. Level(sub, k) = Level(topic, k)
  <2>1. Level(sub, k) = [p \in 0..d - 1 |-> sub[(x - d) + p]]
    BY <1>5, <1>7
  <2>2. Level(topic, k) = [p \in 0..d - 1 |-> topic[(y - d) + p]]
    BY <1>6, <1>7
  <2> HIDE DEF k
  <2> QED BY <1>3, <2>1, <2>2
<1>9. Level(sub, k) # Just("#")
  <2> SUFFICES ASSUME Level(sub, k) = Just("#") PROVE FALSE
    OBVIOUS
  <2>1. 0 \in DOMAIN Level(sub, k) /\ Level(sub, k)[0] = "#"
    BY DEF Just
  <2>2. 0 \in 0..d - 1 /\ sub[(x - d) + 0] = "#"
    BY <1>5, <1>7, <2>1
  <2>3. topic[(y - d) + 0] = "#" /\ (y - d) + 0 \in 0..n
    BY <1>2, <1>3, <2>2
  <2> QED BY <2>3 DEF PlainTopic, CString, Wild
<1> QED BY <1>8, <1>9 DEF MatchedTo, LevelMatches, AlignedAt

\* Levels that differ in a character, or where only one of them ends, are not
\* the same, and the filter's is no wildcard.
LEMMA AlignedDiffers ==
    ASSUME NEW m \in Nat, NEW n \in Nat, CString(sub, m), CString(topic, n), PlainTopic,
           NEW x \in 0..m, NEW y \in 0..n, AlignedAt(x, y),
           sub[x] \notin Wild, sub[x] # topic[y], ~({sub[x], topic[y]} \subseteq {"/", Nul})
    PROVE  /\ ~LevelMatches(LevelOf(sub, x))
           /\ Level(sub, LevelOf(sub, x)) # Just("#")
<1> DEFINE k == LevelOf(sub, x)
<1>1. PICK d \in 0..x :
        /\ d <= y
        /\ Begins(sub, x - d) /\ Begins(topic, y - d)
        /\ \A i \in 1..d : sub[x - i] = topic[y - i] /\ sub[x - i] # "/"
  BY DEF AlignedAt
<1>2. x - d \in 0..m /\ x \in (x - d)..m /\ y - d \in 0..n /\ y \in (y - d)..n /\ d \in Nat
  BY <1>1
<1>3. NoSlash(sub, x - d, x) /\ NoSlash(topic, y - d, y)
  <2>1. ASSUME NEW p \in (x - d)..x - 1 PROVE sub[p] # "/"
    BY <1>1, <1>2, x - p \in 1..d, x - (x - p) = p
  <2>2. ASSUME NEW p \in (y - d)..y - 1 PROVE topic[p] # "/"
    <3>1. y - p \in 1..d /\ y - (y - p) = p
      BY <1>2
    <3> QED BY <1>1, <3>1
  <2> QED BY <2>1, <2>2 DEF NoSlash
<1>4. /\ d \in DOMAIN Level(sub, k) <=> sub[x] \notin {"/", Nul}
      /\ d \in DOMAIN Level(sub, k) => Level(sub, k)[d] = sub[x]
  BY <1>1, <1>2, <1>3, LevelText, x - (x - d) = d
<1>5. /\ d \in DOMAIN Level(topic, k) <=> topic[y] \notin {"/", Nul}
      /\ d \in DOMAIN Level(topic, k) => Level(topic, k)[d] = topic[y]
  BY <1>1, <1>2, <1>3, LevelText, y - (y - d) = d DEF AlignedAt
<1>6. Level(sub, k) # Level(topic, k)
  BY <1>4, <1>5
<1>7. ASSUME NEW w \in Wild, Level(sub, k) = Just(w) PROVE FALSE
  <2>1. 0 \in DOMAIN Level(sub, k) /\ Level(sub, k)[0] = w
    BY <1>7 DEF Just
  <2>2. CASE d = 0
    BY <1>4, <2>1, <2>2
  <2>3. CASE d > 0
    <3>1. sub[x - d] = topic[y - d]
      BY <1>1, <1>2, <2>3, d \in 1..d
    <3>2. x - d \in (x - d)..m /\ NoSlash(sub, x - d, x - d) /\ LevelOf(sub, x - d) = k
      BY <1>2, <1>3, LevelStays DEF NoSlash
    <3>3. (x - d) - (x - d) \in DOMAIN Level(sub, k) =>
             Level(sub, k)[(x - d) - (x - d)] = sub[x - d]
      BY <1>1, <1>2, <3>2, LevelText
    <3>4. sub[x - d] = w
      BY <1>2, <2>1, <3>3, (x - d) - (x - d) = 0
    <3> QED BY <1>2, <1>7, <3>1, <3>4 DEF PlainTopic, CString
  <2> QED BY <1>2, <2>2, <2>3
<1> QED BY <1>6, <1>7 DEF LevelMatches, Wild

\* From a character that is the same the scanner advances in its level ...
LEMMA AdvanceInLevel ==
    ASSUME NEW m \in Nat, NEW n \in Nat, CString(sub, m), CString(topic, n),
           NEW x \in 0..m - 1, NEW y \in 0..n - 1, AlignedAt(x, y),
           sub[x] = topic[y], sub[x] # "/"
    PROVE  AlignedAt(x + 1, y + 1) /\ LevelOf(sub, x + 1) = LevelOf(sub, x)
<1>1. PICK d \in 0..x :
        /\ d <= y
        /\ Begins(sub, x - d) /\ Begins(topic, y - d)
        /\ \A i \in 1..d : sub[x - i] = topic[y - i] /\ sub[x - i] # "/"
  BY DEF AlignedAt
<1>2. d + 1 \in 0..x + 1 /\ d + 1 <= y + 1 /\ (x + 1) - (d + 1) = x - d /\ (y + 1) - (d + 1) = y - d
  BY <1>1
<1>3. \A i \in 1..d + 1 : sub[(x + 1) - i] = topic[(y + 1) - i] /\ sub[(x + 1) - i] # "/"
  <2> TAKE i \in 1..d + 1
  <2>1. CASE i = 1
    BY <2>1, (x + 1) - 1 = x, (y + 1) - 1 = y
  <2>2. CASE i # 1
    <3>1. i - 1 \in 1..d /\ (x + 1) - i = x - (i - 1) /\ (y + 1) - i = y - (i - 1)
      BY <2>2
    <3> QED BY <1>1, <3>1
  <2> QED BY <2>1, <2>2
<1>4. LevelOf(sub, x + 1) = LevelOf(sub, x) /\ LevelOf(topic, y + 1) = LevelOf(topic, y)
  <2>1. NoSlash(sub, x, x + 1) /\ NoSlash(topic, y, y + 1)
    BY DEF NoSlash
  <2>2. x \in 0..x + 1 /\ y \in 0..y + 1 /\ x + 1 \in Nat /\ y + 1 \in Nat
    OBVIOUS
  <2> QED BY <2>1, <2>2, LevelStays
<1> QED BY <1>1, <1>2, <1>3, <1>4 DEF AlignedAt

\* ... and from the slash after two levels that match to the next ones.
LEMMA AdvanceToNext ==
    ASSUME NEW x \in Nat, NEW y \in Nat, MatchedTo(x, y), sub[x] = "/", topic[y] = "/"
    PROVE  AlignedAt(x + 1, y + 1) /\ MatchedBelow(LevelOf(sub, x + 1))
<1>1. LevelOf(sub, x + 1) = LevelOf(sub, x) + 1 /\ LevelOf(topic, y + 1) = LevelOf(topic, y) + 1
  BY LevelNext
<1>2. LevelOf(sub, x) \in Nat
  BY LevelsRise, x \in 0..x
<1>3. MatchedBelow(LevelOf(sub, x) + 1)
  BY <1>2 DEF MatchedTo, MatchedBelow
<1>4. AlignedAt(x + 1, y + 1)
  <2>1. Begins(sub, (x + 1) - 0) /\ Begins(topic, (y + 1) - 0)
    BY (x + 1) - 0 - 1 = x, (y + 1) - 0 - 1 = y DEF Begins
  <2>2. 0 \in 0..x + 1 /\ 0 <= y + 1 /\ \A i \in 1..0 : FALSE
    OBVIOUS
  <2> QED BY <1>1, <2>1, <2>2 DEF AlignedAt, MatchedTo
<1> QED BY <1>1, <1>3, <1>4

-----------------------------------------------------------------------------
(* The verdicts that MQTT prescribes where the scanner gives one.            *)

\* A # is the last level of a valid filter.
LEMMA HashIsLast ==
    ASSUME NEW m \in Nat, CString(sub, m), ValidFilter, NEW x \in 0..m, sub[x] = "#"
    PROVE  x + 1 = m /\ EndsInHash /\ LastLevel(sub) = LevelOf(sub, x)
<1>1. sub[x] \notin {"/", Nul} /\ sub[x] \in Wild
  BY LettersArePlain DEF Nul, Wild
<1>2. x \in 0..m - 1 /\ Begins(sub, x) /\ sub[x + 1] = Nul
  BY <1>1 DEF ValidFilter, CString
<1>3. x + 1 = m
  BY <1>2, NulIsLast, x + 1 \in 0..m
<1>4. LevelOf(sub, x + 1) = LevelOf(sub, x) /\ Level(sub, LevelOf(sub, x)) = Just("#")
  BY <1>1, <1>2, SingleLevel
<1>5. LastLevel(sub) = LevelOf(sub, x)
  BY <1>3, <1>4, LevelEnds
<1> QED BY <1>3, <1>4, <1>5 DEF EndsInHash

\* A level that does not match decides, unless it is a #.
LEMMA NoMatch ==
    ASSUME NEW m \in Nat, CString(sub, m), NEW x \in 0..m,
           ~LevelMatches(LevelOf(sub, x)), Level(sub, LevelOf(sub, x)) # Just("#")
    PROVE  ~LevelsMatch
<1>1. /\ LevelOf(sub, x) \in Nat /\ LastLevel(sub) \in Nat
      /\ LevelOf(sub, x) <= LastLevel(sub)
  BY LevelsRise, LevelEnds
<1>2. EndsInHash => LevelOf(sub, x) # LastLevel(sub)
  BY DEF EndsInHash
<1> QED BY <1>1, <1>2 DEF LevelsMatch

LEMMA MatchedThrough ==
    ASSUME NEW x, NEW y, MatchedTo(x, y), LevelOf(sub, x) \in Nat
    PROVE  \A j \in 0..LevelOf(sub, x) : LevelMatches(j)
<1>1. MatchedBelow(LevelOf(sub, x)) /\ LevelMatches(LevelOf(sub, x))
  BY DEF MatchedTo
<1>2. \A j \in 0..LevelOf(sub, x) : j = LevelOf(sub, x) \/ j \in 0..LevelOf(sub, x) - 1
  OBVIOUS
<1> QED BY <1>1, <1>2 DEF MatchedBelow

\* Both end with levels that match.
LEMMA BothEnd ==
    ASSUME NEW m \in Nat, NEW n \in Nat, CString(sub, m), CString(topic, n),
           MatchedTo(m, n)
    PROVE  LevelsMatch
<1>1. LevelOf(sub, m) = LastLevel(sub) /\ LevelOf(topic, n) = LastLevel(topic)
  BY LevelEnds
<1>2. LastLevel(sub) \in Nat
  BY <1>1, LevelsRise, m \in 0..m
<1>3. \A j \in 0..LastLevel(sub) : LevelMatches(j)
  BY <1>1, <1>2, MatchedThrough
<1> QED BY <1>1, <1>3 DEF MatchedTo, LevelsMatch, EndsInHash

\* The filter ends, the topic has another level.
LEMMA FilterShort ==
    ASSUME NEW m \in Nat, NEW n \in Nat, CString(sub, m), CString(topic, n),
           NEW y \in 0..n, topic[y] = "/", MatchedTo(m, y)
    PROVE  ~LevelsMatch
<1>1. LevelOf(sub, m) = LastLevel(sub) /\ LevelOf(topic, n) = LastLevel(topic)
  BY LevelEnds
<1>2. y # n
  BY LettersArePlain DEF CString, Nul
<1>3. LevelOf(topic, y) < LevelOf(topic, n) /\ LevelOf(topic, n) \in Nat /\ LevelOf(topic, y) \in Nat
  BY <1>2, LevelRises, LevelsRise, y \in y..n - 1
<1> QED BY <1>1, <1>3 DEF MatchedTo, LevelsMatch, EndsInHash

\* The topic ends and the filter has another level: it must be a #.
LEMMA TopicShort ==
    ASSUME NEW m \in Nat, NEW n \in Nat, CString(sub, m), CString(topic, n), ValidFilter,
           NEW x \in 0..m, sub[x] = "/", MatchedTo(x, n)
    PROVE  LevelsMatch <=> sub[x + 1] = "#"
<1> DEFINE k == LevelOf(sub, x)
<1>1. LevelOf(sub, m) = LastLevel(sub) /\ LastLevel(topic) = k
  BY LevelEnds DEF MatchedTo
<1>2. x \in 0..m - 1 /\ x + 1 \in 0..m
  BY LettersArePlain DEF CString, Nul
<1>3. LevelOf(sub, x + 1) = k + 1
  BY LevelNext
<1>4. k \in Nat /\ LastLevel(sub) \in Nat /\ k + 1 <= LastLevel(sub)
  BY <1>1, <1>2, <1>3, LevelsRise
<1>5. \A j \in 0..k : LevelMatches(j)
  BY <1>4, MatchedThrough
<1>6. Begins(sub, x + 1)
  BY (x + 1) - 1 = x DEF Begins
<1>7. ASSUME sub[x + 1] = "#" PROVE LevelsMatch
  <2>1. EndsInHash /\ LastLevel(sub) = k + 1
    BY <1>2, <1>3, <1>7, HashIsLast
  <2> QED BY <1>1, <1>4, <1>5, <2>1 DEF LevelsMatch
<1>8. ASSUME LevelsMatch PROVE sub[x + 1] = "#"
  <2>1. EndsInHash /\ LastLevel(sub) = k + 1
    BY <1>1, <1>4, <1>8 DEF LevelsMatch
  <2>2. Level(sub, k + 1) = Just("#")
    BY <2>1 DEF EndsInHash
  <2>3. 0 \in DOMAIN Level(sub, k + 1) /\ Level(sub, k + 1)[0] = "#"
    BY <2>2 DEF Just
  <2>4. x + 1 \in (x + 1)..m /\ NoSlash(sub, x + 1, x + 1) /\ (x + 1) - (x + 1) = 0
    BY <1>2 DEF NoSlash
  <2>5. (x + 1) - (x + 1) \in DOMAIN Level(sub, k + 1) =>
           Level(sub, k + 1)[(x + 1) - (x + 1)] = sub[x + 1]
    BY <1>2, <1>3, <1>6, <2>4, LevelText
  <2> QED BY <2>3, <2>4, <2>5
<1> QED BY <1>7, <1>8

\* A # matches whatever is left of the topic.
LEMMA RestMatches ==
    ASSUME NEW m \in Nat, NEW n \in Nat, CString(sub, m), CString(topic, n), ValidFilter,
           NEW x \in 0..m, sub[x] = "#", MatchedBelow(LevelOf(sub, x)),
           LevelOf(topic, n) >= LevelOf(sub, x)
    PROVE  LevelsMatch
<1>1. EndsInHash /\ LastLevel(sub) = LevelOf(sub, x)
  BY HashIsLast
<1>2. LevelOf(sub, x) \in Nat /\ LevelOf(topic, n) \in Nat /\ LevelOf(topic, n) = LastLevel(topic)
  BY LevelsRise, LevelEnds, n \in 0..n
<1> QED BY <1>1, <1>2 DEF LevelsMatch, MatchedBelow

-----------------------------------------------------------------------------
(* The scan.                                                                 *)

\* The last level passed is a +, and the topic's is of the same number.
AfterPlus(x, y) ==
    /\ x > 0 /\ sub[x - 1] = "+" /\ Begins(sub, x - 1) /\ sub[x] \in {"/", Nul}
    /\ LevelOf(sub, x) = LevelOf(topic, y)

\* In the loop the scanner is inside levels that agree so far, or at the end of
\* a + and of what it stands for.  A topic that has ended in the loop leaves a
\* filter with more to match.
InAgreement(x, y) ==
    \/ /\ AlignedAt(x, y)
       /\ topic[y] = Nul =>
            /\ sub[x] # Nul
            /\ ~(sub[x] = "+" /\ sub[x + 1] = Nul)
            /\ ~(sub[x] = "/" /\ sub[x + 1] = "#")
    \/ /\ AfterPlus(x, y)
       /\ topic[y] \in {"/", Nul} /\ ~(sub[x] = Nul /\ topic[y] = Nul)

\* What the scanner has found where it stands; with the verdict, it agrees.
Scanned(x, y, phase) ==
    /\ MatchedBelow(LevelOf(sub, x))
    /\ phase = "loop" => InAgreement(x, y)
    /\ phase = "skip" => AfterPlus(x, y)
    /\ phase = "rest" => sub[x] = "#" /\ LevelOf(topic, y) >= LevelOf(sub, x)

Agrees(x, y, phase, verdict) ==
    IF phase = "done" THEN verdict = TRUE <=> LevelsMatch ELSE Scanned(x, y, phase)

\* The end of a + and of what it stands for.
LEMMA PlusMatches ==
    ASSUME NEW m \in Nat, NEW n \in Nat, CString(sub, m), CString(topic, n),
           NEW x \in 0..m, NEW y \in 0..n, AfterPlus(x, y), MatchedBelow(LevelOf(sub, x)),
           topic[y] \in {"/", Nul}
    PROVE  MatchedTo(x, y)
<1>1. x - 1 \in 0..m - 1 /\ (x - 1) + 1 = x /\ "+" \notin {"/", Nul}
  BY LettersArePlain DEF AfterPlus, Nul
<1>2. LevelOf(sub, x) = LevelOf(sub, x - 1) /\ Level(sub, LevelOf(sub, x - 1)) = Just("+")
  BY <1>1, SingleLevel DEF AfterPlus
<1>3. Just("+") # Just("#")
  BY JustOnce
<1> QED BY <1>2, <1>3 DEF MatchedTo, LevelMatches, AfterPlus

\* At the ends of two levels the loop has found that they match.
LEMMA EndsMatch ==
    ASSUME NEW m \in Nat, NEW n \in Nat, CString(sub, m), CString(topic, n), PlainTopic,
           NEW x \in 0..m, NEW y \in 0..n, InAgreement(x, y), MatchedBelow(LevelOf(sub, x)),
           sub[x] \in {"/", Nul}, topic[y] \in {"/", Nul}
    PROVE  MatchedTo(x, y)
BY AlignedEnds, PlusMatches DEF InAgreement

\* Both strings, the pointers in them, and a call that has no verdict yet.
Scanning(m, n) ==
    /\ Inside(m, n) /\ ValidFilter /\ PlainTopic
    /\ pc # "done" /\ Scanned(s, t, pc)

\* The filter is used up and the topic is not.
LEMMA FilterEndsAgrees ==
    ASSUME NEW m \in Nat, NEW n \in Nat, Scanning(m, n), FilterEnds
    PROVE  Agrees(s', t', pc', match')
<1>1. /\ CString(sub, m) /\ CString(topic, n) /\ PlainTopic /\ s \in 0..m /\ t \in 0..n
      /\ MatchedBelow(LevelOf(sub, s)) /\ InAgreement(s, t) /\ sub[s] = Nul
  BY DEF Scanning, Inside, Scanned, FilterEnds
<1>2. s = m /\ topic[t] # Nul
  BY <1>1, NulIsLast DEF InAgreement
<1>0. pc' = "done" /\ match' = FALSE
  BY <1>2 DEF FilterEnds, Done
<1>3. CASE topic[t] = "/"
  <2>1. MatchedTo(m, t)
    BY <1>1, <1>2, <1>3, EndsMatch
  <2>2. ~LevelsMatch
    BY <1>1, <1>3, <2>1, FilterShort
  <2> QED BY <1>0, <2>2 DEF Agrees
<1>4. CASE topic[t] # "/"
  <2>1. AlignedAt(s, t) /\ sub[s] \notin Wild
    BY <1>1, <1>2, <1>4, NulIsNoChar DEF InAgreement
  <2>2. ~LevelMatches(LevelOf(sub, s)) /\ Level(sub, LevelOf(sub, s)) # Just("#")
    BY <1>1, <1>2, <1>4, <2>1, AlignedDiffers
  <2>3. ~LevelsMatch
    BY <1>1, <2>2, NoMatch
  <2> QED BY <1>0, <2>3 DEF Agrees
<1> QED BY <1>3, <1>4

\* A + in the filter takes up the whole level.
LEMMA PlusAgrees ==
    ASSUME NEW m \in Nat, NEW n \in Nat, Scanning(m, n), Plus
    PROVE  Agrees(s', t', pc', match')
<1>1. /\ CString(sub, m) /\ s \in 0..m /\ sub[s] = "+" /\ InAgreement(s, t)
      /\ Begins(sub, s) /\ sub[s + 1] \in {"/", Nul} /\ MatchedBelow(LevelOf(sub, s))
  BY DEF Scanning, Inside, Scanned, Plus, InLoop, StartsLevel, EndsLevel, Begins
<1>2. "+" \notin {"/", Nul} /\ s \in 0..m - 1
  BY <1>1, LettersArePlain DEF CString, Nul
<1>3. LevelOf(sub, s) = LevelOf(topic, t)
  BY <1>1, <1>2 DEF InAgreement, AlignedAt, AfterPlus
<1>4. LevelOf(sub, s + 1) = LevelOf(sub, s)
  BY <1>1, <1>2, SingleLevel
<1>5. AfterPlus(s + 1, t)
  BY <1>1, <1>2, <1>3, <1>4, (s + 1) - 1 = s DEF AfterPlus
<1> QED BY <1>1, <1>4, <1>5 DEF Plus, Agrees, Scanned

\* What a + stands for is passed to the end of its level.
LEMMA SkipLevelAgrees ==
    ASSUME NEW m \in Nat, NEW n \in Nat, Scanning(m, n), SkipLevel
    PROVE  Agrees(s', t', pc', match')
<1>1. /\ CString(sub, m) /\ CString(topic, n) /\ s \in 0..m /\ t \in 0..n
      /\ AfterPlus(s, t) /\ MatchedBelow(LevelOf(sub, s)) /\ pc = "skip" /\ s' = s
  BY DEF Scanning, Inside, Scanned, SkipLevel
<1>2. CASE topic[t] \notin {Nul, "/"}
  <2>1. NoSlash(topic, t, t + 1) /\ t \in 0..t + 1 /\ t + 1 \in Nat
    BY <1>1, <1>2 DEF NoSlash
  <2>2. LevelOf(topic, t + 1) = LevelOf(topic, t)
    BY <2>1, LevelStays
  <2>3. t' = t + 1 /\ pc' = "skip"
    BY <1>1, <1>2 DEF SkipLevel
  <2> QED BY <1>1, <2>2, <2>3 DEF Agrees, Scanned, AfterPlus
<1>3. CASE topic[t] \in {Nul, "/"}
  <2>1. CASE topic[t] = Nul /\ sub[s] = Nul
    <3>1. s = m /\ t = n
      BY <1>1, <2>1, NulIsLast
    <3>2. LevelsMatch
      BY <1>1, <1>3, <3>1, PlusMatches, BothEnd
    <3>3. Done(TRUE)
      BY <1>3, <2>1 DEF SkipLevel
    <3> QED BY <3>2, <3>3 DEF Done, Agrees
  <2>2. CASE ~(topic[t] = Nul /\ sub[s] = Nul)
    <3>1. pc' = "loop" /\ t' = t
      BY <1>3, <2>2 DEF SkipLevel
    <3> QED BY <1>1, <1>3, <2>2, <3>1 DEF Agrees, Scanned, InAgreement
  <2> QED BY <2>1, <2>2
<1> QED BY <1>2, <1>3

\* A # is reached, and then passes over the rest of the topic.
LEMMA HashAgrees ==
    ASSUME NEW m \in Nat, NEW n \in Nat, Scanning(m, n), Hash
    PROVE  Agrees(s', t', pc', match')
<1>1. /\ s \in 0..m /\ sub[s] = "#" /\ InAgreement(s, t) /\ MatchedBelow(LevelOf(sub, s))
      /\ s' = s /\ t' = t /\ pc' = "rest"
  BY DEF Scanning, Inside, Scanned, Hash, InLoop
<1>2. LevelOf(sub, s) = LevelOf(topic, t)
  BY <1>1 DEF InAgreement, AlignedAt, AfterPlus
<1>3. LevelOf(sub, s) \in Nat
  BY <1>1, LevelsRise, s \in 0..s
<1> QED BY <1>1, <1>2, <1>3 DEF Agrees, Scanned

LEMMA SkipRestAgrees ==
    ASSUME NEW m \in Nat, NEW n \in Nat, Scanning(m, n), SkipRest
    PROVE  Agrees(s', t', pc', match')
<1>1. /\ CString(sub, m) /\ CString(topic, n) /\ s \in 0..m /\ t \in 0..n /\ ValidFilter
      /\ sub[s] = "#" /\ LevelOf(topic, t) >= LevelOf(sub, s) /\ MatchedBelow(LevelOf(sub, s))
      /\ s' = s
  BY DEF Scanning, Inside, Scanned, SkipRest
<1>2. CASE topic[t] = Nul
  <2>1. t = n
    BY <1>1, <1>2, NulIsLast
  <2>2. LevelsMatch
    BY <1>1, <2>1, RestMatches
  <2>3. pc' = "done" /\ match' = TRUE
    BY <1>2 DEF SkipRest, Done
  <2> QED BY <2>2, <2>3 DEF Agrees
<1>3. CASE topic[t] # Nul
  <2>1. t' = t + 1 /\ pc' = "rest"
    BY <1>3 DEF SkipRest, Scanning, Inside
  <2>2. LevelOf(topic, t) <= LevelOf(topic, t + 1)
    BY <1>1, LevelsRise, t \in 0..t + 1, t + 1 \in Nat
  <2>3. LevelOf(topic, t) \in Nat /\ LevelOf(topic, t + 1) \in Nat /\ LevelOf(sub, s) \in Nat
    BY <1>1, LevelsRise, t \in 0..t + 1, t + 1 \in Nat, s \in 0..s
  <2> QED BY <1>1, <2>1, <2>2, <2>3 DEF Agrees, Scanned
<1> QED BY <1>2, <1>3

\* A difference is final, but for the parent of a #.
LEMMA DifferAgrees ==
    ASSUME NEW m \in Nat, NEW n \in Nat, Scanning(m, n), Differ
    PROVE  Agrees(s', t', pc', match')
<1>1. /\ CString(sub, m) /\ CString(topic, n) /\ s \in 0..m /\ t \in 0..n
      /\ ValidFilter /\ PlainTopic
      /\ InAgreement(s, t) /\ MatchedBelow(LevelOf(sub, s))
      /\ sub[s] # Nul /\ sub[s] \notin Wild /\ sub[s] # topic[t]
  BY DEF Scanning, Inside, Scanned, Differ, InLoop
<1>2. /\ pc' = "done"
      /\ match' = TRUE <=>
           topic[t] = Nul /\ s > 0 /\ sub[s - 1] = "+" /\ sub[s] = "/" /\ sub[s + 1] = "#"
  BY DEF Differ, Done
<1>3. CASE topic[t] = Nul /\ sub[s] = "/"
  <2>1. t = n
    BY <1>1, <1>3, NulIsLast
  <2>2. MatchedTo(s, n)
    BY <1>1, <1>3, <2>1, EndsMatch
  <2>3. LevelsMatch <=> sub[s + 1] = "#"
    BY <1>1, <1>3, <2>2, TopicShort
  <2>4. sub[s + 1] = "#" => s > 0 /\ sub[s - 1] = "+"
    BY <1>1, <1>3 DEF InAgreement, AfterPlus
  <2> QED BY <1>2, <1>3, <2>3, <2>4 DEF Agrees
<1>4. CASE ~(topic[t] = Nul /\ sub[s] = "/")
  <2>1. ~({sub[s], topic[t]} \subseteq {"/", Nul}) /\ AlignedAt(s, t)
    BY <1>1, <1>4 DEF InAgreement, AfterPlus
  <2>2. ~LevelMatches(LevelOf(sub, s)) /\ Level(sub, LevelOf(sub, s)) # Just("#")
    BY <1>1, <2>1, AlignedDiffers
  <2>3. ~LevelsMatch
    BY <1>1, <2>2, NoMatch
  <2> QED BY <1>2, <1>4, <2>3 DEF Agrees
<1> QED BY <1>3, <1>4

\* The same character in both, and the verdicts given early where the topic
\* ends with it.
LEMMA EqualAgrees ==
    ASSUME NEW m \in Nat, NEW n \in Nat, Scanning(m, n), Equal
    PROVE  Agrees(s', t', pc', match')
<1>1. /\ CString(sub, m) /\ CString(topic, n) /\ s \in 0..m /\ t \in 0..n
      /\ ValidFilter /\ PlainTopic
      /\ InAgreement(s, t) /\ MatchedBelow(LevelOf(sub, s))
      /\ sub[s] # Nul /\ sub[s] = topic[t]
  BY DEF Scanning, Inside, Scanned, Equal, InLoop
<1>2. s \in 0..m - 1 /\ t \in 0..n - 1
  BY <1>1 DEF CString
<1>3. AlignedAt(s + 1, t + 1) /\ MatchedBelow(LevelOf(sub, s + 1))
  <2>1. CASE sub[s] = "/"
    <3>1. MatchedTo(s, t)
      BY <1>1, <2>1, EndsMatch
    <3> QED BY <1>1, <2>1, <3>1, s \in Nat, t \in Nat, AdvanceToNext
  <2>2. CASE sub[s] # "/"
    <3>1. AlignedAt(s, t)
      BY <1>1, <2>2 DEF InAgreement, AfterPlus
    <3> QED BY <1>1, <1>2, <2>2, <3>1, AdvanceInLevel
  <2> QED BY <2>1, <2>2
<1>4. s + 1 \in 0..m /\ t + 1 \in 0..n /\ (topic[t + 1] = Nul => t + 1 = n)
  BY <1>1, <1>2, NulIsLast
<1>5. CASE ParentOfHash
  <2>1. sub[s + 1] = "/" /\ sub[(s + 1) + 1] = "#" /\ t + 1 = n /\ topic[t + 1] = Nul
    BY <1>1, <1>4, <1>5, (s + 1) + 1 = s + 2 DEF ParentOfHash
  <2>2. MatchedTo(s + 1, t + 1)
    BY <1>1, <1>3, <1>4, <2>1, AlignedEnds
  <2>3. LevelsMatch
    BY <1>1, <1>4, <2>1, <2>2, TopicShort
  <2>4. pc' = "done" /\ match' = TRUE
    BY <1>5 DEF Equal, Done
  <2> QED BY <2>3, <2>4 DEF Agrees
<1>6. CASE ~ParentOfHash
  <2>0. s' = s + 1 /\ t' = t + 1
    BY <1>6 DEF Equal
  <2>1. CASE topic[t + 1] # Nul
    <3>1. pc' = "loop"
      BY <1>6, <2>1 DEF Equal, InLoop
    <3> QED BY <1>3, <2>0, <2>1, <3>1 DEF Agrees, Scanned, InAgreement
  <2>2. CASE topic[t + 1] = Nul /\ sub[s + 1] = Nul
    <3>1. s + 1 = m /\ t + 1 = n
      BY <1>1, <1>4, <2>2, NulIsLast
    <3>2. MatchedTo(s + 1, t + 1)
      BY <1>1, <1>3, <1>4, <2>2, AlignedEnds
    <3>3. LevelsMatch
      BY <1>1, <3>1, <3>2, BothEnd
    <3>4. pc' = "done" /\ match' = TRUE
      BY <1>6, <2>2 DEF Equal, Done
    <3> QED BY <3>3, <3>4 DEF Agrees
  <2>3. CASE topic[t + 1] = Nul /\ sub[s + 1] = "+" /\ sub[s + 2] = Nul
    <3>1. s + 1 \in 0..m - 1 /\ (s + 1) + 1 = s + 2 /\ sub[s + 1] \notin {"/", Nul}
      BY <1>1, <1>4, <2>3, NulIsNoChar, LettersArePlain DEF CString, Wild, Nul
    <3>2. Begins(sub, s + 1) /\ sub[s] = "/"
      <4>1. Begins(sub, s + 1)
        BY <1>1, <1>4, <2>3 DEF ValidFilter, CString, Wild
      <4> QED BY <1>2, <4>1, (s + 1) - 1 = s DEF Begins
    <3>3. LevelOf(sub, (s + 1) + 1) = LevelOf(sub, s + 1)
      BY <1>1, <2>3, <3>1, <3>2, SingleLevel
    <3>4. AfterPlus((s + 1) + 1, t + 1)
      BY <1>2, <1>3, <2>3, <3>1, <3>2, <3>3, ((s + 1) + 1) - 1 = s + 1 DEF AfterPlus, AlignedAt
    <3>5. (s + 1) + 1 = m /\ t + 1 = n
      BY <1>1, <1>4, <2>3, <3>1, NulIsLast, (s + 1) + 1 \in 0..m
    <3>6. MatchedTo((s + 1) + 1, t + 1)
      BY <1>1, <1>3, <1>4, <2>3, <3>3, <3>4, <3>5, PlusMatches, m \in 0..m
    <3>7. LevelsMatch
      BY <1>1, <3>5, <3>6, BothEnd
    <3>8. pc' = "done" /\ match' = TRUE
      BY <1>6, <2>3, <3>1, <3>2 DEF Equal, Done
    <3> QED BY <3>7, <3>8 DEF Agrees
  <2>4. CASE /\ topic[t + 1] = Nul /\ sub[s + 1] # Nul
             /\ ~(sub[s + 1] = "+" /\ sub[s + 2] = Nul)
    <3>1. pc' = "loop"
      BY <1>6, <2>4 DEF Equal, InLoop
    <3>2. ~(sub[s + 1] = "/" /\ sub[s + 2] = "#")
      <4> SUFFICES ASSUME sub[s + 1] = "/", sub[s + 2] = "#" PROVE FALSE
        OBVIOUS
      <4>1. s + 1 # m
        BY <1>1, <2>4 DEF CString
      <4>2. s + 2 \in DOMAIN sub
        BY <1>1, <1>4, <4>1 DEF CString
      <4>3. sub[(s + 2) + 1] = Nul
        BY <1>1, <4>2 DEF ValidFilter
      <4> QED BY <1>2, <1>6, <2>4, <4>3, (s + 2) + 1 = s + 3 DEF ParentOfHash
    <3>3. (s + 1) + 1 = s + 2
      BY <1>2
    <3>4. InAgreement(s + 1, t + 1)
      BY <1>3, <2>4, <3>2, <3>3 DEF InAgreement
    <3> QED BY <1>3, <2>0, <3>1, <3>4 DEF Agrees, Scanned
  <2> QED BY <2>1, <2>2, <2>3, <2>4
<1> QED BY <1>5, <1>6

\* What is found for a valid filter and a topic without wildcards.
Agreed ==
    ValidFilter /\ PlainTopic =>
        IF OneDollar THEN pc = "start" \/ (pc = "done" /\ match = TRUE)
                     ELSE Agrees(s, t, pc, match)

\* The strings do not change, and what is said of them stays.
LEMMA SameStrings ==
    ASSUME UNCHANGED <<sub, topic>>
    PROVE  Agreed' <=>
             (ValidFilter /\ PlainTopic =>
                IF OneDollar THEN pc' = "start" \/ (pc' = "done" /\ match' = TRUE)
                             ELSE Agrees(s', t', pc', match'))
BY DEF Agreed, ValidFilter, PlainTopic, OneDollar, Agrees, Scanned, InAgreement, AfterPlus,
       AlignedAt, MatchedBelow, LevelsMatch, EndsInHash, LevelMatches

\* At the start nothing has been compared.
LEMMA AtStart ==
    ASSUME NEW m \in Nat, NEW n \in Nat, CString(sub, m), CString(topic, n)
    PROVE  /\ LevelOf(sub, 0) = 0 /\ LevelOf(topic, 0) = 0
           /\ MatchedBelow(LevelOf(sub, 0)) /\ AlignedAt(0, 0)
<1>1. LevelOf(sub, 0) = 0 /\ LevelOf(topic, 0) = 0
  BY LevelEnds
<1>2. MatchedBelow(0)
  BY DEF MatchedBelow
<1>3. AlignedAt(0, 0)
  <2>1. Begins(sub, 0 - 0) /\ Begins(topic, 0 - 0)
    BY 0 - 0 = 0 DEF Begins
  <2>2. 0 \in 0..0 /\ 0 <= 0 /\ \A i \in 1..0 : FALSE
    OBVIOUS
  <2> QED BY <1>1, <2>1, <2>2 DEF AlignedAt
<1> QED BY <1>1, <1>2, <1>3

LEMMA InitAgreed == Init => Agreed
<1> SUFFICES ASSUME Init PROVE Agreed
  OBVIOUS
<1>1. PICK m \in Nat : CString(sub, m)
  BY BoundedStrings, LengthsAreNats DEF Init
<1>2. PICK n \in Nat : CString(topic, n)
  BY BoundedStrings, LengthsAreNats DEF Init
<1>3. s = 0 /\ pc = "start" /\ MatchedBelow(LevelOf(sub, 0))
  BY <1>1, <1>2, AtStart DEF Init
<1> QED BY <1>3 DEF Agreed, Agrees, Scanned

\* The strings are compared from their first characters on.
LEMMA EarlyAgrees ==
    ASSUME NEW m \in Nat, NEW n \in Nat, Scanning(m, n), ~OneDollar, Early
    PROVE  Agrees(s', t', pc', match')
<1>1. /\ CString(sub, m) /\ CString(topic, n) /\ s = 0 /\ t = 0
      /\ sub[0] # Nul /\ topic[0] # Nul
  BY DEF Scanning, Inside, ValidFilter, PlainTopic, Early
<1>2. s' = 0 /\ t' = 0 /\ pc' = "loop"
  BY <1>1 DEF Early
<1>3. MatchedBelow(LevelOf(sub, 0)) /\ AlignedAt(0, 0)
  BY <1>1, AtStart
<1> QED BY <1>1, <1>2, <1>3 DEF Agrees, Scanned, InAgreement

\* If just one of the strings begins with "$", they begin with characters, or
\* wildcards, that do not match.
LEMMA OneDollarDiffers ==
    ASSUME NEW m \in Nat, NEW n \in Nat, CString(sub, m), CString(topic, n),
           ValidFilter, PlainTopic, OneDollar
    PROVE  ~MQTTMatches
<1>1. CASE sub[0] \in Wild
  BY <1>1 DEF MQTTMatches, OneDollar, Wild
<1>2. CASE sub[0] \notin Wild
  <2>1. 0 \in 0..m /\ 0 \in 0..n /\ AlignedAt(0, 0)
    BY AtStart
  <2>2. sub[0] # topic[0] /\ ~({sub[0], topic[0]} \subseteq {"/", Nul})
    BY DEF OneDollar, Nul
  <2>3. ~LevelMatches(LevelOf(sub, 0)) /\ Level(sub, LevelOf(sub, 0)) # Just("#")
    BY <1>2, <2>1, <2>2, AlignedDiffers
  <2> QED BY <2>1, <2>3, NoMatch DEF MQTTMatches
<1> QED BY <1>1, <1>2

\* Every step leads from what the scanner has found to what it finds next, or
\* to a verdict by the levels.
LEMMA NextAgreed == Inv /\ Agreed /\ [Next]_vars => Agreed'
<1> SUFFICES ASSUME Inv, Agreed, [Next]_vars PROVE Agreed'
  OBVIOUS
<1>1. PICK m \in Nat, n \in Nat : Inside(m, n)
  BY DEF Inv
<1>2. UNCHANGED <<sub, topic>>
  BY DEF Next, vars
<1> SUFFICES ASSUME ValidFilter, PlainTopic
             PROVE  IF OneDollar THEN pc' = "start" \/ (pc' = "done" /\ match' = TRUE)
                                 ELSE Agrees(s', t', pc', match')
  BY <1>2, SameStrings
<1>3. CASE OneDollar
  <2>1. pc = "start" \/ (pc = "done" /\ match = TRUE)
    BY <1>3 DEF Agreed
  <2>2. CASE Early
    BY <1>3, <2>2 DEF Early, Done, ValidFilter, PlainTopic
  <2>3. CASE ~Early
    <3>1. pc \notin {"loop", "skip", "rest"}
      BY <2>1
    <3>2. ~Step
      BY <2>3, <3>1 DEF Step, FilterEnds, WildcardInTopic, BadWildcard, Plus, SkipLevel, Hash,
                        SkipRest, Differ, Equal, InLoop
    <3>3. pc' = pc /\ match' = match
      BY <3>2 DEF Next, vars
    <3> QED BY <1>3, <2>1, <3>3
  <2> QED BY <1>3, <2>2, <2>3
<1>4. CASE ~OneDollar
  <2>1. Agrees(s, t, pc, match)
    BY <1>4 DEF Agreed
  <2>2. CASE UNCHANGED vars
    BY <1>4, <2>1, <2>2 DEF vars
  <2>3. CASE Step
    <3>1. pc # "done"
      BY <2>3 DEF Step, Early, FilterEnds, WildcardInTopic, BadWildcard, Plus, SkipLevel, Hash,
                  SkipRest, Differ, Equal, InLoop
    <3>2. Scanning(m, n)
      BY <1>1, <2>1, <3>1 DEF Scanning, Agrees
    <3>3. s \in DOMAIN sub /\ t \in DOMAIN topic
      BY <1>1 DEF Inside, CString
    <3>4. ~WildcardInTopic
      BY <3>3 DEF WildcardInTopic, PlainTopic
    <3>5. ~BadWildcard
      <4> SUFFICES ASSUME BadWildcard PROVE FALSE
        OBVIOUS
      <4>1. sub[s] \in Wild
        BY DEF BadWildcard, Wild
      <4>2. StartsLevel
        BY <1>1, <3>3, <4>1 DEF ValidFilter, Begins, StartsLevel, Inside
      <4> QED BY <3>3, <4>2 DEF BadWildcard, ValidFilter, EndsLevel
    <3>6. Agrees(s', t', pc', match')
      BY <1>4, <2>3, <3>2, <3>4, <3>5, EarlyAgrees, FilterEndsAgrees, PlusAgrees,
         SkipLevelAgrees, HashAgrees, SkipRestAgrees, DifferAgrees, EqualAgrees DEF Step
    <3> QED BY <1>4, <3>6
  <2> QED BY <2>2, <2>3 DEF Next
<1> QED BY <1>3, <1>4

\* For every valid filter and every topic without wildcards, of any length, the
\* verdict of veides_utils_topic_match is the one MQTT prescribes, but for the
\* match it reports where MQTT has none when only one of them begins with "$".
THEOREM VerdictsAgree == Spec => []AgreesWithMQTT
<1>1. Inv /\ Agreed => AgreesWithMQTT
  <2> SUFFICES ASSUME Inv, Agreed, pc = "done", ValidFilter, PlainTopic
               PROVE  match = IF OneDollar THEN ~MQTTMatches ELSE MQTTMatches
    BY DEF AgreesWithMQTT
  <2>0. PICK m \in Nat, n \in Nat : Inside(m, n)
    BY DEF Inv
  <2>1. match \in BOOLEAN /\ CString(sub, m) /\ CString(topic, n)
    BY <2>0 DEF Inside
  <2>2. CASE OneDollar
    <3>1. match = TRUE
      BY <2>2 DEF Agreed
    <3>2. ~MQTTMatches
      BY <2>1, <2>2, OneDollarDiffers
    <3> QED BY <2>2, <3>1, <3>2
  <2>3. CASE ~OneDollar
    <3>1. match = TRUE <=> LevelsMatch
      BY <2>3 DEF Agreed, Agrees
    <3>2. MQTTMatches <=> LevelsMatch
      BY <2>3 DEF MQTTMatches, OneDollar, Wild
    <3>3. MQTTMatches \in BOOLEAN
      BY DEF MQTTMatches
    <3> QED BY <2>1, <2>3, <3>1, <3>2, <3>3
  <2> QED BY <2>2, <2>3
<1> QED
  BY <1>1, InitInside, NextInside, InitAgreed, NextAgreed, PTL DEF Spec

-----------------------------------------------------------------------------
(* The number of steps that a call takes.                                    *)

\* What a phase has before it when neither pointer moves.
PhaseRank(phase) ==
    CASE phase \in {"start", "skip"} -> 3 [] phase = "loop" -> 2 [] phase = "rest" -> 1 [] OTHER -> 0

\* A character of the filter counts twice, for a + that begins a level to skip.
StepsLeft ==
    2 * (Cardinality(DOMAIN sub) - s) + (Cardinality(DOMAIN topic) - t) + PhaseRank(pc)

LEMMA StepsCount ==
    ASSUME NEW m \in Nat, NEW n \in Nat, Inside(m, n)
    PROVE  StepsLeft = 2 * ((m + 1) - s) + ((n + 1) - t) + PhaseRank(pc)
<1>1. DOMAIN sub = 0..m /\ DOMAIN topic = 0..n
  BY DEF Inside, CString
<1>2. Cardinality(0..m) = m + 1 /\ Cardinality(0..n) = n + 1
  BY FS_Interval, 0 \in Int, m \in Int, n \in Int
<1> QED BY <1>1, <1>2 DEF StepsLeft

\* Every step of veides_utils_topic_match brings its verdict nearer, by a count
\* that begins at twice the size of the filter, the size of the topic and three,
\* and cannot fall below zero: no loop of it runs on.
THEOREM StepsRunOut == Spec => [](StepsLeft \in Nat) /\ [][StepsLeft' < StepsLeft]_vars
<1>1. Inv => StepsLeft \in Nat
  <2> SUFFICES ASSUME NEW m \in Nat, NEW n \in Nat, Inside(m, n) PROVE StepsLeft \in Nat
    BY DEF Inv
  <2>1. s \in 0..m /\ t \in 0..n /\ PhaseRank(pc) \in 0..3
    BY DEF Inside, PhaseRank
  <2> QED BY <2>1, StepsCount
<1>2. Inv /\ Next => StepsLeft' < StepsLeft
  <2> SUFFICES ASSUME NEW m \in Nat, NEW n \in Nat, Inside(m, n), Plain(n), Next
               PROVE  StepsLeft' < StepsLeft
    BY DEF Inv
  <2>1. Inside(m, n)'
    BY StepInside
  <2>2. StepsLeft = 2 * ((m + 1) - s) + ((n + 1) - t) + PhaseRank(pc)
    BY StepsCount
  <2>3. StepsLeft' = 2 * ((m + 1) - s') + ((n + 1) - t') + PhaseRank(pc')
    <3>1. (DOMAIN sub)' = 0..m /\ (DOMAIN topic)' = 0..n
      BY <2>1 DEF Inside, CString
    <3>2. Cardinality(0..m) = m + 1 /\ Cardinality(0..n) = n + 1
      BY FS_Interval, 0 \in Int, m \in Int, n \in Int
    <3> QED BY <3>1, <3>2 DEF StepsLeft, PhaseRank
  <2>4. s \in Int /\ t \in Int /\ s' \in Int /\ t' \in Int
    BY <2>1 DEF Inside
  <2>5. /\ \/ s' = s /\ t' = t /\ PhaseRank(pc') < PhaseRank(pc)
           \/ s' = s /\ t' = t + 1 /\ PhaseRank(pc') = PhaseRank(pc)
           \/ s' = s + 1 /\ t' = t /\ PhaseRank(pc') = PhaseRank(pc) + 1
           \/ s' = s + 1 /\ t' = t + 1 /\ PhaseRank(pc') <= PhaseRank(pc)
        /\ PhaseRank(pc) \in 0..3 /\ PhaseRank(pc') \in 0..3
    <3> USE DEF PhaseRank, Done
    <3>1. PhaseRank(pc) \in 0..3 /\ PhaseRank(pc') \in 0..3
      OBVIOUS
    <3>2. CASE Early
      BY <3>1, <3>2 DEF Early
    <3>3. CASE FilterEnds \/ WildcardInTopic \/ BadWildcard \/ Hash \/ Differ
      BY <3>1, <3>3 DEF FilterEnds, WildcardInTopic, BadWildcard, Hash, Differ, InLoop
    <3>4. CASE Plus
      BY <3>1, <3>4 DEF Plus, InLoop
    <3>5. CASE SkipLevel \/ SkipRest
      BY <3>1, <3>5 DEF SkipLevel, SkipRest
    <3>6. CASE Equal
      BY <3>1, <3>6 DEF Equal, InLoop
    <3> QED BY <3>2, <3>3, <3>4, <3>5, <3>6 DEF Next, Step
  <2> HIDE DEF PhaseRank
  <2> QED BY <2>2, <2>3, <2>4, <2>5
<1>3. Inv /\ [Next]_vars => [StepsLeft' < StepsLeft]_vars
  BY <1>2
<1> QED
  BY <1>1, <1>3, InitInside, NextInside, PTL DEF Spec
=============================================================================
