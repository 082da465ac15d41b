----------------------------- MODULE TopicMatch -----------------------------
(***************************************************************************)
(* veides_utils_topic_match: does a topic filter match a topic?  It        *)
(* decides which handler a message is given to and whether setHandler      *)
(* updates an entry or adds one.                                           *)
(*                                                                         *)
(* A string is a function from its offsets to characters whose last value  *)
(* is the terminator.  The two pointers only advance, so each is an offset *)
(* into its string; spos advances with sub and is that same offset.        *)
(***************************************************************************)
EXTENDS Integers, FiniteSets

CONSTANTS
    Letters,    \* characters without a meaning, among them "$"
    MaxSub,     \* bound: length of the filter
    MaxTopic    \* bound: length of the topic

ASSUME LengthsAreNats == MaxSub \in Nat /\ MaxTopic \in Nat
ASSUME LettersArePlain == Letters \cap {"/", "+", "#", "end"} = {}

Nul   == "end"
Wild  == {"+", "#"}
Chars == Letters \cup Wild \cup {"/"}

\* Strings of at most n characters.
CStrings(n) ==
    UNION {{[i \in 0..k |-> IF i = k THEN Nul ELSE f[i]] : f \in [0..k - 1 -> Chars]} :
           k \in 0..n}

VARIABLES
    sub,    \* the filter
    topic,  \* the topic
    s,      \* offset in sub
    t,      \* offset in topic
    pc,     \* "start", "loop", "skip" (a level, for +), "rest" (for #), "done"
    match   \* the verdict: VEIDES_RC_SUCCESS or not

vars == <<sub, topic, s, t, pc, match>>

Done(verdict) == pc' = "done" /\ match' = verdict

\* A NULL is answered like an empty string, and is one here.
Init ==
    /\ sub \in CStrings(MaxSub)
    /\ topic \in CStrings(MaxTopic)
    /\ s = 0 /\ t = 0
    /\ pc = "start"
    /\ match = FALSE

-----------------------------------------------------------------------------

\* A "$" begins just one of the two.
OneDollar == sub[0] = "$" <=> topic[0] # "$"

\* The answers given before the strings are compared: an empty one does not
\* match, and if just one begins with "$" the answer is that they match.
Early ==
    /\ pc = "start"
    /\ IF sub[0] = Nul \/ topic[0] = Nul THEN Done(FALSE)
       ELSE IF OneDollar THEN Done(TRUE)
       ELSE pc' = "loop" /\ UNCHANGED match
    /\ UNCHANGED <<s, t>>

InLoop == pc = "loop" /\ sub[s] # Nul /\ topic[t] \notin Wild

\* The filter is used up.
FilterEnds ==
    /\ pc = "loop" /\ sub[s] = Nul
    /\ Done(topic[t] = Nul)
    /\ UNCHANGED <<s, t>>

WildcardInTopic ==
    /\ pc \in {"loop", "skip", "rest"}
    /\ pc = "loop" => sub[s] # Nul
    /\ topic[t] \in Wild
    /\ Done(FALSE)
    /\ UNCHANGED <<s, t>>

\* A wildcard stands at the start of a level ...
StartsLevel == s > 0 => sub[s - 1] = "/"
\* ... and a + also at its end.
EndsLevel == sub[s + 1] \in {Nul, "/"}

BadWildcard ==
    /\ InLoop
    /\ \/ sub[s] = "+" /\ ~(StartsLevel /\ EndsLevel)
       \/ sub[s] = "#" /\ ~(StartsLevel /\ sub[s + 1] = Nul)
    /\ Done(FALSE)
    /\ UNCHANGED <<s, t>>

Plus ==
    /\ InLoop
    /\ sub[s] = "+" /\ StartsLevel /\ EndsLevel
    /\ s' = s + 1
    /\ pc' = "skip"
    /\ UNCHANGED <<t, match>>

\* Mutant: the terminator does not end the level.
SkipLevelPastEnd ==
    /\ pc = "skip"
    /\ \/ topic[t] \notin Wild \cup {"/"} /\ t' = t + 1 /\ UNCHANGED pc
       \/ topic[t] = "/" /\ pc' = "loop" /\ UNCHANGED t
    /\ UNCHANGED <<s, match>>

\* Mutant: the pointer is not advanced.
SkipLevelStuck ==
    /\ pc = "skip"
    /\ topic[t] \in {Nul, "/"}
    /\ IF topic[t] = Nul /\ sub[s] = Nul THEN Done(TRUE)
                                         ELSE pc' = "loop" /\ UNCHANGED match
    /\ UNCHANGED <<s, t>>

\* The level of the topic that a + stands for.
SkipLevel ==
    /\ pc = "skip"
    /\ \/ /\ topic[t] \notin Wild \cup {Nul, "/"}
          /\ t' = t + 1
          /\ UNCHANGED <<pc, match>>
       \/ /\ topic[t] \in {Nul, "/"}
          /\ IF topic[t] = Nul /\ sub[s] = Nul THEN Done(TRUE)
                                               ELSE pc' = "loop" /\ UNCHANGED match
          /\ UNCHANGED t
    /\ UNCHANGED s

Hash ==
    /\ InLoop
    /\ sub[s] = "#" /\ StartsLevel /\ sub[s + 1] = Nul
    /\ pc' = "rest"
    /\ UNCHANGED <<s, t, match>>

\* Mutant: what a # stands for is not searched for wildcards.
SkipRestUnchecked ==
    /\ pc = "rest"
    /\ IF topic[t] = Nul THEN Done(TRUE) /\ UNCHANGED t
                         ELSE t' = t + 1 /\ UNCHANGED <<pc, match>>
    /\ UNCHANGED s

\* What a # stands for.
SkipRest ==
    /\ pc = "rest"
    /\ topic[t] \notin Wild
    /\ IF topic[t] = Nul THEN Done(TRUE) /\ UNCHANGED t
                         ELSE t' = t + 1 /\ UNCHANGED <<pc, match>>
    /\ UNCHANGED s

\* foo/bar still matches foo/+/#; any other difference is final.
Differ ==
    /\ InLoop
    /\ sub[s] \notin Wild /\ sub[s] # topic[t]
    /\ Done(topic[t] = Nul /\ s > 0 /\ sub[s - 1] = "+" /\ sub[s] = "/" /\ sub[s + 1] = "#")
    /\ UNCHANGED <<s, t>>

\* Mutant: foo does not match foo/#.
NoParentOfHash == FALSE

\* foo matches foo/#.
ParentOfHash ==
    topic[t + 1] = Nul /\ sub[s + 1] = "/" /\ sub[s + 2] = "#" /\ sub[s + 3] = Nul

Equal ==
    /\ InLoop
    /\ sub[s] = topic[t]
    /\ IF ParentOfHash
       THEN Done(TRUE) /\ UNCHANGED <<s, t>>
       ELSE /\ s' = s + 1
            /\ t' = t + 1
            /\ IF topic[t + 1] # Nul THEN pc' = "loop" /\ UNCHANGED match
               ELSE IF sub[s + 1] = Nul THEN Done(TRUE)
               ELSE IF sub[s + 1] = "+" /\ sub[s + 2] = Nul THEN Done(sub[s] = "/")
               ELSE pc' = "loop" /\ UNCHANGED match

Step ==
    \/ Early \/ FilterEnds \/ WildcardInTopic \/ BadWildcard \/ Plus \/ SkipLevel
    \/ Hash \/ SkipRest \/ Differ \/ Equal

Next == Step /\ UNCHANGED <<sub, topic>>

Spec == Init /\ [][Next]_vars /\ WF_vars(Next)

-----------------------------------------------------------------------------
(* Topic matching in MQTT 3.1.1, section 4.7                               *)

\* Levels are separated by slashes and numbered from 0: the level that offset
\* i is in, or ends, and the last level.
LevelOf(str, i) == Cardinality({j \in 0..i - 1 : str[j] = "/"})
LastLevel(str)  == Cardinality({j \in DOMAIN str : str[j] = "/"})

\* A level begins with the string or after a slash.
Begins(str, i)   == i = 0 \/ str[i - 1] = "/"
Start(str, k)    == CHOOSE i \in DOMAIN str : Begins(str, i) /\ LevelOf(str, i) = k
InLevel(str, k)  == {i \in DOMAIN str : LevelOf(str, i) = k /\ str[i] \notin {"/", Nul}}

\* The text of level k, and one that is a single character.
Level(str, k) == [d \in {i - Start(str, k) : i \in InLevel(str, k)} |-> str[Start(str, k) + d]]
Just(c)       == [d \in {0} |-> c]

\* A wildcard takes up a whole level; a # is the last one.
ValidFilter ==
    /\ sub[0] # Nul
    /\ \A i \in DOMAIN sub :
          /\ sub[i] \in Wild => Begins(sub, i)
          /\ sub[i] = "+" => sub[i + 1] \in {"/", Nul}
          /\ sub[i] = "#" => sub[i + 1] = Nul

PlainTopic == topic[0] # Nul /\ \A i \in DOMAIN topic : topic[i] \notin Wild

LevelMatches(k) == Level(sub, k) \in {Just("+"), Level(topic, k)}

EndsInHash == Level(sub, LastLevel(sub)) = Just("#")

\* A # stands for any number of levels, its parent included.
LevelsMatch ==
    IF EndsInHash
    THEN /\ LastLevel(topic) >= LastLevel(sub) - 1
         /\ \A k \in 0..LastLevel(sub) - 1 : LevelMatches(k)
    ELSE /\ LastLevel(topic) = LastLevel(sub)
         /\ \A k \in 0..LastLevel(sub) : LevelMatches(k)

\* A wildcard at the start matches no topic that begins with "$" (4.7.2).
MQTTMatches == LevelsMatch /\ ~(sub[0] \in Wild /\ topic[0] = "$")

-----------------------------------------------------------------------------
(* Properties                                                              *)

\* Types; the pointers stay within their strings.
TypeOK ==
    /\ s \in DOMAIN sub /\ t \in DOMAIN topic
    /\ pc \in {"start", "loop", "skip", "rest", "done"}
    /\ match \in BOOLEAN

\* A topic that holds a wildcard matches no filter, not even itself, unless
\* one of the two begins with "$".  This is why setHandler never finds its own
\* entry for "method/+" again.
WildcardMatchesNothing ==
    pc = "done" /\ match => OneDollar \/ \A i \in DOMAIN topic : topic[i] \notin Wild

\* For every valid filter and every topic without wildcards the verdict is
\* the one MQTT prescribes, so a handler gets the messages its subscription
\* brings in and no others, except that it is the opposite, a match where MQTT
\* has none, whenever just one of the two begins with "$".
AgreesWithMQTT ==
    pc = "done" /\ ValidFilter /\ PlainTopic =>
        match = IF OneDollar THEN ~MQTTMatches ELSE MQTTMatches

\* The scanner comes to its verdict.
Terminates == <>(pc = "done")
=============================================================================
