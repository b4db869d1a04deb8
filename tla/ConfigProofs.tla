----------------------------- MODULE ConfigProofs -----------------------------
(***************************************************************************)
(* Proofs about the parser of the configuration, for every set of files    *)
(* and every width of its integers: what is accepted is what was written,  *)
(* and what is sound is accepted.                                          *)
(***************************************************************************)
EXTENDS ConfigParser, SequenceTheorems, TLAPS

(* The members that have been read.                                        *)
ReadKeys(s) ==
  {Parameters[i].key : i \in {j \in 1 .. read : Parameters[j].section = s}}

(* What has been read was found and converted, and is all that has been    *)
(* set.                                                                    *)
ReadInv ==
  /\ document \in Documents
  /\ read \in 0 .. Len(Parameters)
  /\ outcome = "accepted" => read = Len(Parameters)
  /\ \A i \in 1 .. read :
       Lookup(Parameters[i]) = "found" /\ Converts(Parameters[i])
  /\ cfg_ = [s \in Section |->
               [key \in ReadKeys(s) |-> Converted([section |-> s, key |-> key])]]

-------------------------------------------------------------------------------
(* The parameters.                                                         *)

(* The members of each section are those in its list.                      *)
LEMMA KeysAre ==
  /\ ConfigKeys \in Seq(Members("config"))
  /\ Vda5050Keys \in Seq(Members("vda5050"))
  /\ TeleopKeys \in Seq(Members("teleop"))
  /\ Members("config")  = {ConfigKeys[i] : i \in DOMAIN ConfigKeys}
  /\ Members("vda5050") = {Vda5050Keys[i] : i \in DOMAIN Vda5050Keys}
  /\ Members("teleop")  = {TeleopKeys[i] : i \in DOMAIN TeleopKeys}
<1>1. ConfigKeys \in Seq(Members("config"))
  BY DEF ConfigKeys, Members
<1>2. Vda5050Keys \in Seq(Members("vda5050"))
  BY DEF Vda5050Keys, Members
<1>3. TeleopKeys \in Seq(Members("teleop"))
  BY DEF TeleopKeys, Members
<1> QED
  BY <1>1, <1>2, <1>3 DEF Members

LEMMA Wider ==
  ASSUME NEW S, NEW R, S \subseteq R, NEW s \in Seq(S)
  PROVE  s \in Seq(R)
<1>1. s \in [1 .. Len(s) -> S] /\ Len(s) \in Nat
  BY LenProperties
<1>2. s \in [1 .. Len(s) -> R]
  BY <1>1
<1> QED
  BY <1>1, <1>2

(* In() is a list of the members of one section.                           *)
LEMMA InSection ==
  ASSUME NEW s \in Section, NEW keys \in Seq(Members(s)),
         Members(s) = {keys[i] : i \in DOMAIN keys}
  PROVE  /\ In(s, keys) \in Seq([section : Section, key : Members(s)])
         /\ Len(In(s, keys)) = Len(keys) /\ Len(keys) \in Nat
         /\ \A i \in 1 .. Len(keys) :
              In(s, keys)[i] = [section |-> s, key |-> keys[i]]
         /\ \A key \in Members(s) : \E i \in 1 .. Len(keys) :
              In(s, keys)[i] = [section |-> s, key |-> key]
<1>1. Len(keys) \in Nat /\ DOMAIN keys = 1 .. Len(keys)
  BY LenProperties
<1>2. \A i \in 1 .. Len(keys) : keys[i] \in Members(s)
  BY <1>1
<1>3. In(s, keys) = [i \in 1 .. Len(keys) |-> [section |-> s, key |-> keys[i]]]
  BY <1>1 DEF In
<1>4. In(s, keys) \in [1 .. Len(keys) -> [section : Section, key : Members(s)]]
  BY <1>2, <1>3
<1>5. /\ In(s, keys) \in Seq([section : Section, key : Members(s)])
      /\ Len(In(s, keys)) = Len(keys)
  BY <1>1, <1>3, <1>4
<1> QED
  BY <1>1, <1>3, <1>5

AnyMember == Members("config") \cup Members("vda5050") \cup Members("teleop")

(* Every parameter is a member of a section, and every member is one of    *)
(* them.                                                                   *)
LEMMA ParametersAre ==
  /\ Len(Parameters) \in Nat /\ DOMAIN Parameters = 1 .. Len(Parameters)
  /\ \A i \in 1 .. Len(Parameters) :
       \E s \in Section : \E key \in Members(s) :
         Parameters[i] = [section |-> s, key |-> key]
  /\ \A s \in Section : \A key \in Members(s) :
       \E i \in 1 .. Len(Parameters) :
         Parameters[i] = [section |-> s, key |-> key]
<1> DEFINE R == [section : Section, key : AnyMember]
           a == In("config", ConfigKeys)
           b == In("vda5050", Vda5050Keys)
           c == In("teleop", TeleopKeys)
<1>1. /\ a \in Seq(R) /\ b \in Seq(R) /\ c \in Seq(R)
      /\ Len(a) \in Nat /\ Len(b) \in Nat /\ Len(c) \in Nat
      /\ \A i \in 1 .. Len(a) : \E key \in Members("config") :
           a[i] = [section |-> "config", key |-> key]
      /\ \A i \in 1 .. Len(b) : \E key \in Members("vda5050") :
           b[i] = [section |-> "vda5050", key |-> key]
      /\ \A i \in 1 .. Len(c) : \E key \in Members("teleop") :
           c[i] = [section |-> "teleop", key |-> key]
      /\ \A key \in Members("config") : \E i \in 1 .. Len(a) :
           a[i] = [section |-> "config", key |-> key]
      /\ \A key \in Members("vda5050") : \E i \in 1 .. Len(b) :
           b[i] = [section |-> "vda5050", key |-> key]
      /\ \A key \in Members("teleop") : \E i \in 1 .. Len(c) :
           c[i] = [section |-> "teleop", key |-> key]
  <2>1. ASSUME NEW s \in Section, NEW keys \in Seq(Members(s)),
               Members(s) = {keys[i] : i \in DOMAIN keys},
               Members(s) \subseteq AnyMember
        PROVE  /\ In(s, keys) \in Seq(R) /\ Len(In(s, keys)) \in Nat
               /\ \A i \in 1 .. Len(In(s, keys)) : \E key \in Members(s) :
                    In(s, keys)[i] = [section |-> s, key |-> key]
               /\ \A key \in Members(s) : \E i \in 1 .. Len(In(s, keys)) :
                    In(s, keys)[i] = [section |-> s, key |-> key]
    <3>1. /\ In(s, keys) \in Seq([section : Section, key : Members(s)])
          /\ Len(In(s, keys)) = Len(keys) /\ Len(keys) \in Nat
          /\ \A i \in 1 .. Len(keys) :
               In(s, keys)[i] = [section |-> s, key |-> keys[i]]
          /\ \A key \in Members(s) : \E i \in 1 .. Len(keys) :
               In(s, keys)[i] = [section |-> s, key |-> key]
      BY <2>1, InSection
    <3>2. \A i \in 1 .. Len(keys) : keys[i] \in Members(s)
      OBVIOUS
    <3>3. [section : Section, key : Members(s)] \subseteq R
      BY <2>1
    <3>4. In(s, keys) \in Seq(R)
      <4> HIDE DEF R
      <4> QED
        BY <3>1, <3>3, Wider
    <3> QED
      BY <3>1, <3>2, <3>4
  <2>2. "config" \in Section /\ "vda5050" \in Section /\ "teleop" \in Section
    BY DEF Section
  <2>3. /\ Members("config") \subseteq AnyMember
        /\ Members("vda5050") \subseteq AnyMember
        /\ Members("teleop") \subseteq AnyMember
    BY DEF AnyMember
  <2> HIDE DEF R
  <2> QED
    BY <2>1, <2>2, <2>3, KeysAre
<1> HIDE DEF a, b, c, R
<1>2. /\ a \o b \in Seq(R) /\ Len(a \o b) = Len(a) + Len(b)
      /\ \A i \in 1 .. Len(a) + Len(b) :
           (a \o b)[i] = IF i <= Len(a) THEN a[i] ELSE b[i - Len(a)]
  BY <1>1, ConcatProperties
<1>3. /\ (a \o b) \o c \in Seq(R)
      /\ Len((a \o b) \o c) = Len(a) + Len(b) + Len(c)
      /\ \A i \in 1 .. Len(a) + Len(b) + Len(c) :
           ((a \o b) \o c)[i] = IF i <= Len(a) + Len(b) THEN (a \o b)[i]
                                ELSE c[i - (Len(a) + Len(b))]
  <2>1. a \o b \in Seq(R) /\ c \in Seq(R)
    BY <1>1, <1>2
  <2> QED
    BY <1>1, <1>2, <2>1, ConcatProperties
<1>4. Parameters = (a \o b) \o c
  BY DEF Parameters, a, b, c
<1>5. Len(Parameters) \in Nat /\ DOMAIN Parameters = 1 .. Len(Parameters)
  BY <1>3, <1>4, LenProperties
<1>6. ASSUME NEW i \in 1 .. Len(Parameters)
      PROVE  \E s \in Section : \E key \in Members(s) :
               Parameters[i] = [section |-> s, key |-> key]
  <2>1. \/ i \in 1 .. Len(a) /\ Parameters[i] = a[i]
        \/ i - Len(a) \in 1 .. Len(b) /\ Parameters[i] = b[i - Len(a)]
        \/ /\ i - (Len(a) + Len(b)) \in 1 .. Len(c)
           /\ Parameters[i] = c[i - (Len(a) + Len(b))]
    BY <1>1, <1>2, <1>3, <1>4
  <2>2. "config" \in Section /\ "vda5050" \in Section /\ "teleop" \in Section
    BY DEF Section
  <2>3. CASE i \in 1 .. Len(a) /\ Parameters[i] = a[i]
    <3>1. \E key \in Members("config") :
            Parameters[i] = [section |-> "config", key |-> key]
      <4>1. \E key \in Members("config") : a[i] = [section |-> "config", key |-> key]
        BY <1>1, <2>3
      <4> QED
        BY <2>3, <4>1
    <3> QED
      BY <2>2, <3>1
  <2>4. CASE i - Len(a) \in 1 .. Len(b) /\ Parameters[i] = b[i - Len(a)]
    <3>1. \E key \in Members("vda5050") :
            Parameters[i] = [section |-> "vda5050", key |-> key]
      <4>1. PICK j \in 1 .. Len(b) : Parameters[i] = b[j]
        BY <2>4
      <4>2. \E key \in Members("vda5050") : b[j] = [section |-> "vda5050", key |-> key]
        BY <1>1
      <4> QED
        BY <4>1, <4>2
    <3> QED
      BY <2>2, <3>1
  <2>5. CASE /\ i - (Len(a) + Len(b)) \in 1 .. Len(c)
             /\ Parameters[i] = c[i - (Len(a) + Len(b))]
    <3>1. \E key \in Members("teleop") :
            Parameters[i] = [section |-> "teleop", key |-> key]
      <4>1. PICK j \in 1 .. Len(c) : Parameters[i] = c[j]
        BY <2>5
      <4>2. \E key \in Members("teleop") : c[j] = [section |-> "teleop", key |-> key]
        BY <1>1
      <4> QED
        BY <4>1, <4>2
    <3> QED
      BY <2>2, <3>1
  <2> QED
    BY <2>1, <2>3, <2>4, <2>5
<1>7. ASSUME NEW s \in Section, NEW key \in Members(s)
      PROVE  \E i \in 1 .. Len(Parameters) :
               Parameters[i] = [section |-> s, key |-> key]
  <2>1. CASE s = "config"
    <3>1. PICK i \in 1 .. Len(a) : a[i] = [section |-> s, key |-> key]
      BY <1>1, <2>1
    <3>2. i \in 1 .. Len(Parameters) /\ Parameters[i] = a[i]
      BY <1>1, <1>2, <1>3, <1>4
    <3> QED
      BY <3>1, <3>2
  <2>2. CASE s = "vda5050"
    <3>1. PICK i \in 1 .. Len(b) : b[i] = [section |-> s, key |-> key]
      BY <1>1, <2>2
    <3>2. /\ Len(a) + i \in 1 .. Len(Parameters)
          /\ Parameters[Len(a) + i] = b[i]
      BY <1>1, <1>2, <1>3, <1>4
    <3> QED
      BY <3>1, <3>2
  <2>3. CASE s = "teleop"
    <3>1. PICK i \in 1 .. Len(c) : c[i] = [section |-> s, key |-> key]
      BY <1>1, <2>3
    <3>2. /\ Len(a) + Len(b) + i \in 1 .. Len(Parameters)
          /\ Parameters[Len(a) + Len(b) + i] = c[i]
      BY <1>1, <1>3, <1>4
    <3> QED
      BY <3>1, <3>2
  <2> QED
    BY <2>1, <2>2, <2>3 DEF Section
<1> QED
  BY <1>5, <1>6, <1>7

-------------------------------------------------------------------------------
(* The reading.                                                            *)

LEMMA InitRead == Init => ReadInv
<1> SUFFICES ASSUME Init
             PROVE  ReadInv
  OBVIOUS
<1>1. read = 0 /\ 0 \in 0 .. Len(Parameters) /\ 1 .. read = {}
  BY ParametersAre DEF Init
<1>2. \A s : ReadKeys(s) = {}
  BY <1>1 DEF ReadKeys
<1> QED
  BY <1>1, <1>2 DEF Init, ReadInv

LEMMA GetValueStep ==
  ASSUME ReadInv, read < Len(Parameters), outcome = "reading",
         getValue(Parameter)
  PROVE  ReadInv'
<1>1. /\ Len(Parameters) \in Nat /\ read \in Nat
      /\ read + 1 \in 1 .. Len(Parameters) /\ read' = read + 1
      /\ document' = document /\ outcome' = outcome
  BY ParametersAre DEF ReadInv, getValue
<1>2. PICK t \in Section : \E key : Parameter = [section |-> t, key |-> key]
  <2>1. \E s \in Section : \E key \in Members(s) :
          Parameters[read + 1] = [section |-> s, key |-> key]
    BY <1>1, ParametersAre
  <2> QED
    BY <2>1 DEF Parameter
<1>3. PICK k : Parameter = [section |-> t, key |-> k]
  BY <1>2
<1>4. Parameter.section = t /\ Parameter.key = k
  BY <1>3
<1>5. \A s : ReadKeys(s)' = IF s = t THEN ReadKeys(s) \cup {k} ELSE ReadKeys(s)
  <2>1. 1 .. read' = (1 .. read) \cup {read + 1}
    BY <1>1
  <2> QED
    BY <1>4, <2>1 DEF ReadKeys, Parameter
<1>6. \A p : /\ Lookup(p)' = Lookup(p) /\ Converts(p)' = Converts(p)
             /\ Converted(p)' = Converted(p)
  BY <1>1 DEF Lookup, Converts, Converted, Value
<1>7. \A i \in 1 .. read' :
        Lookup(Parameters[i])' = "found" /\ Converts(Parameters[i])'
  BY <1>1, <1>6 DEF ReadInv, getValue, Parameter
<1>8. cfg_' = [s \in Section |->
                 [key \in ReadKeys(s)' |-> Converted([section |-> s, key |-> key])']]
  <2> DEFINE old(s) == [key \in ReadKeys(s) |->
                          Converted([section |-> s, key |-> key])]
             new(s) == [key \in ReadKeys(s)' |->
                          Converted([section |-> s, key |-> key])]
  <2>1. cfg_ = [s \in Section |-> old(s)]
    BY DEF ReadInv
  <2>2. cfg_[t] = old(t) /\ DOMAIN cfg_[t] = ReadKeys(t)
    BY <2>1
  <2>3. cfg_' = [cfg_ EXCEPT ![t] =
                   [key \in DOMAIN cfg_[t] \cup {k} |->
                      IF key = k THEN Converted(Parameter) ELSE cfg_[t][key]]]
    BY <1>4 DEF getValue
  <2>4. [key \in DOMAIN cfg_[t] \cup {k} |->
           IF key = k THEN Converted(Parameter) ELSE cfg_[t][key]] = new(t)
    BY <1>3, <1>5, <2>2
  <2>5. \A s : s # t => new(s) = old(s)
    BY <1>5
  <2>6. cfg_' = [s \in Section |-> new(s)]
    <3> HIDE DEF old, new
    <3> QED
      BY <2>1, <2>3, <2>4, <2>5
  <2> QED
    BY <1>6, <2>6
<1> QED
  BY <1>1, <1>7, <1>8 DEF ReadInv

LEMMA ReadStep == ReadInv /\ [Next]_vars => ReadInv'
<1> SUFFICES ASSUME ReadInv, [Next]_vars
             PROVE  ReadInv'
  OBVIOUS
<1>1. CASE read < Len(Parameters) /\ outcome = "reading" /\ getValue(Parameter)
  BY <1>1, GetValueStep
<1>2. ASSUME UNCHANGED <<document, read, cfg_>>,
             outcome' = "accepted" => read = Len(Parameters)
      PROVE  ReadInv'
  <2>1. \A p : /\ Lookup(p)' = Lookup(p) /\ Converts(p)' = Converts(p)
               /\ Converted(p)' = Converted(p)
    BY <1>2 DEF Lookup, Converts, Converted, Value
  <2>2. \A s : ReadKeys(s)' = ReadKeys(s)
    BY <1>2 DEF ReadKeys
  <2> QED
    BY <1>2, <2>1, <2>2 DEF ReadInv
<1>3. CASE Accept
  BY <1>2, <1>3 DEF Accept
<1>4. CASE Throw(Parameter)
  BY <1>2, <1>4 DEF Throw
<1>5. CASE UNCHANGED vars
  BY <1>2, <1>5 DEF vars, ReadInv
<1> QED
  BY <1>1, <1>3, <1>4, <1>5 DEF Next, Read, Decided

(* What has been set is what has been read, and what has been read was     *)
(* there.                                                                  *)
THEOREM ReadInvariant == Spec => []ReadInv
  BY InitRead, ReadStep, PTL DEF Spec

-------------------------------------------------------------------------------
(* What a value is converted to.                                           *)

LEMMA ScenarioIs ==
  /\ stringToScenario("vda5050") = "VDA5050"
  /\ stringToScenario("teleop") = "TELEOP"
  /\ \A text : stringToScenario(text) # "" => text \in {"vda5050", "teleop"}
BY DEF stringToScenario

(* An int becomes a uint32_t.                                              *)
LEMMA Unsigned ==
  ASSUME NEW x \in Int, NEW n \in Nat, n > 0, -n <= x, x < n
  PROVE  x % n = IF x >= 0 THEN x ELSE x + n
OBVIOUS

LEMMA IntsFit ==
  ASSUME ReadInv, NEW s \in Section, NEW key \in DOMAIN document[s].keys
  PROVE  /\ document[s].keys[key].int \in Int
         /\ -Word <= document[s].keys[key].int
         /\ document[s].keys[key].int < Word
         /\ Word \in Nat /\ Word > 0
<1>1. document[s].keys[key].int \in -(Word \div 2) .. Word \div 2 - 1
  BY ParserAssumption DEF ReadInv, Readable
<1>2. Word \in Nat /\ Word > 0
  BY ParserAssumption
<1>3. Word \div 2 \in Nat /\ Word \div 2 <= Word
  BY <1>2
<1> QED
  BY <1>1, <1>2, <1>3

(* When all has been read, every member is there and is what it was        *)
(* converted to.                                                           *)
LEMMA AllRead ==
  ASSUME ReadInv, outcome = "accepted", NEW s \in Section, NEW key \in Members(s)
  PROVE  /\ Lookup([section |-> s, key |-> key]) = "found"
         /\ Converts([section |-> s, key |-> key])
         /\ key \in DOMAIN document[s].keys
         /\ key \in DOMAIN cfg_[s]
         /\ cfg_[s][key] = Converted([section |-> s, key |-> key])
<1> DEFINE p == [section |-> s, key |-> key]
<1>1. PICK i \in 1 .. read : Parameters[i] = p
  BY ParametersAre DEF ReadInv
<1>2. p.section = s /\ p.key = key
  OBVIOUS
<1>3. key \in ReadKeys(s)
  BY <1>1, <1>2 DEF ReadKeys
<1>4. Lookup(p) = "found" /\ Converts(p)
  BY <1>1 DEF ReadInv
<1>5. key \in DOMAIN document[s].keys
  BY <1>4 DEF Lookup
<1>6. cfg_[s] = [k \in ReadKeys(s) |-> Converted([section |-> s, key |-> k])]
  BY DEF ReadInv
<1> QED
  BY <1>3, <1>4, <1>5, <1>6

LEMMA WrittenMeaning == ReadInv => AcceptedAsWritten
<1> SUFFICES ASSUME ReadInv, outcome = "accepted",
                    NEW s \in Section, NEW key \in Members(s)
             PROVE  /\ key \in DOMAIN document[s].keys /\ key \in DOMAIN cfg_[s]
                    /\ key = "scenario" =>
                         document[s].keys[key].text =
                           IF cfg_[s][key] = "TELEOP" THEN "teleop" ELSE "vda5050"
                    /\ ~IsText(key) =>
                         cfg_[s][key] =
                           IF IsSigned(key) \/ document[s].keys[key].int >= 0
                           THEN document[s].keys[key].int
                           ELSE document[s].keys[key].int + Word
  BY DEF AcceptedAsWritten
<1> DEFINE p == [section |-> s, key |-> key]
<1>1. /\ Converts(p) /\ key \in DOMAIN document[s].keys
      /\ key \in DOMAIN cfg_[s] /\ cfg_[s][key] = Converted(p)
  BY AllRead
<1>2. p.key = key /\ Value(p) = document[s].keys[key]
  BY DEF Value
<1>3. CASE key = "scenario"
  <2>1. /\ cfg_[s][key] = stringToScenario(document[s].keys[key].text)
        /\ stringToScenario(document[s].keys[key].text) # ""
    BY <1>1, <1>2, <1>3 DEF Converts, Converted
  <2>2. ~IsText(key) => FALSE
    BY <1>3 DEF IsText
  <2>3. document[s].keys[key].text \in {"vda5050", "teleop"}
    BY <2>1, ScenarioIs
  <2>4. document[s].keys[key].text =
          IF cfg_[s][key] = "TELEOP" THEN "teleop" ELSE "vda5050"
    <3>1. CASE document[s].keys[key].text = "teleop"
      BY <2>1, <3>1, ScenarioIs
    <3>2. CASE document[s].keys[key].text = "vda5050"
      <4>1. cfg_[s][key] = "VDA5050"
        BY <2>1, <3>2, ScenarioIs
      <4> QED
        BY <3>2, <4>1
    <3> QED
      BY <2>3, <3>1, <3>2
  <2> QED
    BY <1>1, <1>3, <2>2, <2>4
<1>4. CASE key # "scenario"
  <2>1. /\ ~IsText(key) /\ IsSigned(key) =>
             Converted(p) = document[s].keys[key].int
        /\ ~IsText(key) /\ ~IsSigned(key) =>
             Converted(p) = document[s].keys[key].int % Word
    BY <1>2, <1>4 DEF Converted
  <2>2. document[s].keys[key].int % Word =
          IF document[s].keys[key].int >= 0 THEN document[s].keys[key].int
          ELSE document[s].keys[key].int + Word
    BY <1>1, IntsFit, Unsigned
  <2> QED
    BY <1>1, <1>4, <2>1, <2>2
<1> QED
  BY <1>3, <1>4

(* An accepted configuration says what the file says: no member is         *)
(* forgotten, taken from another section or left as it was made.           *)
THEOREM Written == Spec => []AcceptedAsWritten
  BY WrittenMeaning, ReadInvariant, PTL

-------------------------------------------------------------------------------
(* What is sound starts.                                                   *)

Started == Sound(document) => outcome \notin {"rejected", "terminated"}

LEMMA ScenarioPlace ==
  ASSUME NEW s \in Section, "scenario" \in Members(s)
  PROVE  s = "config"
<1>1. "scenario" \notin Members("vda5050")
  BY DEF Members, Vda5050Keys
<1>2. "scenario" \notin Members("teleop")
  BY DEF Members, TeleopKeys
<1> QED
  BY <1>1, <1>2 DEF Section

LEMMA StartedStep == ReadInv /\ Started /\ [Next]_vars => Started'
<1> SUFFICES ASSUME ReadInv, Started, [Next]_vars
             PROVE  Started'
  OBVIOUS
<1>1. document' = document
  BY DEF Next, Read, getValue, Throw, Accept, Decided, vars
<1>2. Sound(document)' <=> Sound(document)
  BY <1>1
<1>3. CASE outcome' = outcome \/ outcome' = "accepted"
  BY <1>2, <1>3 DEF Started
<1>4. CASE read < Len(Parameters) /\ Throw(Parameter)
  <2> SUFFICES ASSUME Sound(document)
               PROVE  FALSE
    BY <1>2 DEF Started
  <2>1. read + 1 \in DOMAIN Parameters
    <3>1. read \in 0 .. Len(Parameters)
      BY DEF ReadInv
    <3> QED
      BY <1>4, <3>1, ParametersAre
  <2>2. PICK s \in Section : \E key \in Members(s) :
          Parameter = [section |-> s, key |-> key]
    <3>1. \E s \in Section : \E key \in Members(s) :
            Parameters[read + 1] = [section |-> s, key |-> key]
      BY <2>1, ParametersAre
    <3> QED
      BY <3>1 DEF Parameter
  <2>3. PICK key \in Members(s) : Parameter = [section |-> s, key |-> key]
    BY <2>2
  <2>4. /\ document[s].kind = "map" /\ key \in DOMAIN document[s].keys
        /\ document[s].keys[key].kind = IF IsText(key) THEN "text" ELSE "int"
    BY <2>1, <2>3 DEF Sound, Parameter
  <2>5. Lookup(Parameter) = "found"
    BY <2>3, <2>4 DEF Lookup
  <2>6. Converts(Parameter)
    <3>1. Parameter.key = key /\ Value(Parameter) = document[s].keys[key]
      BY <2>3 DEF Value
    <3>2. CASE key = "scenario"
      <4>1. s = "config"
        BY <3>2, ScenarioPlace
      <4>2. document[s].keys[key].text \in {"vda5050", "teleop"}
        BY <3>2, <4>1 DEF Sound
      <4>3. stringToScenario(document[s].keys[key].text) # ""
        BY <4>2, ScenarioIs
      <4> QED
        BY <2>4, <3>1, <3>2, <4>3 DEF Converts, IsText
    <3>3. CASE key # "scenario"
      BY <2>4, <3>1, <3>3 DEF Converts
    <3> QED
      BY <3>2, <3>3
  <2> QED
    BY <1>4, <2>5, <2>6 DEF Throw
<1> QED
  BY <1>3, <1>4 DEF Next, Read, getValue, Accept, Decided, vars

(* The members of the structures of config.hpp, each with its type.        *)
LEMMA ReadNat ==
  ASSUME ReadInv, outcome = "accepted", Sound(document),
         NEW s \in Section, NEW key \in Members(s), ~IsText(key)
  PROVE  /\ cfg_[s][key] \in Nat
         /\ cfg_[s][key] = document[s].keys[key].int
<1>1. /\ key \in DOMAIN document[s].keys
      /\ cfg_[s][key] = IF IsSigned(key) \/ document[s].keys[key].int >= 0
                        THEN document[s].keys[key].int
                        ELSE document[s].keys[key].int + Word
  BY WrittenMeaning DEF AcceptedAsWritten
<1>2. document[s].keys[key].int >= 0
  <2>1. PICK i \in DOMAIN Parameters : Parameters[i] = [section |-> s, key |-> key]
    BY ParametersAre
  <2> QED
    BY <2>1 DEF Sound
<1>3. document[s].keys[key].int \in Int
  BY <1>1, IntsFit
<1> QED
  BY <1>1, <1>2, <1>3

LEMMA AllKeys ==
  ASSUME ReadInv, outcome = "accepted", NEW s \in Section
  PROVE  /\ DOMAIN cfg_[s] = Members(s)
         /\ cfg_[s] = [key \in Members(s) |-> cfg_[s][key]]
<1>1. cfg_[s] = [k \in ReadKeys(s) |-> Converted([section |-> s, key |-> k])]
  BY DEF ReadInv
<1>2. ReadKeys(s) \subseteq Members(s)
  <2> SUFFICES ASSUME NEW i \in 1 .. read, Parameters[i].section = s
               PROVE  Parameters[i].key \in Members(s)
    BY DEF ReadKeys
  <2>1. i \in 1 .. Len(Parameters)
    BY ParametersAre DEF ReadInv
  <2>2. PICK t \in Section : \E key \in Members(t) :
          Parameters[i] = [section |-> t, key |-> key]
    BY <2>1, ParametersAre
  <2> QED
    BY <2>2
<1>3. Members(s) \subseteq ReadKeys(s)
  BY <1>1, AllRead
<1> QED
  BY <1>1, <1>2, <1>3

LEMMA TeleopRecord ==
  ASSUME NEW f, f = [key \in Members("teleop") |-> f[key]],
         \A key \in Members("teleop") : f[key] \in Nat
  PROVE  f \in TeleopConfig
<1>1. Members("teleop") =
        {"start_s", "stop_s", "control_command_period_ms",
         "request_teleoperation_capabilities_after_ms",
         "send_teleoperation_capability_after_request_ms",
         "teleoperation_state_after_toggle_teleop_ms",
         "state_after_toggle_teleop_ms",
         "restart_order_simulation_after_teleoperation_stop_ms",
         "control_stream_start_after_teleop_state_ms"}
  BY DEF Members, TeleopKeys
<1> QED
  BY <1>1 DEF TeleopConfig

OfVda5050 == Members("vda5050") \ {"manufacturer", "serial_number"}

LEMMA Vda5050Record ==
  ASSUME NEW f, f = [member \in OfVda5050 \cup {"teleop_cfg"} |-> f[member]],
         \A member \in OfVda5050 : f[member] \in Nat,
         f["teleop_cfg"] \in TeleopConfig
  PROVE  f \in Vda5050Config
<1>1. OfVda5050 =
        {"visualization_period_ms", "send_connection_after_ms",
         "send_state_after_ms", "send_factsheet_request_after_ms",
         "send_order_after_ms", "start_visualization_after_ms",
         "factsheet_response_time_ms", "send_order_continuation_ms",
         "send_state_after_order_ms", "idle_state_interval_ms",
         "order_finish_step_ms", "next_order_after_finish_ms",
         "order_len_min", "order_len_max"}
  BY DEF OfVda5050, Members, Vda5050Keys
<1> QED
  BY <1>1 DEF Vda5050Config

(* Where the members are, and which are numbers.                           *)
LEMMA Places ==
  /\ "config" \in Section /\ "vda5050" \in Section /\ "teleop" \in Section
  /\ "length_s" \in Members("config") /\ "scenario" \in Members("config")
  /\ "order_len_min" \in OfVda5050 /\ "order_len_max" \in OfVda5050
  /\ ~IsText("length_s") /\ \A key \in OfVda5050 : ~IsText(key)
  /\ \A key \in Members("teleop") : ~IsText(key)
  /\ "teleop_cfg" \notin OfVda5050
<1>1. "config" \in Section /\ "vda5050" \in Section /\ "teleop" \in Section
  BY DEF Section
<1>2. "length_s" \in Members("config") /\ "scenario" \in Members("config")
  BY DEF Members, ConfigKeys
<1>3. /\ "order_len_min" \in OfVda5050 /\ "order_len_max" \in OfVda5050
      /\ \A key \in OfVda5050 : ~IsText(key)
      /\ "teleop_cfg" \notin OfVda5050
  BY DEF OfVda5050, Members, Vda5050Keys, IsText
<1>4. \A key \in Members("teleop") : ~IsText(key)
  BY DEF Members, TeleopKeys, IsText
<1> QED
  BY <1>1, <1>2, <1>3, <1>4 DEF IsText

LEMMA ParsedType ==
  ASSUME ReadInv, outcome = "accepted", Sound(document)
  PROVE  /\ Parsed \in Config
         /\ 1 <= Parsed.vda5050_cfg.order_len_min
         /\ Parsed.vda5050_cfg.order_len_min <= Parsed.vda5050_cfg.order_len_max
<1> DEFINE v == Parsed.vda5050_cfg
<1>1. /\ DOMAIN cfg_["vda5050"] = Members("vda5050")
      /\ \A key \in OfVda5050 : cfg_["vda5050"][key] \in Nat
  BY AllKeys, ReadNat, Places DEF OfVda5050
<1>2. cfg_["teleop"] \in TeleopConfig
  BY AllKeys, ReadNat, Places, TeleopRecord
<1>3. v = [member \in OfVda5050 \cup {"teleop_cfg"} |->
             IF member = "teleop_cfg" THEN cfg_["teleop"]
             ELSE cfg_["vda5050"][member]]
  BY <1>1 DEF Parsed, OfVda5050
<1>4. v \in Vda5050Config
  <2>1. v = [member \in OfVda5050 \cup {"teleop_cfg"} |-> v[member]]
    BY <1>3
  <2>2. \A member \in OfVda5050 : v[member] \in Nat
    BY <1>1, <1>3, Places
  <2>3. v["teleop_cfg"] \in TeleopConfig
    BY <1>2, <1>3
  <2> HIDE DEF v
  <2> QED
    BY <2>1, <2>2, <2>3, Vda5050Record
<1>5. cfg_["config"]["length_s"] \in Nat
  BY ReadNat, Places
<1>6. cfg_["config"]["scenario"] \in Scenario
  <2> DEFINE p == [section |-> "config", key |-> "scenario"]
  <2>1. Converts(p) /\ cfg_["config"]["scenario"] = Converted(p)
    BY AllRead, Places
  <2>2. Converted(p) = stringToScenario(Value(p).text)
    BY DEF Converted
  <2>3. stringToScenario(Value(p).text) # ""
    BY <2>1 DEF Converts
  <2> QED
    BY <2>1, <2>2, <2>3, ScenarioIs DEF Scenario
<1>7. Parsed \in Config
  <2>1. Parsed = [length_s |-> cfg_["config"]["length_s"],
                  scenario |-> cfg_["config"]["scenario"], vda5050_cfg |-> v]
    BY DEF Parsed
  <2> HIDE DEF v
  <2> QED
    BY <1>4, <1>5, <1>6, <2>1 DEF Config
<1>8. /\ v["order_len_min"] = document["vda5050"].keys["order_len_min"].int
      /\ v["order_len_max"] = document["vda5050"].keys["order_len_max"].int
  BY <1>3, ReadNat, Places DEF OfVda5050
<1> QED
  BY <1>7, <1>8 DEF Sound

(* Every file that says what the program needs starts the simulation, with *)
(* a configuration for which everything is true that the proofs about the  *)
(* Controller assume of theirs.                                            *)
THEOREM SoundStart == Spec => []SoundFilesStart
<1>1. Init => Started
  BY DEF Init, Started
<1>2. ReadInv /\ Started => SoundFilesStart
  BY ParsedType DEF Started, SoundFilesStart
<1> QED
  BY <1>1, <1>2, StartedStep, ReadInvariant, PTL DEF Spec
===============================================================================
