---------------------------- MODULE SetupProofs -----------------------------
(***************************************************************************)
(* Proofs about ServiceSetup and the pods of PodSpec, for any set of job   *)
(* specifications and any number of restarts.                              *)
(***************************************************************************)
EXTENDS ServiceSetup, FiniteSetTheorems, SequenceTheorems, TLAPS

-----------------------------------------------------------------------------
(* The command line. *)

Without(s, name) == \A i \in DOMAIN s : s[i] # name

\* The program reads value for the option name, "unset" if there is none.
Has(s, name, value) ==
  \/ value = "unset" /\ Without(s, name)
  \/ \E i \in DOMAIN s : /\ i < Len(s)
                         /\ s[i] = name /\ s[i + 1] = value
                         /\ \A j \in DOMAIN s : s[j] = name => j = i

\* An option begins the words s, if there are any.
BeginsWithOption(s) == s # <<>> => s[1] \in OptionNames

\* How the elements of a concatenation are found.
LEMMA Concatenation ==
  ASSUME NEW S, NEW u \in Seq(S), NEW w \in Seq(S)
  PROVE  /\ u \o w \in Seq(S)
         /\ Len(u) \in Nat /\ Len(w) \in Nat
         /\ DOMAIN u = 1..Len(u) /\ DOMAIN w = 1..Len(w)
         /\ Len(u \o w) = Len(u) + Len(w)
         /\ DOMAIN (u \o w) = 1..(Len(u) + Len(w))
         /\ \A i \in 1..Len(u) : (u \o w)[i] = u[i]
         /\ \A i \in 1..Len(w) : (u \o w)[Len(u) + i] = w[i]
         /\ \A i \in DOMAIN (u \o w) :
              \/ i \in 1..Len(u)
              \/ \E j \in 1..Len(w) : i = Len(u) + j
<1>1. /\ u \o w \in Seq(S)
      /\ Len(u) \in Nat /\ Len(w) \in Nat
      /\ DOMAIN u = 1..Len(u) /\ DOMAIN w = 1..Len(w)
      /\ Len(u \o w) = Len(u) + Len(w)
      /\ DOMAIN (u \o w) = 1..(Len(u) + Len(w))
  OBVIOUS
<1>2. /\ \A i \in 1..Len(u) : (u \o w)[i] = u[i]
      /\ \A i \in 1..Len(w) : (u \o w)[Len(u) + i] = w[i]
  OBVIOUS
<1>3. ASSUME NEW i \in 1..(Len(u) + Len(w)), i \notin 1..Len(u)
      PROVE  \E j \in 1..Len(w) : i = Len(u) + j
  <2>1. i - Len(u) \in 1..Len(w) /\ i = Len(u) + (i - Len(u))
    BY <1>1, <1>3
  <2> QED
    BY <2>1
<1> QED
  BY <1>1, <1>2, <1>3

\* An option that is in neither of two command lines is not in both together.
LEMMA WithoutBoth ==
  ASSUME NEW S, NEW u \in Seq(S), NEW w \in Seq(S), NEW name,
         Without(u, name), Without(w, name)
  PROVE  Without(u \o w, name)
BY Concatenation DEF Without

\* The value of an option is still read when words without it follow.
LEMMA HasLeft ==
  ASSUME NEW S, NEW u \in Seq(S), NEW w \in Seq(S), NEW name, NEW value,
         Has(u, name, value), Without(w, name)
  PROVE  Has(u \o w, name, value)
<1>1. CASE value = "unset" /\ Without(u, name)
  BY <1>1, WithoutBoth DEF Has
<1>2. CASE \E i \in DOMAIN u : /\ i < Len(u)
                               /\ u[i] = name /\ u[i + 1] = value
                               /\ \A j \in DOMAIN u : u[j] = name => j = i
  <2>1. PICK i \in DOMAIN u : /\ i < Len(u)
                              /\ u[i] = name /\ u[i + 1] = value
                              /\ \A j \in DOMAIN u : u[j] = name => j = i
    BY <1>2
  <2>2. i \in 1..Len(u) /\ i + 1 \in 1..Len(u)
    BY <2>1, Concatenation
  <2>3. (u \o w)[i] = name /\ (u \o w)[i + 1] = value
    BY <2>1, <2>2, Concatenation
  <2>4. ASSUME NEW j \in DOMAIN (u \o w), (u \o w)[j] = name
        PROVE  j = i
    BY <2>1, <2>4, Concatenation DEF Without
  <2>5. i \in DOMAIN (u \o w) /\ i < Len(u \o w)
    BY <2>1, <2>2, Concatenation
  <2> QED
    BY <2>3, <2>4, <2>5 DEF Has
<1> QED
  BY <1>1, <1>2 DEF Has

\* ... and when words without it come before.
LEMMA HasRight ==
  ASSUME NEW S, NEW u \in Seq(S), NEW w \in Seq(S), NEW name, NEW value,
         Without(u, name), Has(w, name, value)
  PROVE  Has(u \o w, name, value)
<1>1. CASE value = "unset" /\ Without(w, name)
  BY <1>1, WithoutBoth DEF Has
<1>2. CASE \E i \in DOMAIN w : /\ i < Len(w)
                               /\ w[i] = name /\ w[i + 1] = value
                               /\ \A j \in DOMAIN w : w[j] = name => j = i
  <2>1. PICK i \in DOMAIN w : /\ i < Len(w)
                              /\ w[i] = name /\ w[i + 1] = value
                              /\ \A j \in DOMAIN w : w[j] = name => j = i
    BY <1>2
  <2>2. i \in 1..Len(w) /\ i + 1 \in 1..Len(w) /\ Len(u) + i + 1 = Len(u) + (i + 1)
    BY <2>1, Concatenation
  <2>3. (u \o w)[Len(u) + i] = name /\ (u \o w)[Len(u) + i + 1] = value
    BY <2>1, <2>2, Concatenation
  <2>4. ASSUME NEW j \in DOMAIN (u \o w), (u \o w)[j] = name
        PROVE  j = Len(u) + i
    BY <2>1, <2>4, Concatenation DEF Without
  <2>5. Len(u) + i \in DOMAIN (u \o w) /\ Len(u) + i < Len(u \o w)
    BY <2>1, <2>2, Concatenation
  <2> QED
    BY <2>3, <2>4, <2>5 DEF Has
<1> QED
  BY <1>1, <1>2 DEF Has

\* What an option has for its value is what the program reads.
LEMMA HasRead ==
  ASSUME NEW s, NEW name, NEW value, Has(s, name, value)
  PROVE  Read(s, name) = value
<1>1. CASE value = "unset" /\ Without(s, name)
  BY <1>1 DEF Without, Read
<1>2. CASE \E i \in DOMAIN s : /\ i < Len(s)
                               /\ s[i] = name /\ s[i + 1] = value
                               /\ \A j \in DOMAIN s : s[j] = name => j = i
  <2>1. PICK i \in DOMAIN s : /\ s[i] = name /\ s[i + 1] = value
                              /\ \A j \in DOMAIN s : s[j] = name => j = i
    BY <1>2
  <2>2. {j \in DOMAIN s : s[j] = name} = {i}
    BY <2>1
  <2>3. (CHOOSE j \in {i} : TRUE) = i
    OBVIOUS
  <2> QED
    BY <2>1, <2>2, <2>3 DEF Read
<1> QED
  BY <1>1, <1>2 DEF Has

\* Options that have their values have them after each other.
LEMMA ValuesBoth ==
  ASSUME NEW S, NEW u \in Seq(S), NEW w \in Seq(S), NEW names,
         HasValues(u, names), HasValues(w, names)
  PROVE  HasValues(u \o w, names)
<1> SUFFICES ASSUME NEW i \in DOMAIN (u \o w), (u \o w)[i] \in names
             PROVE  HasValue(u \o w, i)
  BY DEF HasValues
<1>1. CASE i \in 1..Len(u)
  <2>1. HasValue(u, i)
    BY <1>1, Concatenation DEF HasValues
  <2>2. i + 1 \in 1..Len(u)
    BY <1>1, <2>1, Concatenation DEF HasValue
  <2> QED
    BY <1>1, <2>1, <2>2, Concatenation DEF HasValue
<1>2. ASSUME NEW j \in 1..Len(w), i = Len(u) + j
      PROVE  HasValue(u \o w, i)
  <2>1. HasValue(w, j)
    BY <1>2, Concatenation DEF HasValues
  <2>2. j + 1 \in 1..Len(w) /\ i + 1 = Len(u) + (j + 1)
    BY <1>2, <2>1, Concatenation DEF HasValue
  <2> QED
    BY <1>2, <2>1, <2>2, Concatenation DEF HasValue
<1> QED
  BY <1>1, <1>2, Concatenation

\* Words that can be read can be read after each other.
LEMMA ReadableBoth ==
  ASSUME NEW S, NEW u \in Seq(S), NEW w \in Seq(S), Readable(u), Readable(w)
  PROVE  Readable(u \o w)
BY ValuesBoth DEF Readable

\* An option without a value stays one when another option follows.
LEMMA UnreadableLeft ==
  ASSUME NEW S, NEW u \in Seq(S), NEW w \in Seq(S), ~Readable(u), BeginsWithOption(w)
  PROVE  ~Readable(u \o w)
<1>1. PICK i \in DOMAIN u : u[i] \in Valued /\ ~HasValue(u, i)
  BY DEF Readable, HasValues
<1>2. i \in 1..Len(u) /\ i \in DOMAIN (u \o w) /\ (u \o w)[i] = u[i]
  BY Concatenation
<1>3. ~HasValue(u \o w, i)
  <2>1. CASE i < Len(u)
    <3>1. i + 1 \in 1..Len(u)
      BY <1>2, <2>1, Concatenation
    <3> QED
      BY <1>1, <2>1, <3>1, Concatenation DEF HasValue
  <2>2. CASE i = Len(u) /\ Len(w) = 0
    BY <2>2, Concatenation DEF HasValue
  <2>3. CASE i = Len(u) /\ Len(w) > 0
    <3>1. w # <<>> /\ 1 \in 1..Len(w)
      BY <2>3, Concatenation
    <3>2. (u \o w)[i + 1] = w[1]
      BY <2>3, <3>1, Concatenation
    <3> QED
      BY <3>1, <3>2 DEF HasValue, BeginsWithOption
  <2> QED
    BY <1>2, <2>1, <2>2, <2>3, Concatenation
<1> QED
  BY <1>1, <1>2, <1>3 DEF Readable, HasValues

\* ... and when it comes last.
LEMMA UnreadableRight ==
  ASSUME NEW S, NEW u \in Seq(S), NEW w \in Seq(S), ~Readable(w)
  PROVE  ~Readable(u \o w)
<1>1. PICK i \in DOMAIN w : w[i] \in Valued /\ ~HasValue(w, i)
  BY DEF Readable, HasValues
<1>2. /\ i \in 1..Len(w) /\ Len(u) + i \in DOMAIN (u \o w)
      /\ (u \o w)[Len(u) + i] = w[i]
  BY Concatenation
<1>3. ~HasValue(u \o w, Len(u) + i)
  <2>1. CASE i < Len(w)
    <3>1. i + 1 \in 1..Len(w) /\ Len(u) + i + 1 = Len(u) + (i + 1)
      BY <1>2, <2>1, Concatenation
    <3> QED
      BY <1>1, <2>1, <3>1, Concatenation DEF HasValue
  <2>2. CASE i = Len(w)
    BY <2>2, Concatenation DEF HasValue
  <2> QED
    BY <1>2, <2>1, <2>2, Concatenation
<1> QED
  BY <1>1, <1>2, <1>3 DEF Readable, HasValues

\* An option and its value, put together.
LEMMA TwoWords ==
  ASSUME NEW a, NEW b
  PROVE  <<a>> \o <<b>> = <<a, b>>
<1>1. <<a>> \in Seq({a, b}) /\ <<b>> \in Seq({a, b}) /\ <<a, b>> \in Seq({a, b})
  OBVIOUS
<1>2. /\ <<a>> \o <<b>> \in Seq({a, b})
      /\ Len(<<a>> \o <<b>>) = 2
      /\ (<<a>> \o <<b>>)[1] = a /\ (<<a>> \o <<b>>)[2] = b
  BY <1>1
<1>3. \A i \in 1..2 : (<<a>> \o <<b>>)[i] = <<a, b>>[i]
  BY <1>2
<1> QED
  BY <1>1, <1>2, <1>3, SeqEqual

\* What is left out has no words.
LEMMA NoWords ==
  /\ <<>> \in Seq(CommandWords) /\ BeginsWithOption(<<>>) /\ Readable(<<>>)
  /\ \A n : Without(<<>>, n) /\ Has(<<>>, n, "unset")
<1>1. <<>> \in Seq(CommandWords) /\ DOMAIN <<>> = {}
  OBVIOUS
<1> QED
  BY <1>1 DEF BeginsWithOption, Readable, HasValues, Without, Has

\* One option of the command line.
LEMMA OptionWords ==
  ASSUME NEW name \in Valued, NEW given \in BOOLEAN, NEW value,
         given => value \in ValueWords \cup {"empty"}
  PROVE  LET s == Option(name, given, value)
         IN  /\ s \in Seq(CommandWords)
             /\ BeginsWithOption(s)
             /\ \A n \in OptionNames : n # name => Without(s, n)
             /\ given /\ value # "empty" => Has(s, name, value) /\ Readable(s)
             /\ ~given => Has(s, name, "unset") /\ Readable(s)
             /\ given /\ value = "empty" => ~Readable(s)
<1> DEFINE s == Option(name, given, value)
<1>1. name \in CommandWords /\ name \in OptionNames
  BY DEF CommandWords, OptionNames
<1>2. CASE ~given
  <2>1. s = <<>>
    BY <1>2 DEF Option
  <2> HIDE DEF s
  <2>2. /\ s \in Seq(CommandWords) /\ BeginsWithOption(s) /\ Readable(s)
        /\ \A n : Without(s, n) /\ Has(s, n, "unset")
    BY <2>1, NoWords
  <2> QED
    BY <1>2, <2>2 DEF s
<1>3. CASE given /\ value = "empty"
  <2>1. s = <<name>>
    BY <1>3 DEF Option, Words
  <2> HIDE DEF s
  <2>2. s \in Seq(CommandWords) /\ DOMAIN s = {1} /\ s[1] = name /\ Len(s) = 1
    BY <1>1, <2>1
  <2>3. BeginsWithOption(s) /\ \A n \in OptionNames : n # name => Without(s, n)
    BY <1>1, <2>2 DEF BeginsWithOption, Without
  <2>4. ~Readable(s)
    BY <2>2 DEF Readable, HasValues, HasValue
  <2> QED
    BY <1>3, <2>2, <2>3, <2>4 DEF s
<1>4. CASE given /\ value \in ValueWords
  <2>1. value # "empty" /\ value \in CommandWords /\ value \notin OptionNames
    BY <1>4 DEF CommandWords, ValueWords, OptionNames, Valued
  <2>2. s = <<name, value>>
    BY <1>4, <2>1, TwoWords DEF Option, Words
  <2> HIDE DEF s
  <2>3. /\ s \in Seq(CommandWords) /\ DOMAIN s = {1, 2} /\ Len(s) = 2
        /\ s[1] = name /\ s[2] = value
    BY <1>1, <2>1, <2>2
  <2>4. BeginsWithOption(s) /\ \A n \in OptionNames : n # name => Without(s, n)
    BY <1>1, <2>1, <2>3 DEF BeginsWithOption, Without
  <2>5. Has(s, name, value)
    <3>1. 1 \in DOMAIN s /\ 1 < Len(s) /\ s[1] = name /\ s[1 + 1] = value
      BY <2>3
    <3>2. \A j \in DOMAIN s : s[j] = name => j = 1
      BY <1>1, <2>1, <2>3
    <3> QED
      BY <3>1, <3>2 DEF Has
  <2>6. Readable(s)
    BY <2>1, <2>3 DEF Readable, HasValues, HasValue, OptionNames
  <2> QED
    BY <1>4, <2>1, <2>3, <2>4, <2>5, <2>6 DEF s
<1> QED
  BY <1>2, <1>3, <1>4

\* --log_samples has no value.
LEMMA LogSamplesWord ==
  ASSUME NEW given \in BOOLEAN
  PROVE  LET s == Option("--log_samples", given, "empty")
         IN  /\ s \in Seq(CommandWords)
             /\ BeginsWithOption(s) /\ Readable(s)
             /\ \A n \in Valued : Without(s, n)
<1> DEFINE s == Option("--log_samples", given, "empty")
<1>1. s = <<>> \/ s = <<"--log_samples">>
  BY DEF Option, Words
<1> "--log_samples" \in CommandWords
  BY DEF CommandWords, OptionNames
<1> HIDE DEF s
<1>2. s \in Seq(CommandWords) /\ \A i \in DOMAIN s : s[i] = "--log_samples"
  <2>1. CASE s = <<>>
    BY <2>1
  <2>2. CASE s = <<"--log_samples">>
    BY <2>2
  <2> QED
    BY <1>1, <2>1, <2>2
<1>3. BeginsWithOption(s) /\ Readable(s) /\ \A n \in Valued : Without(s, n)
  BY <1>1, <1>2 DEF BeginsWithOption, Readable, HasValues, Without, OptionNames, Valued
<1> QED
  BY <1>2, <1>3 DEF s

NoEmptyList(spec) == spec.modelArgs # "empty" /\ spec.genArgs # "empty"

\* Words without the options of a list have no such option without a value.
LEMMA NoListOptions ==
  ASSUME NEW s, \A n \in ListOptions : Without(s, n)
  PROVE  HasValues(s, ListOptions)
BY DEF HasValues, Without

\* Words that can be read have the values of the lists.
LEMMA ReadableLists ==
  ASSUME NEW s, Readable(s)
  PROVE  HasValues(s, ListOptions)
BY DEF Readable, HasValues, ListOptions, Valued

\* What the program reads from the command line of a job: the limit in any case;
\* the rest if no list is there but empty.
LEMMA CommandLine ==
  ASSUME NEW spec \in JobSpecs
  PROVE  LET args == GenerateArgs(spec)
         IN  /\ args \in Seq(CommandWords)
             /\ Read(args, "--limit") = spec.limit
             /\ NoEmptyList(spec) =>
                  /\ HasValues(args, ListOptions)
                  /\ Readable(args) <=> spec.model = "given" /\ spec.tasks = "given"
                  /\ Read(args, "--model_args") = Given(spec.modelArgs)
                  /\ Read(args, "--gen_kwargs") = Given(spec.genArgs)
                  /\ Read(args, "--num_fewshot") = Given(spec.numFewShot)
             /\ spec.model = "given" => Read(args, "--model") = "given"
             /\ spec.tasks = "given" => Read(args, "--tasks") = "given"
<1> DEFINE p0 == Option("--model", TRUE, spec.model)
           p1 == Option("--model_args", spec.modelArgs # "nil", spec.modelArgs)
           p2 == Option("--tasks", TRUE, spec.tasks)
           p3 == Option("--num_fewshot", spec.numFewShot # "nil", spec.numFewShot)
           p4 == Option("--limit", spec.limit # "unset", spec.limit)
           p5 == Option("--gen_kwargs", spec.genArgs # "nil", spec.genArgs)
           p6 == Option("--log_samples", spec.logSamples = "true", "empty")
           q1 == p0 \o p1
           q2 == q1 \o p2
           q3 == q2 \o p3
           q4 == q3 \o p4
           q5 == q4 \o p5
           q6 == q5 \o p6
<1>1. GenerateArgs(spec) = q6
  BY DEF GenerateArgs
<1>2. /\ spec.modelArgs \in {"nil", "empty", "given"}
      /\ spec.genArgs \in {"nil", "empty", "given"}
      /\ spec.model \in {"empty", "given"}
      /\ spec.tasks \in {"empty", "given"} /\ spec.numFewShot \in {"nil", "given"}
      /\ spec.limit \in {"unset", "int", "fraction", "float", "text"}
  BY DEF JobSpecs, Limits
<1>n. /\ "--model_args" \in Valued /\ "--tasks" \in Valued /\ "--num_fewshot" \in Valued
      /\ "--limit" \in Valued /\ "--gen_kwargs" \in Valued /\ "--model" \in Valued
      /\ Valued \subseteq OptionNames /\ ListOptions \subseteq Valued
  BY DEF Valued, OptionNames, ListOptions
<1>p0. /\ p0 \in Seq(CommandWords) /\ BeginsWithOption(p0)
       /\ \A n \in Valued : n # "--model" => Without(p0, n)
       /\ Readable(p0) <=> spec.model = "given"
       /\ spec.model = "given" => Has(p0, "--model", "given")
  BY <1>2, <1>n, OptionWords DEF ValueWords
<1>p1. /\ p1 \in Seq(CommandWords) /\ BeginsWithOption(p1)
       /\ \A n \in Valued : n # "--model_args" => Without(p1, n)
       /\ spec.modelArgs # "empty" =>
            Has(p1, "--model_args", Given(spec.modelArgs)) /\ Readable(p1)
  BY <1>2, <1>n, OptionWords DEF ValueWords, Given
<1>p2. /\ p2 \in Seq(CommandWords) /\ BeginsWithOption(p2)
       /\ \A n \in Valued : n # "--tasks" => Without(p2, n)
       /\ Readable(p2) <=> spec.tasks = "given"
       /\ spec.tasks = "given" => Has(p2, "--tasks", "given")
  BY <1>2, <1>n, OptionWords DEF ValueWords
<1>p3. /\ p3 \in Seq(CommandWords) /\ BeginsWithOption(p3)
       /\ \A n \in Valued : n # "--num_fewshot" => Without(p3, n)
       /\ Has(p3, "--num_fewshot", Given(spec.numFewShot)) /\ Readable(p3)
  BY <1>2, <1>n, OptionWords DEF ValueWords, Given
<1>p4. /\ p4 \in Seq(CommandWords) /\ BeginsWithOption(p4)
       /\ \A n \in Valued : n # "--limit" => Without(p4, n)
       /\ Has(p4, "--limit", spec.limit) /\ Readable(p4)
  <2>1. spec.limit # "unset" => spec.limit \in ValueWords /\ spec.limit # "empty"
    BY <1>2 DEF ValueWords
  <2>2. CASE spec.limit # "unset"
    BY <2>1, <2>2, <1>n, OptionWords
  <2>3. CASE spec.limit = "unset"
    <3>1. p4 = <<>>
      BY <2>3 DEF Option
    <3> HIDE DEF p4
    <3> QED
      BY <2>3, <3>1, NoWords
  <2> QED
    BY <2>2, <2>3
<1>p5. /\ p5 \in Seq(CommandWords) /\ BeginsWithOption(p5)
       /\ \A n \in Valued : n # "--gen_kwargs" => Without(p5, n)
       /\ spec.genArgs # "empty" =>
            Has(p5, "--gen_kwargs", Given(spec.genArgs)) /\ Readable(p5)
  BY <1>2, <1>n, OptionWords DEF ValueWords, Given
<1>p6. /\ p6 \in Seq(CommandWords) /\ BeginsWithOption(p6) /\ Readable(p6)
       /\ \A n \in Valued : Without(p6, n)
  BY LogSamplesWord
<1> HIDE DEF p0, p1, p2, p3, p4, p5, p6
<1>q1. q1 \in Seq(CommandWords)
  BY <1>p0, <1>p1
<1> HIDE DEF q1
<1>q. /\ q2 \in Seq(CommandWords) /\ q3 \in Seq(CommandWords) /\ q4 \in Seq(CommandWords)
      /\ q5 \in Seq(CommandWords) /\ q6 \in Seq(CommandWords)
  BY <1>q1, <1>p2, <1>p3, <1>p4, <1>p5, <1>p6
<1> HIDE DEF q2, q3, q4, q5, q6
<1>w1. \A n \in Valued \ {"--model", "--model_args"} : Without(q1, n)
  BY <1>p0, <1>p1, WithoutBoth DEF q1
<1>w2. \A n \in Valued \ {"--model", "--model_args", "--tasks"} : Without(q2, n)
  BY <1>q1, <1>w1, <1>p2, WithoutBoth DEF q2
<1>w3. \A n \in {"--limit", "--gen_kwargs"} : Without(q3, n)
  BY <1>n, <1>q, <1>w2, <1>p3, WithoutBoth DEF q3
<1>w4. Without(q4, "--gen_kwargs")
  BY <1>n, <1>q, <1>w3, <1>p4, WithoutBoth DEF q4
<1>3. Has(q6, "--limit", spec.limit)
  <2>1. Has(q4, "--limit", spec.limit)
    BY <1>q, <1>p4, <1>w3, HasRight DEF q4
  <2>2. Has(q5, "--limit", spec.limit)
    BY <1>n, <1>q, <1>p5, <2>1, HasLeft DEF q5
  <2> QED
    BY <1>n, <1>q, <1>p6, <2>2, HasLeft DEF q6
<1>4. Has(q6, "--num_fewshot", Given(spec.numFewShot))
  <2>w. Without(q2, "--num_fewshot")
    BY <1>n, <1>w2
  <2>1. Has(q3, "--num_fewshot", Given(spec.numFewShot))
    BY <1>q, <1>p3, <2>w, HasRight DEF q3
  <2>2. Has(q4, "--num_fewshot", Given(spec.numFewShot))
    BY <1>n, <1>q, <1>p4, <2>1, HasLeft DEF q4
  <2>3. Has(q5, "--num_fewshot", Given(spec.numFewShot))
    BY <1>n, <1>q, <1>p5, <2>2, HasLeft DEF q5
  <2> QED
    BY <1>n, <1>q, <1>p6, <2>3, HasLeft DEF q6
<1>5. ASSUME spec.genArgs # "empty"
      PROVE  Has(q6, "--gen_kwargs", Given(spec.genArgs))
  <2>1. Has(q5, "--gen_kwargs", Given(spec.genArgs))
    BY <1>5, <1>n, <1>q, <1>p5, <1>w4, HasRight DEF q5
  <2> QED
    BY <1>n, <1>q, <1>p6, <2>1, HasLeft DEF q6
\* What the first words say is still read when the others follow.
<1>6. ASSUME NEW name \in {"--model", "--model_args"}, NEW value, Has(q1, name, value)
      PROVE  Has(q6, name, value)
  <2>1. Has(q2, name, value)
    BY <1>6, <1>n, <1>q1, <1>p2, HasLeft DEF q2
  <2>2. Has(q3, name, value)
    BY <1>n, <1>q, <1>p3, <2>1, HasLeft DEF q3
  <2>3. Has(q4, name, value)
    BY <1>n, <1>q, <1>p4, <2>2, HasLeft DEF q4
  <2>4. Has(q5, name, value)
    BY <1>n, <1>q, <1>p5, <2>3, HasLeft DEF q5
  <2> QED
    BY <1>n, <1>q, <1>p6, <2>4, HasLeft DEF q6
<1>7. ASSUME spec.modelArgs # "empty"
      PROVE  Has(q6, "--model_args", Given(spec.modelArgs))
  <2>1. Has(q1, "--model_args", Given(spec.modelArgs))
    BY <1>7, <1>n, <1>p0, <1>p1, HasRight DEF q1
  <2> QED
    BY <1>6, <2>1
<1>8. ASSUME spec.model = "given"
      PROVE  Has(q6, "--model", "given")
  <2>1. Has(q1, "--model", "given")
    BY <1>8, <1>n, <1>p0, <1>p1, HasLeft DEF q1
  <2> QED
    BY <1>6, <2>1
<1>9. ASSUME spec.tasks = "given"
      PROVE  Has(q6, "--tasks", "given")
  <2>1. Has(q2, "--tasks", "given")
    BY <1>9, <1>n, <1>q1, <1>w1, <1>p2, HasRight DEF q2
  <2>2. Has(q3, "--tasks", "given")
    BY <1>n, <1>q, <1>p3, <2>1, HasLeft DEF q3
  <2>3. Has(q4, "--tasks", "given")
    BY <1>n, <1>q, <1>p4, <2>2, HasLeft DEF q4
  <2>4. Has(q5, "--tasks", "given")
    BY <1>n, <1>q, <1>p5, <2>3, HasLeft DEF q5
  <2> QED
    BY <1>n, <1>q, <1>p6, <2>4, HasLeft DEF q6
<1>10. ASSUME NoEmptyList(spec)
       PROVE  Readable(q6) <=> spec.model = "given" /\ spec.tasks = "given"
  <2>1. CASE spec.model = "given" /\ spec.tasks = "given"
    <3>1. Readable(q1)
      BY <1>10, <2>1, <1>p0, <1>p1, ReadableBoth DEF q1, NoEmptyList
    <3>2. Readable(q2)
      BY <2>1, <3>1, <1>q1, <1>p2, ReadableBoth DEF q2
    <3>3. Readable(q3)
      BY <3>2, <1>q, <1>p3, ReadableBoth DEF q3
    <3>4. Readable(q4)
      BY <3>3, <1>q, <1>p4, ReadableBoth DEF q4
    <3>5. Readable(q5)
      BY <1>10, <3>4, <1>q, <1>p5, ReadableBoth DEF q5, NoEmptyList
    <3> QED
      BY <2>1, <3>5, <1>q, <1>p6, ReadableBoth DEF q6
  <2>2. CASE spec.model # "given" \/ spec.tasks # "given"
    <3>1. ~Readable(q2)
      <4>1. CASE spec.model # "given"
        <5>1. ~Readable(q1)
          BY <4>1, <1>p0, <1>p1, UnreadableLeft DEF q1
        <5> QED
          BY <5>1, <1>q1, <1>p2, UnreadableLeft DEF q2
      <4>2. CASE spec.tasks # "given"
        BY <4>2, <1>q1, <1>p2, UnreadableRight DEF q2
      <4> QED
        BY <2>2, <4>1, <4>2
    <3>2. ~Readable(q3)
      BY <3>1, <1>q, <1>p3, UnreadableLeft DEF q3
    <3>3. ~Readable(q4)
      BY <3>2, <1>q, <1>p4, UnreadableLeft DEF q4
    <3>4. ~Readable(q5)
      BY <3>3, <1>q, <1>p5, UnreadableLeft DEF q5
    <3> QED
      BY <2>2, <3>4, <1>q, <1>p6, UnreadableLeft DEF q6
  <2> QED
    BY <2>1, <2>2
<1>11. ASSUME NoEmptyList(spec)
       PROVE  HasValues(q6, ListOptions)
  <2>1. HasValues(p0, ListOptions) /\ HasValues(p2, ListOptions)
    <3>1. \A n \in ListOptions : n \in Valued /\ n # "--model" /\ n # "--tasks"
      BY DEF ListOptions, Valued
    <3> QED
      BY <3>1, <1>p0, <1>p2, NoListOptions
  <2>2. /\ HasValues(p1, ListOptions) /\ HasValues(p3, ListOptions)
        /\ HasValues(p4, ListOptions) /\ HasValues(p5, ListOptions)
        /\ HasValues(p6, ListOptions)
    BY <1>11, <1>p1, <1>p3, <1>p4, <1>p5, <1>p6, ReadableLists DEF NoEmptyList
  <2>3. HasValues(q1, ListOptions)
    BY <2>1, <2>2, <1>p0, <1>p1, ValuesBoth DEF q1
  <2>4. HasValues(q2, ListOptions)
    BY <2>1, <2>3, <1>q1, <1>p2, ValuesBoth DEF q2
  <2>5. HasValues(q3, ListOptions)
    BY <2>2, <2>4, <1>q, <1>p3, ValuesBoth DEF q3
  <2>6. HasValues(q4, ListOptions)
    BY <2>2, <2>5, <1>q, <1>p4, ValuesBoth DEF q4
  <2>7. HasValues(q5, ListOptions)
    BY <2>2, <2>6, <1>q, <1>p5, ValuesBoth DEF q5
  <2> QED
    BY <2>2, <2>7, <1>q, <1>p6, ValuesBoth DEF q6
<1> QED
  BY <1>1, <1>q, <1>3, <1>4, <1>5, <1>7, <1>8, <1>9, <1>10, <1>11, HasRead DEF NoEmptyList

-----------------------------------------------------------------------------
(* The environment. *)

\* A set of numbers has a least one.
LEMMA LeastNumber ==
  ASSUME NEW T \in SUBSET Nat, T # {}
  PROVE  \E m \in T : \A k \in T : m <= k
<1> DEFINE R == OpToRel(<, Nat)
<1>1. IsWellFoundedOn(R, Nat)
  BY NatLessThanWellFounded, Zenon
<1> HIDE DEF R
<1>2. PICK m \in T : \A k \in T : <<k, m>> \notin R
  BY <1>1, WFMin, Zenon
<1>3. ASSUME NEW k \in T
      PROVE  ~(k < m)
  <2>1. k \in Nat /\ m \in Nat
    OBVIOUS
  <2>2. k < m => <<k, m>> \in R
    BY <2>1 DEF R, OpToRel
  <2> QED
    BY <1>2, <2>2
<1>4. \A k \in T : m <= k
  BY <1>3
<1> QED
  BY <1>4

\* A set of numbers up to n has a greatest one.
LEMMA GreatestNumber ==
  ASSUME NEW n \in Nat, NEW T \in SUBSET 1..n, T # {}
  PROVE  \E m \in T : \A k \in T : k <= m
<1> DEFINE D == {n - k : k \in T}
<1>1. D \in SUBSET Nat /\ D # {}
  <2>1. \A k \in T : n - k \in Nat
    OBVIOUS
  <2>2. PICK k : k \in T
    OBVIOUS
  <2> QED
    BY <2>1, <2>2
<1> HIDE DEF D
<1>2. PICK d \in D : \A e \in D : d <= e
  BY <1>1, LeastNumber
<1>3. PICK m \in T : d = n - m
  BY DEF D
<1>4. ASSUME NEW k \in T
      PROVE  k <= m
  <2>1. n - k \in D /\ n - m \in D
    BY DEF D
  <2>2. n - m <= n - k
    BY <1>2, <1>3, <2>1
  <2> QED
    BY <2>2
<1> QED
  BY <1>4

\* Of a set of numbers up to N some element is the n-th, for every n up to the
\* number of its elements.
LEMMA NthElement ==
  ASSUME NEW N \in Nat, NEW G \in SUBSET 1..N, NEW n \in 1..Cardinality(G)
  PROVE  \E i \in G : Cardinality(G \cap 1..i) = n
<1> DEFINE c(i) == Cardinality(G \cap 1..i)
<1>1. IsFiniteSet(G)
  <2>1. IsFiniteSet(1..N)
    BY FS_Interval
  <2> QED
    BY <2>1, FS_Subset
<1>2. \A i \in Nat : IsFiniteSet(G \cap 1..i) /\ c(i) \in Nat
  BY <1>1, FS_Subset, FS_CardinalityType
<1>3. c(0) = 0
  <2>1. G \cap 1..0 = {}
    OBVIOUS
  <2> QED
    BY <2>1, FS_EmptySet
<1>4. c(N) = Cardinality(G)
  <2>1. G \cap 1..N = G
    OBVIOUS
  <2> QED
    BY <2>1
<1>5. ASSUME NEW i \in Nat
      PROVE  c(i + 1) = IF i + 1 \in G THEN c(i) + 1 ELSE c(i)
  <2>1. CASE i + 1 \in G
    <3>1. G \cap 1..(i + 1) = (G \cap 1..i) \cup {i + 1} /\ i + 1 \notin G \cap 1..i
      BY <2>1
    <3> QED
      BY <1>2, <2>1, <3>1, FS_AddElement
  <2>2. CASE i + 1 \notin G
    <3>1. G \cap 1..(i + 1) = G \cap 1..i
      BY <2>2
    <3> QED
      BY <2>2, <3>1
  <2> QED
    BY <2>1, <2>2
<1> HIDE DEF c
<1>6. Cardinality(G) \in Nat /\ n \in Nat /\ n > 0 /\ n <= Cardinality(G)
  BY <1>1, FS_CardinalityType
<1> DEFINE T == {i \in Nat : c(i) >= n}
<1>7. N \in T
  BY <1>4, <1>6
<1>8. PICK i \in T : \A k \in T : i <= k
  BY <1>7, LeastNumber
<1>9. i \in Nat /\ c(i) >= n
  OBVIOUS
<1>10. i # 0
  BY <1>3, <1>6, <1>9
<1>11. i - 1 \in Nat /\ i = (i - 1) + 1
  BY <1>9, <1>10
<1>12. ~(c(i - 1) >= n)
  BY <1>8, <1>9, <1>11
<1> HIDE DEF T
<1>13. c(i) = IF i \in G THEN c(i - 1) + 1 ELSE c(i - 1)
  BY <1>5, <1>11
<1>14. i \in G /\ c(i) = n
  <2>1. c(i) \in Nat /\ c(i - 1) \in Nat
    BY <1>2, <1>9, <1>11
  <2> QED
    BY <1>6, <1>9, <1>12, <1>13, <2>1
<1> QED
  BY <1>14 DEF c

\* The variables of the job: a name, and a text or a reference.
LEMMA JobVariables ==
  ASSUME NEW envSecrets \in Seq([env : Texts, text : BOOLEAN, ref : BOOLEAN])
  PROVE  GenerateEnvs(envSecrets) \in Seq([name : Texts, value : {"text", "ref"}])
<1> DEFINE given  == {i \in DOMAIN envSecrets : envSecrets[i].text \/ envSecrets[i].ref}
           nth(n) == CHOOSE i \in given : Cardinality(given \cap 1..i) = n
           entry(n) == [name |-> envSecrets[nth(n)].env,
                        value |-> IF envSecrets[nth(n)].text THEN "text" ELSE "ref"]
           envs == [n \in 1..Cardinality(given) |-> entry(n)]
<1>1. GenerateEnvs(envSecrets) = envs
  BY DEF GenerateEnvs
<1>2. DOMAIN envSecrets = 1..Len(envSecrets) /\ Len(envSecrets) \in Nat
  OBVIOUS
<1>3. Cardinality(given) \in Nat
  <2>1. IsFiniteSet(DOMAIN envSecrets)
    BY <1>2, FS_Interval
  <2> QED
    BY <2>1, FS_Subset, FS_CardinalityType
<1>4. ASSUME NEW n \in 1..Cardinality(given)
      PROVE  entry(n) \in [name : Texts, value : {"text", "ref"}]
  <2>1. \E i \in given : Cardinality(given \cap 1..i) = n
    BY <1>2, NthElement
  <2>2. nth(n) \in given
    BY <2>1
  <2>3. envSecrets[nth(n)] \in [env : Texts, text : BOOLEAN, ref : BOOLEAN]
    <3>1. nth(n) \in 1..Len(envSecrets)
      BY <1>2, <2>2
    <3> HIDE DEF nth
    <3> QED
      BY <3>1, ElementOfSeq
  <2> HIDE DEF nth
  <2> QED
    BY <2>3
<1> DEFINE E == [name : Texts, value : {"text", "ref"}]
           C == Cardinality(given)
<1>5. C \in Nat /\ \A n \in 1..C : entry(n) \in E
  BY <1>3, <1>4
<1> HIDE DEF C, entry, E
<1>6. [n \in 1..C |-> entry(n)] \in Seq(E)
  BY <1>5
<1> QED
  BY <1>1, <1>6 DEF C, E

\* The sequences over a set are sequences over a larger one.
LEMMA WiderSeq ==
  ASSUME NEW S, NEW T, S \subseteq T, NEW s \in Seq(S)
  PROVE  s \in Seq(T)
OBVIOUS

\* Entry k of w is the last entry for its variable in the pod p.
LastEntry(p, S, u, w, k) ==
  /\ u \in Seq(S) /\ w \in Seq(S)
  /\ p.envs = u \o w
  /\ k \in 1..Len(w)
  /\ \A j \in 1..Len(w) : w[j].name = w[k].name => j = k

\* It is the one that counts.
LEMMA LastEntryCounts ==
  ASSUME NEW p, NEW S, NEW u, NEW w, NEW k, LastEntry(p, S, u, w, k)
  PROVE  EnvValue(p, w[k].name) = w[k].value
<1> USE DEF LastEntry
<1> DEFINE name == w[k].name
           entries == {i \in DOMAIN p.envs : p.envs[i].name = name}
           last(i) == \A j \in entries : j <= i
<1>1. Len(u) + k \in entries /\ (u \o w)[Len(u) + k] = w[k]
  BY Concatenation
<1>2. entries \subseteq Nat /\ last(Len(u) + k)
  BY Concatenation
<1>3. (CHOOSE i \in entries : last(i)) = Len(u) + k
  <2>1. \A i \in entries : last(i) => i = Len(u) + k
    <3> SUFFICES ASSUME NEW i \in entries, last(i)
                 PROVE  i = Len(u) + k
      OBVIOUS
    <3>1. i <= Len(u) + k /\ Len(u) + k <= i
      BY <1>1, <1>2
    <3>2. i \in Nat /\ Len(u) + k \in Nat
      BY <1>1, <1>2
    <3> HIDE DEF entries, last, LastEntry
    <3> QED
      BY <3>1, <3>2
  <2> HIDE DEF entries, last
  <2> QED
    BY <1>1, <1>2, <2>1
<1> QED
  BY <1>1, <1>3 DEF EnvValue

\* The value of a variable is that of one of its entries.
FromEntry(p, name) ==
  \E i \in DOMAIN p.envs : p.envs[i].name = name /\ EnvValue(p, name) = p.envs[i].value

\* So it is if the variable has a value.
LEMMA ValueOfEntry ==
  ASSUME NEW S, NEW p, p.envs \in Seq(S)
  PROVE  \A name : EnvValue(p, name) # "unset" => FromEntry(p, name)
<1> SUFFICES ASSUME NEW name, EnvValue(p, name) # "unset"
             PROVE  FromEntry(p, name)
  OBVIOUS
<1> DEFINE entries == {i \in DOMAIN p.envs : p.envs[i].name = name}
           last(i) == \A j \in entries : j <= i
<1>1. entries # {}
  BY DEF EnvValue
<1>2. entries \in SUBSET (1..Len(p.envs)) /\ Len(p.envs) \in Nat
  OBVIOUS
<1>3. EnvValue(p, name) = p.envs[CHOOSE i \in entries : last(i)].value
  BY <1>1 DEF EnvValue
<1>4. (CHOOSE i \in entries : last(i)) \in entries
  <2>1. \E i \in entries : last(i)
    <3> HIDE DEF entries
    <3> QED
      BY <1>1, <1>2, GreatestNumber
  <2> HIDE DEF entries, last
  <2> QED
    BY <2>1
<1> QED
  BY <1>3, <1>4 DEF FromEntry

\* The driver of a pod with TLS variables finds the certificates where they are
\* mounted, and speaks the protocol of the mode unless the job brings client
\* certificates of its own.
LEMMA DriverUsesTLS ==
  ASSUME NEW envSecrets \in Seq([env : Texts, text : BOOLEAN, ref : BOOLEAN]),
         NEW mode \in {"TLS", "mTLS"},
         NEW p, p.envs = GenerateEnvs(envSecrets) \o TLSEnvs(mode)
  PROVE  /\ EnvValue(p, "GRPC_SERVER_CA") = "serverCerts"
         /\ mode = "mTLS" => \A v \in ClientVariables : EnvValue(p, v) = "clientCerts"
         /\ DriverMode(p) # mode =>
              /\ mode = "TLS" /\ DriverMode(p) = "mTLS"
              /\ \A v \in ClientVariables : EnvValue(p, v) \in {"text", "ref"}
<1> DEFINE u == GenerateEnvs(envSecrets)
           w == TLSEnvs(mode)
           S == [name : Texts, value : {"text", "ref"}]
           T == S \cup {w[i] : i \in DOMAIN w}
<1>1. u \in Seq(S)
  BY JobVariables
<1>e. p.envs = u \o w
  OBVIOUS
<1>2. CASE mode = "TLS"
  <2>1. w = <<[name |-> "GRPC_SERVER_CA", value |-> "serverCerts"]>>
    BY <1>2 DEF TLSEnvs, ServerCA
  <2> HIDE DEF u, w, S
  <2>2. u \in Seq(T) /\ w \in Seq(T) /\ Len(w) = 1
    BY <1>1, <2>1
  <2>3. w[1].name = "GRPC_SERVER_CA" /\ w[1].value = "serverCerts" /\ 1 \in 1..Len(w)
    BY <2>1
  <2> HIDE DEF T
  <2>4. EnvValue(p, "GRPC_SERVER_CA") = "serverCerts"
    <3>1. LastEntry(p, T, u, w, 1)
      BY <1>e, <2>2, <2>3 DEF LastEntry
    <3>2. EnvValue(p, w[1].name) = w[1].value
      BY <3>1, LastEntryCounts
    <3> QED
      BY <2>3, <3>2
  <2>5. ASSUME NEW v \in ClientVariables, EnvValue(p, v) # "unset"
        PROVE  EnvValue(p, v) \in {"text", "ref"}
    <3>1. p.envs \in Seq(T)
      BY <1>e, <2>2
    <3>2. PICK i \in DOMAIN p.envs : p.envs[i].name = v /\ EnvValue(p, v) = p.envs[i].value
      <4>1. FromEntry(p, v)
        BY <2>5, <3>1, ValueOfEntry
      <4> QED
        BY <4>1 DEF FromEntry
    <3>3. v # w[1].name
      BY <2>3 DEF ClientVariables
    <3>4. i \in 1..Len(u) /\ p.envs[i] = u[i]
      BY <1>e, <2>2, <3>2, <3>3, Concatenation
    <3>5. u[i] \in S
      BY <1>1, <3>4, ElementOfSeq
    <3> QED
      BY <3>2, <3>4, <3>5 DEF S
  <2> QED
    BY <1>2, <2>4, <2>5 DEF DriverMode, ClientVariables
<1>3. CASE mode = "mTLS"
  <2>1. w = <<[name |-> "GRPC_CLIENT_KEY", value |-> "clientCerts"],
              [name |-> "GRPC_CLIENT_CERT", value |-> "clientCerts"],
              [name |-> "GRPC_SERVER_CA", value |-> "serverCerts"]>>
    BY <1>3 DEF TLSEnvs, ServerCA
  <2> HIDE DEF u, w, S
  <2>2. u \in Seq(T) /\ w \in Seq(T) /\ Len(w) = 3
    BY <1>1, <2>1
  <2>3. /\ w[1].name = "GRPC_CLIENT_KEY" /\ w[1].value = "clientCerts"
        /\ w[2].name = "GRPC_CLIENT_CERT" /\ w[2].value = "clientCerts"
        /\ w[3].name = "GRPC_SERVER_CA" /\ w[3].value = "serverCerts"
    BY <2>1
  <2> HIDE DEF T
  <2>4. EnvValue(p, "GRPC_SERVER_CA") = "serverCerts"
    <3>1. LastEntry(p, T, u, w, 3)
      BY <1>e, <2>2, <2>3 DEF LastEntry
    <3>2. EnvValue(p, w[3].name) = w[3].value
      BY <3>1, LastEntryCounts
    <3> QED
      BY <2>3, <3>2
  <2>5. EnvValue(p, "GRPC_CLIENT_KEY") = "clientCerts"
    <3>1. LastEntry(p, T, u, w, 1)
      BY <1>e, <2>2, <2>3 DEF LastEntry
    <3>2. EnvValue(p, w[1].name) = w[1].value
      BY <3>1, LastEntryCounts
    <3> QED
      BY <2>3, <3>2
  <2>6. EnvValue(p, "GRPC_CLIENT_CERT") = "clientCerts"
    <3>1. LastEntry(p, T, u, w, 2)
      BY <1>e, <2>2, <2>3 DEF LastEntry
    <3>2. EnvValue(p, w[2].name) = w[2].value
      BY <3>1, LastEntryCounts
    <3> QED
      BY <2>3, <3>2
  <2> QED
    BY <1>3, <2>4, <2>5, <2>6 DEF DriverMode, ClientVariables
<1> QED
  BY <1>2, <1>3

\* The variables of a pod are variables.
LEMMA PodVariables ==
  ASSUME NEW spec \in JobSpecs, NEW mode \in TLSMode
  PROVE  PodEnvs(spec, mode) \in Seq(Variables)
<1>1. spec.envSecrets \in Seq([env : Texts, text : BOOLEAN, ref : BOOLEAN])
  BY DEF JobSpecs
<1>2. GenerateEnvs(spec.envSecrets) \in Seq(Variables)
  <2>1. [name : Texts, value : {"text", "ref"}] \subseteq Variables
    BY DEF Variables
  <2> QED
    BY <1>1, <2>1, JobVariables, WiderSeq
<1>3. TLSEnvs(mode) \in Seq(Variables)
  <2>1. /\ ServerCA \in Variables
        /\ [name |-> "GRPC_CLIENT_KEY", value |-> "clientCerts"] \in Variables
        /\ [name |-> "GRPC_CLIENT_CERT", value |-> "clientCerts"] \in Variables
    BY DEF Variables, DriverVariables, ClientVariables, ServerCA
  <2> QED
    BY <2>1 DEF TLSEnvs, TLSMode
<1> QED
  BY <1>2, <1>3 DEF PodEnvs

-----------------------------------------------------------------------------
(* Volumes and mounts. *)

\* The names of the settings.
LEMMA SettingNames ==
  Settings = {"GrpcPort", "GrpcService", "GrpcServerSecret", "GrpcClientSecret"}
BY DEF Settings, Fields

\* The volumes of the TLS mode and where they are mounted.
LEMMA TLSParts ==
  ASSUME NEW mode \in TLSMode,
         NEW server \in SecretNames, NEW client \in SecretNames
  PROVE  LET v == TLSVolumes(mode, server, client)
             m == TLSMounts(mode)
         IN  /\ v \in Seq(Volumes)
             /\ m \in Seq(Mounts)
             /\ Len(m) = Len(v)
             /\ mode = "None" <=> Len(v) = 0
             /\ \A i \in 1..Len(v) :
                  /\ v[i].name = m[i].name
                  /\ v[i].name.word \in {"client-cert", "server-cert"}
                  /\ v[i].secret \in {server, client}
             /\ \A i, j \in 1..Len(v) : v[i].name = v[j].name => i = j
<1> DEFINE v == TLSVolumes(mode, server, client)
           m == TLSMounts(mode)
<1>n. Name("server-cert") \in VolumeNames /\ Name("client-cert") \in VolumeNames
  BY DEF Name, VolumeNames
<1>1. CASE mode = "None"
  <2>1. v = <<>> /\ m = <<>>
    BY <1>1 DEF TLSVolumes, TLSMounts
  <2> HIDE DEF v, m
  <2>2. v \in Seq(Volumes) /\ m \in Seq(Mounts) /\ Len(v) = 0 /\ Len(m) = 0
    BY <2>1
  <2> QED
    BY <1>1, <2>2 DEF v, m
<1>2. CASE mode = "TLS"
  <2>1. /\ v = <<[name |-> Name("server-cert"), secret |-> server]>>
        /\ m = <<[name |-> Name("server-cert"), path |-> "serverCerts"]>>
    BY <1>2 DEF TLSVolumes, TLSMounts
  <2> HIDE DEF v, m
  <2>2. v \in Seq(Volumes) /\ m \in Seq(Mounts) /\ Len(v) = 1 /\ Len(m) = 1
    BY <1>n, <2>1 DEF Volumes, Mounts
  <2>3. /\ v[1].name = m[1].name /\ v[1].secret = server
        /\ v[1].name.word = "server-cert"
    BY <2>1 DEF Name
  <2> QED
    BY <1>2, <2>2, <2>3 DEF v, m
<1>3. CASE mode = "mTLS"
  <2>1. /\ v = <<[name |-> Name("client-cert"), secret |-> client],
                 [name |-> Name("server-cert"), secret |-> server]>>
        /\ m = <<[name |-> Name("client-cert"), path |-> "clientCerts"],
                 [name |-> Name("server-cert"), path |-> "serverCerts"]>>
    BY <1>3 DEF TLSVolumes, TLSMounts
  <2> HIDE DEF v, m
  <2>2. v \in Seq(Volumes) /\ m \in Seq(Mounts) /\ Len(v) = 2 /\ Len(m) = 2
    BY <1>n, <2>1 DEF Volumes, Mounts
  <2>3. /\ v[1].name = m[1].name /\ v[1].secret = client
        /\ v[2].name = m[2].name /\ v[2].secret = server
        /\ v[1].name.word = "client-cert" /\ v[2].name.word = "server-cert"
    BY <2>1 DEF Name
  <2> QED
    BY <1>3, <2>2, <2>3 DEF v, m
<1> QED
  BY <1>1, <1>2, <1>3 DEF TLSMode

\* The elements of a sequence put together from one element, k and n more.
ThreeParts(s, x, y, z, k, n) ==
  /\ k \in Nat /\ n \in Nat
  /\ DOMAIN s = 1..(1 + k + n)
  /\ s[1] = x[1]
  /\ \A i \in 1..k : s[1 + i] = y[i]
  /\ \A i \in 1..n : s[1 + k + i] = z[i]

\* The parts of a sequence that was put together of three.
LEMMA PutTogether ==
  ASSUME NEW S, NEW x \in Seq(S), NEW y \in Seq(S), NEW z \in Seq(S), Len(x) = 1
  PROVE  ThreeParts((x \o y) \o z, x, y, z, Len(y), Len(z))
<1> DEFINE q == x \o y
           s == q \o z
<1>1. /\ q \in Seq(S) /\ Len(q) = 1 + Len(y) /\ Len(y) \in Nat /\ Len(z) \in Nat
      /\ q[1] = x[1]
      /\ \A i \in 1..Len(y) : q[1 + i] = y[i]
  <2>1. /\ q \in Seq(S) /\ Len(q) = Len(x) + Len(y) /\ Len(y) \in Nat
        /\ \A i \in 1..Len(x) : q[i] = x[i]
        /\ \A i \in 1..Len(y) : q[Len(x) + i] = y[i]
    BY Concatenation, SMTT(30)
  <2>z. Len(z) \in Nat
    OBVIOUS
  <2>2. 1 \in 1..Len(x)
    OBVIOUS
  <2> HIDE DEF q
  <2> QED
    BY <2>1, <2>2, <2>z
<1> HIDE DEF q
<1>2. /\ DOMAIN s = 1..(1 + Len(y) + Len(z))
      /\ \A i \in 1..(1 + Len(y)) : s[i] = q[i]
      /\ \A i \in 1..Len(z) : s[1 + Len(y) + i] = z[i]
  <2>1. /\ DOMAIN s = 1..(Len(q) + Len(z))
        /\ \A i \in 1..Len(q) : s[i] = q[i]
        /\ \A i \in 1..Len(z) : s[Len(q) + i] = z[i]
    <3>1. q \in Seq(S)
      BY <1>1
    <3> QED
      BY <3>1, Concatenation
  <2> HIDE DEF s
  <2> QED
    BY <1>1, <2>1
<1> HIDE DEF s
<1>3. 1 \in 1..(1 + Len(y)) /\ \A i \in 1..Len(y) : 1 + i \in 1..(1 + Len(y))
  BY <1>1
<1>4. s[1] = x[1] /\ \A i \in 1..Len(y) : s[1 + i] = y[i]
  BY <1>1, <1>2, <1>3
<1> QED
  BY <1>1, <1>2, <1>4 DEF ThreeParts, s, q

\* Such a sequence has no other elements.
LEMMA PartsAreAll ==
  ASSUME NEW k \in Nat, NEW n \in Nat, NEW i \in 1..(1 + k + n)
  PROVE  \/ i = 1
         \/ \E j \in 1..k : i = 1 + j
         \/ \E j \in 1..n : i = 1 + k + j
<1>1. CASE i > 1 /\ i <= 1 + k
  <2>1. i - 1 \in 1..k /\ i = 1 + (i - 1)
    BY <1>1
  <2> QED
    BY <2>1
<1>2. CASE i > 1 + k
  <2>1. i - (1 + k) \in 1..n /\ i = 1 + k + (i - (1 + k))
    BY <1>2
  <2> QED
    BY <2>1
<1> QED
  BY <1>1, <1>2

\* Where the volumes and mounts of a composed pod come from: first the shared
\* directory, then the certificates of the TLS mode, then the file secrets.
LEMMA PodParts ==
  ASSUME NEW ns, NEW spec \in JobSpecs, NEW mode \in TLSMode,
         NEW server \in SecretNames, NEW client \in SecretNames, NEW settings
  PROVE  LET p == ComposedPod(ns, spec, mode, server, client, settings)
             v == TLSVolumes(mode, server, client)
             k == Len(v)
             n == Len(spec.fileSecrets)
         IN  /\ p.volumes \in Seq(Volumes) /\ p.mounts \in Seq(Mounts)
             /\ ThreeParts(p.volumes,
                           <<[name |-> Name("shared"), secret |-> <<"none", "none">>]>>, v,
                           FileVolumes(spec.fileSecrets), k, n)
             /\ ThreeParts(p.mounts, <<[name |-> Name("shared"), path |-> "bin"]>>,
                           TLSMounts(mode), FileMounts(spec.fileSecrets), k, n)
<1> DEFINE fs == spec.fileSecrets
           n == Len(fs)
           v0 == <<[name |-> Name("shared"), secret |-> <<"none", "none">>]>>
           v == TLSVolumes(mode, server, client)
           vf == FileVolumes(fs)
           m0 == <<[name |-> Name("shared"), path |-> "bin"]>>
           m == TLSMounts(mode)
           mf == FileMounts(fs)
           p == ComposedPod(ns, spec, mode, server, client, settings)
<1>1. fs \in Seq([secret : Texts, path : Texts])
  BY DEF JobSpecs
<1>2. n \in Nat /\ DOMAIN fs = 1..n
  BY <1>1
<1>3. v \in Seq(Volumes) /\ m \in Seq(Mounts) /\ Len(m) = Len(v)
  BY TLSParts
<1>4. p.volumes = (v0 \o v) \o vf /\ p.mounts = (m0 \o m) \o mf
  BY DEF ComposedPod
<1>5. ASSUME NEW i \in 1..n
      PROVE  fs[i].secret \in Texts /\ fs[i].path \in Texts
  <2>1. fs[i] \in [secret : Texts, path : Texts]
    BY <1>1, ElementOfSeq
  <2> HIDE DEF fs
  <2> QED
    BY <2>1
<1> HIDE DEF p, n, fs
<1>7. vf \in Seq(Volumes) /\ Len(vf) = n
  <2> DEFINE volume(i) == [name |-> [word |-> "secVol", number |-> i],
                           secret |-> <<"file", fs[i].secret>>]
  <2>1. vf = [i \in 1..n |-> volume(i)]
    BY <1>2 DEF FileVolumes
  <2>2. ASSUME NEW i \in 1..n
        PROVE  volume(i) \in Volumes
    BY <1>2, <1>5 DEF Volumes, VolumeNames
  <2> HIDE DEF volume
  <2>3. /\ [i \in 1..n |-> volume(i)] \in Seq(Volumes)
        /\ Len([i \in 1..n |-> volume(i)]) = n
    BY <1>2, <2>2
  <2> QED
    BY <2>1, <2>3
<1>8. mf \in Seq(Mounts) /\ Len(mf) = n
  <2> DEFINE mount(i) == [name |-> [word |-> "secVol", number |-> i],
                          path |-> fs[i].path]
  <2>1. mf = [i \in 1..n |-> mount(i)]
    BY <1>2 DEF FileMounts
  <2>2. ASSUME NEW i \in 1..n
        PROVE  mount(i) \in Mounts
    BY <1>2, <1>5 DEF Mounts, VolumeNames
  <2> HIDE DEF mount
  <2>3. /\ [i \in 1..n |-> mount(i)] \in Seq(Mounts)
        /\ Len([i \in 1..n |-> mount(i)]) = n
    BY <1>2, <2>2
  <2> QED
    BY <2>1, <2>3
<1>9. /\ v0 \in Seq(Volumes) /\ Len(v0) = 1
      /\ m0 \in Seq(Mounts) /\ Len(m0) = 1
  <2>1. Name("shared") \in VolumeNames
    BY DEF Name, VolumeNames
  <2> QED
    BY <2>1 DEF Volumes, Mounts
<1> HIDE DEF v0, v, vf, m0, m, mf
<1>10. ThreeParts(p.volumes, v0, v, vf, Len(v), n) /\ p.volumes \in Seq(Volumes)
  <2>1. ThreeParts((v0 \o v) \o vf, v0, v, vf, Len(v), Len(vf))
    BY <1>3, <1>7, <1>9, PutTogether
  <2>2. (v0 \o v) \o vf \in Seq(Volumes)
    BY <1>3, <1>7, <1>9
  <2> QED
    BY <2>1, <2>2, <1>4, <1>7
<1>11. ThreeParts(p.mounts, m0, m, mf, Len(v), n) /\ p.mounts \in Seq(Mounts)
  <2>1. ThreeParts((m0 \o m) \o mf, m0, m, mf, Len(m), Len(mf))
    BY <1>3, <1>8, <1>9, PutTogether
  <2>2. (m0 \o m) \o mf \in Seq(Mounts)
    BY <1>3, <1>8, <1>9
  <2> QED
    BY <2>1, <2>2, <1>3, <1>4, <1>8
<1> QED
  BY <1>7, <1>8, <1>10, <1>11 DEF p, v0, v, vf, m0, m, mf, n, fs

\* What createPod composes is a pod.
LEMMA PodType ==
  ASSUME NEW ns \in Namespaces \cup {"none"}, NEW spec \in JobSpecs, NEW mode \in TLSMode,
         NEW server \in SecretNames, NEW client \in SecretNames,
         NEW settings \in [Settings -> {"default", "config"}]
  PROVE  ComposedPod(ns, spec, mode, server, client, settings) \in Pods
<1> DEFINE p == ComposedPod(ns, spec, mode, server, client, settings)
<1>1. p.volumes \in Seq(Volumes) /\ p.mounts \in Seq(Mounts)
  BY PodParts
<1>2. PodEnvs(spec, mode) \in Seq(Variables)
  BY PodVariables
<1>3. GenerateArgs(spec) \in Seq(CommandWords)
  BY CommandLine
<1>4. GenerateCmd(settings) \in [service : {"default", "config"}, port : {"default", "config"}]
  <2>1. "GrpcService" \in Settings /\ "GrpcPort" \in Settings
    BY SettingNames
  <2> QED
    BY <2>1 DEF GenerateCmd
<1>5. p = [namespace |-> ns, envs |-> PodEnvs(spec, mode), volumes |-> p.volumes,
           mounts |-> p.mounts, cmd |-> GenerateCmd(settings), args |-> GenerateArgs(spec)]
  BY DEF ComposedPod
<1> HIDE DEF p
<1>6. p \in Pods
  BY <1>1, <1>2, <1>3, <1>4, <1>5 DEF Pods
<1> QED
  BY <1>6 DEF p

\* The mounts of a composed pod are of its volumes, one by one; no two volumes
\* have one name; and there are certificates only if the mode says so.
LEMMA VolumesFit ==
  ASSUME NEW ns, NEW spec \in JobSpecs, NEW mode \in TLSMode,
         NEW server \in SecretNames, NEW client \in SecretNames, NEW settings
  PROVE  LET p == ComposedPod(ns, spec, mode, server, client, settings)
         IN  /\ \A i \in DOMAIN p.mounts :
                  \E j \in DOMAIN p.volumes : p.volumes[j].name = p.mounts[i].name
             /\ \A i, j \in DOMAIN p.volumes :
                  p.volumes[i].name = p.volumes[j].name => i = j
             /\ \A i \in DOMAIN p.volumes :
                  p.volumes[i].name.word \in {"client-cert", "server-cert"}
                    => mode # "None" /\ p.volumes[i].secret \in {server, client}
<1> DEFINE p  == ComposedPod(ns, spec, mode, server, client, settings)
           v0 == <<[name |-> Name("shared"), secret |-> <<"none", "none">>]>>
           v  == TLSVolumes(mode, server, client)
           vf == FileVolumes(spec.fileSecrets)
           m0 == <<[name |-> Name("shared"), path |-> "bin"]>>
           m  == TLSMounts(mode)
           mf == FileMounts(spec.fileSecrets)
           k  == Len(v)
           n  == Len(spec.fileSecrets)
           V  == p.volumes
           M  == p.mounts
<1>1. ThreeParts(V, v0, v, vf, k, n) /\ ThreeParts(M, m0, m, mf, k, n)
  BY PodParts
<1>2. \A i \in 1..n : /\ vf[i].name = [word |-> "secVol", number |-> i]
                      /\ mf[i].name = [word |-> "secVol", number |-> i]
  <2>1. DOMAIN spec.fileSecrets = 1..n
    BY DEF JobSpecs
  <2> HIDE DEF n
  <2> QED
    BY <2>1 DEF FileVolumes, FileMounts
<1>3. /\ mode = "None" <=> k = 0
      /\ \A i \in 1..k : /\ v[i].name = m[i].name
                         /\ v[i].name.word \in {"client-cert", "server-cert"}
                         /\ v[i].secret \in {server, client}
      /\ \A i, j \in 1..k : v[i].name = v[j].name => i = j
  BY TLSParts
<1>4. v0[1].name.word = "shared" /\ v0[1].name = m0[1].name
  BY DEF Name
<1> HIDE DEF p, v0, v, vf, m0, m, mf, k, n, V, M
<1>5. k \in Nat /\ n \in Nat /\ DOMAIN V = 1..(1 + k + n) /\ DOMAIN M = 1..(1 + k + n)
  BY <1>1 DEF ThreeParts
<1>6. V[1].name.word = "shared" /\ V[1].name = M[1].name
  BY <1>1, <1>4 DEF ThreeParts
<1>7. ASSUME NEW a \in 1..k
      PROVE  /\ V[1 + a].name = v[a].name /\ M[1 + a].name = v[a].name
             /\ V[1 + a].name.word \in {"client-cert", "server-cert"}
             /\ V[1 + a].secret \in {server, client}
             /\ mode # "None"
  <2>1. V[1 + a] = v[a] /\ M[1 + a] = m[a]
    BY <1>1 DEF ThreeParts
  <2>2. k # 0
    BY <1>5
  <2> QED
    BY <1>3, <2>1, <2>2
<1>8. ASSUME NEW a \in 1..n
      PROVE  /\ V[1 + k + a].name = M[1 + k + a].name
             /\ V[1 + k + a].name.word = "secVol"
             /\ V[1 + k + a].name.number = a
  <2>1. V[1 + k + a] = vf[a] /\ M[1 + k + a] = mf[a]
    BY <1>1 DEF ThreeParts
  <2>2. V[1 + k + a].name = [word |-> "secVol", number |-> a]
    BY <1>2, <2>1
  <2>3. M[1 + k + a].name = [word |-> "secVol", number |-> a]
    BY <1>2, <2>1
  <2> QED
    BY <2>2, <2>3
<1>9. ASSUME NEW i \in DOMAIN V
      PROVE  \/ i = 1
             \/ \E a \in 1..k : i = 1 + a
             \/ \E a \in 1..n : i = 1 + k + a
  <2>1. i \in 1..(1 + k + n)
    BY <1>5
  <2> QED
    BY <1>5, <2>1, PartsAreAll
<1>10. ASSUME NEW i \in DOMAIN V
       PROVE  /\ V[i].name = M[i].name
              /\ V[i].name.word = "shared" => i = 1
              /\ V[i].name.word \in {"client-cert", "server-cert"} =>
                   \E a \in 1..k : i = 1 + a
              /\ V[i].name.word = "secVol" => i = 1 + k + V[i].name.number
  <2>1. CASE i = 1
    BY <1>6, <2>1
  <2>2. CASE \E a \in 1..k : i = 1 + a
    <3>1. PICK a \in 1..k : i = 1 + a
      BY <2>2
    <3>2. V[i].name = M[i].name /\ V[i].name.word \in {"client-cert", "server-cert"}
      BY <1>7, <3>1
    <3> QED
      BY <2>2, <3>2
  <2>3. CASE \E a \in 1..n : i = 1 + k + a
    <3>1. PICK a \in 1..n : i = 1 + k + a
      BY <2>3
    <3>2. /\ V[i].name = M[i].name /\ V[i].name.word = "secVol"
          /\ V[i].name.number = a
      BY <1>8, <3>1
    <3> QED
      BY <3>1, <3>2
  <2> QED
    BY <1>9, <2>1, <2>2, <2>3
<1>11. ASSUME NEW i \in DOMAIN V, V[i].name.word \in {"client-cert", "server-cert"}
       PROVE  mode # "None" /\ V[i].secret \in {server, client}
  <2>1. PICK a \in 1..k : i = 1 + a
    BY <1>10, <1>11
  <2> QED
    BY <1>7, <2>1
<1>12. ASSUME NEW i \in DOMAIN V, NEW j \in DOMAIN V, V[i].name = V[j].name
       PROVE  i = j
  <2>1. V[i].name.word = V[j].name.word /\ V[i].name.number = V[j].name.number
    BY <1>12
  <2>2. CASE V[i].name.word = "shared"
    BY <1>10, <2>1, <2>2
  <2>3. CASE V[i].name.word = "secVol"
    BY <1>10, <2>1, <2>3
  <2>4. CASE V[i].name.word \in {"client-cert", "server-cert"}
    <3>1. PICK a \in 1..k : i = 1 + a
      BY <1>10, <2>4
    <3>2. PICK b \in 1..k : j = 1 + b
      BY <1>10, <2>1, <2>4
    <3>3. v[a].name = v[b].name
      BY <1>7, <1>12, <3>1, <3>2
    <3> QED
      BY <1>3, <3>1, <3>2, <3>3
  <2>5. V[i].name.word \in {"shared", "secVol", "client-cert", "server-cert"}
    BY <1>6, <1>7, <1>8, <1>9
  <2> QED
    BY <2>2, <2>3, <2>4, <2>5
<1> QED
  BY <1>5, <1>10, <1>11, <1>12 DEF V, M, p

\* No two of the TLS mode's volumes are mounted at one path.
LEMMA TLSPaths ==
  ASSUME NEW mode \in TLSMode,
         NEW server \in SecretNames, NEW client \in SecretNames
  PROVE  LET k == Len(TLSVolumes(mode, server, client))
             m == TLSMounts(mode)
         IN  /\ \A i \in 1..k : m[i].path \in {"clientCerts", "serverCerts"}
             /\ \A i, j \in 1..k : m[i].path = m[j].path => i = j
<1> DEFINE k == Len(TLSVolumes(mode, server, client))
           m == TLSMounts(mode)
<1>1. CASE mode = "None"
  <2>1. k = 0
    BY <1>1, TLSParts
  <2> HIDE DEF k
  <2> QED
    BY <2>1 DEF k
<1>2. CASE mode = "TLS"
  <2>1. k = 1 /\ m = <<[name |-> Name("server-cert"), path |-> "serverCerts"]>>
    BY <1>2 DEF TLSVolumes, TLSMounts
  <2> HIDE DEF k, m
  <2>2. m[1].path = "serverCerts"
    BY <2>1
  <2> QED
    BY <2>1, <2>2 DEF k, m
<1>3. CASE mode = "mTLS"
  <2>1. k = 2 /\ m = <<[name |-> Name("client-cert"), path |-> "clientCerts"],
                      [name |-> Name("server-cert"), path |-> "serverCerts"]>>
    BY <1>3 DEF TLSVolumes, TLSMounts
  <2> HIDE DEF k, m
  <2>2. m[1].path = "clientCerts" /\ m[2].path = "serverCerts"
    BY <2>1
  <2> QED
    BY <2>1, <2>2 DEF k, m
<1> QED
  BY <1>1, <1>2, <1>3 DEF TLSMode

\* No two mounts of a composed pod without file secrets have one path.
LEMMA PathsDiffer ==
  ASSUME NEW ns, NEW spec \in JobSpecs, NEW mode \in TLSMode,
         NEW server \in SecretNames, NEW client \in SecretNames, NEW settings
  PROVE  LET p == ComposedPod(ns, spec, mode, server, client, settings)
         IN  (\A i \in DOMAIN p.volumes : p.volumes[i].name.word # "secVol")
               => \A i, j \in DOMAIN p.mounts : p.mounts[i].path = p.mounts[j].path => i = j
<1> DEFINE p == ComposedPod(ns, spec, mode, server, client, settings)
           v0 == <<[name |-> Name("shared"), secret |-> <<"none", "none">>]>>
           v  == TLSVolumes(mode, server, client)
           vf == FileVolumes(spec.fileSecrets)
           m0 == <<[name |-> Name("shared"), path |-> "bin"]>>
           m  == TLSMounts(mode)
           mf == FileMounts(spec.fileSecrets)
           k  == Len(v)
           n  == Len(spec.fileSecrets)
           M  == p.mounts
<1>1. ThreeParts(p.volumes, v0, v, vf, k, n) /\ ThreeParts(M, m0, m, mf, k, n)
  BY PodParts
<1>2. \A i \in 1..n : vf[i].name.word = "secVol"
  <2>1. DOMAIN spec.fileSecrets = 1..n
    BY DEF JobSpecs
  <2> HIDE DEF n
  <2> QED
    BY <2>1 DEF FileVolumes
<1>3. /\ \A i \in 1..k : m[i].path \in {"clientCerts", "serverCerts"}
      /\ \A i, j \in 1..k : m[i].path = m[j].path => i = j
  BY TLSPaths
<1>4. m0[1].path = "bin"
  OBVIOUS
<1> HIDE DEF p, v0, v, vf, m0, m, mf, k, n, M
<1>5. ASSUME \A i \in DOMAIN p.volumes : p.volumes[i].name.word # "secVol"
      PROVE  \A i, j \in DOMAIN M : M[i].path = M[j].path => i = j
  <2>1. n = 0
    <3> SUFFICES ASSUME n # 0
                 PROVE  FALSE
      OBVIOUS
    <3>1. 1 \in 1..n /\ 1 + k + 1 \in 1..(1 + k + n)
      BY <1>1 DEF ThreeParts
    <3>2. p.volumes[1 + k + 1] = vf[1] /\ 1 + k + 1 \in DOMAIN p.volumes
      BY <1>1, <3>1 DEF ThreeParts
    <3> QED
      BY <1>2, <1>5, <3>1, <3>2
  <2>2. k \in Nat /\ DOMAIN M = 1..(1 + k)
    BY <1>1, <2>1 DEF ThreeParts
  <2>3. M[1].path = "bin" /\ \A a \in 1..k : M[1 + a].path = m[a].path
    BY <1>1, <1>4 DEF ThreeParts
  <2>4. \A i \in DOMAIN M : i = 1 \/ \E a \in 1..k : i = 1 + a
    <3> SUFFICES ASSUME NEW i \in DOMAIN M, i # 1
                 PROVE  \E a \in 1..k : i = 1 + a
      OBVIOUS
    <3>1. i - 1 \in 1..k /\ i = 1 + (i - 1)
      BY <2>2
    <3> QED
      BY <3>1
  <2> SUFFICES ASSUME NEW i \in DOMAIN M, NEW j \in DOMAIN M, M[i].path = M[j].path
               PROVE  i = j
    OBVIOUS
  <2>5. CASE i = 1 /\ j # 1
    BY <1>3, <2>3, <2>4, <2>5
  <2>6. CASE i # 1 /\ j = 1
    BY <1>3, <2>3, <2>4, <2>6
  <2>7. CASE i # 1 /\ j # 1
    <3>1. PICK a \in 1..k : i = 1 + a
      BY <2>4, <2>7
    <3>2. PICK b \in 1..k : j = 1 + b
      BY <2>4, <2>7
    <3> QED
      BY <1>3, <2>3, <3>1, <3>2
  <2> QED
    BY <2>5, <2>6, <2>7
<1> QED
  BY <1>5 DEF M, p

-----------------------------------------------------------------------------
(* The inductive invariant. *)

\* The settings the runnable has come to are those of the configmap.  The TLS
\* mode is decided after all of them are, and after the secrets were checked.
OptionsInv ==
  /\ setup \in {"setOptions", "done"} =>
       \A f \in Settings : (\A i \in DOMAIN pending : pending[i] # f)
                             => options.value[f] = Configured(f)
  /\ setup = "done" => pending = <<>> /\ (environ # {} => SecretsExist)
  /\ grpc # "off" => setup = "done"
  /\ options.tls # "None" =>
       /\ grpc \notin {"off", "start"}
       /\ options.tls = ServerMode

\* The stored job: it passed the webhook, and the webhook, or the update that
\* added the finalizer, dropped the empty lists.
JobInv ==
  job.stored =>
    /\ webhooks => ValidateLimit(job.spec.limit) /\ NoEmptyList(job.spec)
    /\ job.fin /\ job.edited # "after" => NoEmptyList(job.spec)

\* What the worker has read when it is about to compose a pod: the job, unless
\* it was edited meanwhile, and either no TLS or all that goes with it.
SeenInv ==
  worker = "compose" =>
    /\ job.fin
    /\ webhooks => ValidateLimit(seen.spec.limit) /\ NoEmptyList(seen.spec)
    /\ job.edited # "after" => seen.spec = job.spec
    /\ seen.tls # "None" =>
         /\ options.tls = seen.tls
         /\ seen.server = ServerSecret
         /\ seen.client = ClientSecret

\* The command line of a pod is that of its job, unless the job was edited, and
\* even then its lists are not empty if there is a webhook to drop empty ones.
ArgsInv ==
  /\ created # "no" =>
       job.fin /\ (job.edited # "after" => pod.args = GenerateArgs(job.spec))
  /\ webhooks \/ job.edited # "after" => HasValues(pod.args, ListOptions)

SetupInv ==
  /\ TypeOK /\ OptionsInv /\ JobInv /\ SeenInv /\ ArgsInv
  /\ SecretsChecked /\ TLSPodFits /\ MountsFit /\ LimitChecked

-----------------------------------------------------------------------------
(* The steps. *)

\* The positions of the loop over the settings: what is left of them.
Positions == {SubSeq(Fields, i, Len(Fields)) : i \in 1..Len(Fields) + 1}

\* There are four settings.
LEMMA FieldsType == Fields \in Seq(Settings) /\ Len(Fields) = 4
BY DEF Fields, Settings

\* The loop begins with all of them and ends with none.
LEMMA FirstAndLast == Fields \in Positions /\ <<>> \in Positions
<1>1. SubSeq(Fields, 1, Len(Fields)) = Fields
  BY FieldsType, SubSeqFull
<1>2. SubSeq(Fields, 5, Len(Fields)) = <<>>
  BY FieldsType, SubSeqEmpty
<1>3. 1 \in 1..Len(Fields) + 1 /\ 5 \in 1..Len(Fields) + 1
  BY FieldsType
<1> QED
  BY <1>1, <1>2, <1>3 DEF Positions

\* A turn of the loop takes the first of what is left.
LEMMA Turn ==
  ASSUME NEW q \in Positions, q # <<>>
  PROVE  /\ Head(q) \in Settings
         /\ Tail(q) \in Positions
         /\ \A f : /\ f # Head(q)
                   /\ \A i \in DOMAIN Tail(q) : Tail(q)[i] # f
                   => \A i \in DOMAIN q : q[i] # f
<1>1. PICK m \in 1..Len(Fields) + 1 : q = SubSeq(Fields, m, Len(Fields))
  BY DEF Positions
<1>2. m \in 1..Len(Fields)
  <2>1. CASE m = 5
    BY <1>1, <2>1, FieldsType, SubSeqEmpty
  <2> QED
    BY <2>1, FieldsType
<1>3. Tail(q) = SubSeq(Fields, m + 1, Len(Fields))
  <2>1. Len(Fields) \in m..Len(Fields)
    BY <1>2, FieldsType
  <2> QED
    BY <1>1, <1>2, <2>1, FieldsType, HeadTailOfSubSeq
<1>4. Tail(q) \in Positions
  <2>1. m + 1 \in 1..Len(Fields) + 1
    BY <1>2, FieldsType
  <2> QED
    BY <1>3, <2>1 DEF Positions
<1>5. q \in Seq(Settings)
  <2>1. \A i \in m..Len(Fields) : Fields[i] \in Settings
    <3>1. \A i \in m..Len(Fields) : i \in 1..Len(Fields)
      BY <1>2, FieldsType
    <3> QED
      BY <3>1, FieldsType, ElementOfSeq
  <2>2. m \in Int /\ Len(Fields) \in Int
    BY <1>2, FieldsType
  <2> QED
    BY <1>1, <2>1, <2>2, SubSeqProperties
<1>6. ASSUME NEW f, f # Head(q), \A i \in DOMAIN Tail(q) : Tail(q)[i] # f,
             NEW i \in DOMAIN q
      PROVE  q[i] # f
  <2>1. CASE i = 1
    BY <1>5, <1>6, <2>1
  <2>2. CASE i # 1
    <3>1. i - 1 \in DOMAIN Tail(q) /\ Tail(q)[i - 1] = q[i]
      BY <1>5, <2>2
    <3> QED
      BY <1>6, <3>1
  <2> QED
    BY <2>1, <2>2
<1> QED
  BY <1>4, <1>5, <1>6, HeadTailProperties

\* The steps that write the job.
JobStep ==
  \/ \E ns \in Namespaces, s \in Specs : CreateJob(ns, s)
  \/ \E s \in Specs : UpdateJob(s)
  \/ AttachFinalizer

\* They change nothing else.
LEMMA JobStepFrame ==
  ASSUME JobStep
  PROVE  UNCHANGED <<environ, configMap, secrets, webhooks, process, setup, pending, grpc,
                     options, worker, seen, pod, created, restarts>>
<1>1. ASSUME NEW ns, NEW s, CreateJob(ns, s) \/ UpdateJob(s)
      PROVE  UNCHANGED <<world, process, setupVars, options, podVars, restarts>>
  BY <1>1 DEF CreateJob, UpdateJob
<1>2. ASSUME AttachFinalizer
      PROVE  UNCHANGED <<world, process, setupVars, options, podVars, restarts>>
  BY <1>2 DEF AttachFinalizer
<1>3. UNCHANGED <<world, process, setupVars, options, podVars, restarts>>
  BY <1>1, <1>2 DEF JobStep
<1> QED
  BY <1>3 DEF world, setupVars, podVars

\* The kinds of steps.
LEMMA NextCases ==
  ASSUME [Next]_vars
  PROVE  \/ GetConfigMap \/ SetOption \/ CheckSecrets \/ StartGrpcServer \/ Listen
         \/ JobStep
         \/ ReadTLSMode \/ CreatePod \/ StopManager \/ Restart
         \/ UNCHANGED vars
BY DEF Next, JobStep

\* The world does not change.
LEMMA WorldStays ==
  ASSUME [Next]_vars
  PROVE  /\ UNCHANGED <<environ, configMap, secrets, webhooks>>
         /\ ServerMode' = ServerMode
         /\ \A f : Configured(f)' = Configured(f)
<1>1. UNCHANGED <<environ, configMap, secrets, webhooks>>
  BY NextCases, JobStepFrame DEF vars, world, GetConfigMap, SetOption, CheckSecrets,
     StartGrpcServer, Listen, ReadTLSMode, CreatePod, StopManager, Restart
<1> QED
  BY <1>1 DEF ServerMode, Configured

\* What the certificates in the environment make of the mode is a mode.
LEMMA ServerModeType == ServerMode \in TLSMode
BY DEF ServerMode, TLSMode

\* The options before the runnable has published any.
LEMMA NoOptionsType ==
  /\ NoOptions \in [set: BOOLEAN, tls: TLSMode, value: [Settings -> {"default", "config"}]]
  /\ [NoOptions EXCEPT !.set = TRUE]
       \in [set: BOOLEAN, tls: TLSMode, value: [Settings -> {"default", "config"}]]
BY DEF NoOptions, TLSMode

\* The encoding of a specification is a specification without empty lists.
LEMMA EncodedType ==
  ASSUME NEW spec \in JobSpecs
  PROVE  /\ Encoded(spec) \in JobSpecs
         /\ Encoded(spec).limit = spec.limit
         /\ NoEmptyList(Encoded(spec))
BY DEF Encoded, JobSpecs, NoEmptyList

\* So is what is stored of it, if there is a webhook.
LEMMA DefaultedType ==
  ASSUME NEW spec \in JobSpecs
  PROVE  /\ Defaulted(spec) \in JobSpecs
         /\ Defaulted(spec).limit = spec.limit
         /\ webhooks => NoEmptyList(Defaulted(spec))
BY EncodedType DEF Defaulted

\* What a write makes of the job, one field at a time.
LEMMA JobWritten ==
  ASSUME TypeOK
  PROVE  /\ \A ns \in Namespaces, s \in Specs : CreateJob(ns, s) =>
              job' \in StoredJobs /\ job'.spec = Defaulted(s) /\ ~job'.fin
                /\ job'.edited = "no" /\ ~job.stored
         /\ \A s \in Specs : UpdateJob(s) =>
              job' \in StoredJobs /\ job'.spec = Defaulted(s) /\ job'.fin = job.fin
                /\ job'.edited = (IF job.fin THEN "after" ELSE "before")
                /\ job'.namespace = job.namespace
         /\ AttachFinalizer =>
              job' \in StoredJobs /\ job'.spec = Encoded(job.spec) /\ job'.fin = TRUE
                /\ job'.edited = job.edited /\ job \in StoredJobs /\ ~job.fin
<1>1. ASSUME NEW ns \in Namespaces, NEW s \in Specs, CreateJob(ns, s)
      PROVE  job' \in StoredJobs /\ job'.spec = Defaulted(s) /\ ~job'.fin
                /\ job'.edited = "no" /\ ~job.stored
  <2>1. Defaulted(s) \in JobSpecs
    BY SpecsAssumption, DefaultedType
  <2>2. job' = [stored |-> TRUE, fin |-> FALSE, namespace |-> ns, spec |-> Defaulted(s),
                edited |-> "no"]
    BY <1>1 DEF CreateJob, NoJob
  <2>3. ~job.stored
    BY <1>1 DEF CreateJob
  <2> QED
    BY <2>1, <2>2, <2>3 DEF StoredJobs
<1>2. ASSUME NEW s \in Specs, UpdateJob(s)
      PROVE  job' \in StoredJobs /\ job'.spec = Defaulted(s) /\ job'.fin = job.fin
                /\ job'.edited = (IF job.fin THEN "after" ELSE "before")
                /\ job'.namespace = job.namespace
  <2>1. Defaulted(s) \in JobSpecs
    BY SpecsAssumption, DefaultedType
  <2>2. job \in StoredJobs
    BY <1>2 DEF UpdateJob, TypeOK
  <2> QED
    BY <1>2, <2>1, <2>2 DEF UpdateJob, StoredJobs
<1>3. ASSUME AttachFinalizer
      PROVE  job' \in StoredJobs /\ job'.spec = Encoded(job.spec) /\ job'.fin = TRUE
                /\ job'.edited = job.edited /\ job \in StoredJobs /\ ~job.fin
  <2>1. job \in StoredJobs /\ ~job.fin
    BY <1>3 DEF AttachFinalizer, TypeOK
  <2>2. Encoded(job.spec) \in JobSpecs
    BY <2>1, EncodedType DEF StoredJobs
  <2> QED
    BY <1>3, <2>1, <2>2 DEF AttachFinalizer, StoredJobs
<1> QED
  BY <1>1, <1>2, <1>3

\* A stored job is one of the record type, and only a stored one has a finalizer.
LEMMA JobStored ==
  ASSUME TypeOK
  PROVE  /\ job.stored => job \in StoredJobs
         /\ job.fin => job.stored
         /\ job \in StoredJobs => job.stored
         /\ ~job.stored => job.edited = "no"
<1>1. CASE job.stored
  BY <1>1 DEF TypeOK
<1>2. CASE ~job.stored
  <2>1. job = [stored |-> FALSE, fin |-> FALSE, namespace |-> "none", spec |-> "none",
               edited |-> "no"]
    BY <1>2 DEF TypeOK, NoJob
  <2>2. job.stored = FALSE /\ job.fin = FALSE /\ job.edited = "no"
    BY <2>1
  <2>3. job \notin StoredJobs
    BY <2>2 DEF StoredJobs
  <2> QED
    BY <2>2, <2>3
<1> QED
  BY <1>1, <1>2

\* The secrets of the service have their names.
LEMMA SecretTypes ==
  ASSUME TypeOK
  PROVE  ServerSecret \in SecretNames /\ ClientSecret \in SecretNames
BY SettingNames DEF TypeOK, ServerSecret, ClientSecret, SecretNames

\* Every step keeps the types.
LEMMA SetupType ==
  ASSUME SetupInv, [Next]_vars
  PROVE  TypeOK'
<1> DEFINE OptionsType ==
             options \in [set: BOOLEAN, tls: TLSMode, value: [Settings -> {"default", "config"}]]
           PendingType ==
             pending \in {SubSeq(Fields, i, Len(Fields)) : i \in 1..Len(Fields) + 1}
           SeenType ==
             IF worker = "compose"
               THEN seen \in [spec: JobSpecs, tls: TLSMode,
                              server: SecretNames, client: SecretNames]
               ELSE seen = NothingSeen
           JobType == IF job.stored THEN job \in StoredJobs ELSE job = NoJob
<1>t. TypeOK
  BY DEF SetupInv
<1>w. /\ (environ \in SUBSET TLSVariables)'
      /\ (configMap \in ConfigMaps \cup {NoConfigMap})'
      /\ (secrets \in SecretSets)' /\ (webhooks \in BOOLEAN)'
  BY <1>t, WorldStays DEF TypeOK
<1>j. JobType'
  <2>1. CASE UNCHANGED job
    BY <1>t, <2>1 DEF TypeOK
  <2>2. CASE job' \in StoredJobs
    BY <2>2 DEF StoredJobs
  <2> QED
    BY <1>t, <2>1, <2>2, NextCases, JobWritten DEF JobStep, vars, GetConfigMap, SetOption, CheckSecrets,
       StartGrpcServer, Listen, ReadTLSMode, CreatePod, StopManager, Restart
<1>s. SeenType'
  <2>1. CASE ReadTLSMode
    <3>1. CASE options.set
      <4>1. job.spec \in JobSpecs
        BY <1>t, <2>1, JobStored DEF ReadTLSMode, StoredJobs
      <4>2. options.tls \in TLSMode
        BY <1>t DEF TypeOK
      <4> QED
        BY <1>t, <2>1, <3>1, <4>1, <4>2, SecretTypes DEF ReadTLSMode
    <3>2. CASE ~options.set
      BY <1>t, <2>1, <3>2 DEF ReadTLSMode, TypeOK
    <3> QED
      BY <3>1, <3>2
  <2>2. CASE CreatePod \/ Restart
    BY <2>2 DEF CreatePod, Restart
  <2>3. CASE UNCHANGED <<worker, seen>>
    BY <1>t, <2>3 DEF TypeOK
  <2> QED
    BY <2>1, <2>2, <2>3, NextCases, JobStepFrame DEF vars, podVars, GetConfigMap, SetOption,
       CheckSecrets, StartGrpcServer, Listen, StopManager
<1>p. (pod \in Pods)'
  <2>1. CASE CreatePod
    <3>1. /\ seen \in [spec: JobSpecs, tls: TLSMode, server: SecretNames, client: SecretNames]
          /\ options.value \in [Settings -> {"default", "config"}]
      BY <1>t, <2>1 DEF CreatePod, TypeOK
    <3>2. job.namespace \in Namespaces \cup {"none"}
      <4>1. CASE job.stored
        BY <1>t, <4>1 DEF TypeOK, StoredJobs
      <4>2. CASE ~job.stored
        BY <1>t, <4>2 DEF TypeOK, NoJob
      <4> QED
        BY <4>1, <4>2
    <3>3. /\ seen.spec \in JobSpecs /\ seen.tls \in TLSMode
          /\ seen.server \in SecretNames /\ seen.client \in SecretNames
      BY <3>1
    <3>4. ComposedPod(job.namespace, seen.spec, seen.tls, seen.server, seen.client,
                      options.value) \in Pods
      BY <3>1, <3>2, <3>3, PodType
    <3> QED
      BY <2>1, <3>4 DEF CreatePod
  <2>2. CASE UNCHANGED pod
    BY <1>t, <2>2 DEF TypeOK
  <2> QED
    BY <2>1, <2>2, NextCases, JobStepFrame DEF vars, podVars, GetConfigMap, SetOption,
       CheckSecrets, StartGrpcServer, Listen, ReadTLSMode, StopManager, Restart
<1>o. OptionsType' /\ PendingType'
  <2>1. CASE GetConfigMap
    BY <1>t, <2>1, NoOptionsType, FirstAndLast DEF GetConfigMap, Positions, TypeOK
  <2>2. CASE SetOption
    <3>1. Head(pending) \in Settings /\ PendingType'
      BY <1>t, <2>2, Turn DEF SetOption, Positions, TypeOK
    <3> QED
      BY <1>t, <2>2, <3>1 DEF SetOption, Configured, TypeOK
  <2>3. CASE StartGrpcServer
    BY <1>t, <2>3, ServerModeType DEF StartGrpcServer, TypeOK
  <2>4. CASE Restart
    BY <2>4, NoOptionsType, FirstAndLast DEF Restart, Positions
  <2>5. CASE UNCHANGED <<options, pending>>
    BY <1>t, <2>5 DEF TypeOK
  <2> QED
    BY <2>1, <2>2, <2>3, <2>4, <2>5, NextCases, JobStepFrame DEF vars, setupVars,
       CheckSecrets, Listen, ReadTLSMode, CreatePod, StopManager
<1>r. /\ (process \in {"running", "ended"})'
      /\ (setup \in {"getConfigMap", "setOptions", "done", "error"})'
      /\ (grpc \in {"off", "start", "listen", "serving", "failed"})'
      /\ (worker \in {"idle", "compose"})'
      /\ (created \in {"no", "accepted", "refused"})'
      /\ (restarts \in 0..MaxRestarts)'
  <2>1. /\ process \in {"running", "ended"}
        /\ setup \in {"getConfigMap", "setOptions", "done", "error"}
        /\ grpc \in {"off", "start", "listen", "serving", "failed"}
        /\ worker \in {"idle", "compose"}
        /\ created \in {"no", "accepted", "refused"}
        /\ restarts \in 0..MaxRestarts
    BY <1>t DEF TypeOK
  <2>2. CASE JobStep \/ UNCHANGED vars
    BY <2>1, <2>2, JobStepFrame DEF vars, setupVars, podVars
  <2>3. CASE GetConfigMap \/ SetOption \/ CheckSecrets \/ StartGrpcServer \/ Listen
    BY <2>1, <2>3 DEF podVars, GetConfigMap, SetOption, CheckSecrets, StartGrpcServer, Listen
  <2>4. CASE ReadTLSMode \/ CreatePod \/ StopManager
    BY <2>1, <2>4 DEF setupVars, podVars, ReadTLSMode, CreatePod, StopManager
  <2>5. CASE Restart
    BY <2>1, <2>5, MaxRestartsAssumption DEF Restart
  <2> QED
    BY <2>2, <2>3, <2>4, <2>5, NextCases
<1> QED
  BY <1>w, <1>j, <1>s, <1>p, <1>o, <1>r DEF TypeOK

\* Every step keeps the settings in step with the runnable.
LEMMA SetupOptions ==
  ASSUME SetupInv, [Next]_vars
  PROVE  OptionsInv'
<1> USE DEF SetupInv, OptionsInv
<1>1. CASE GetConfigMap
  BY <1>1, WorldStays, SettingNames DEF GetConfigMap, NoOptions, Fields, TypeOK
<1>2. CASE SetOption
  <2>1. Head(pending) \in Settings
    BY <1>2, Turn DEF SetOption, TypeOK, Positions
  <2>2. ASSUME NEW f \in Settings, \A i \in DOMAIN pending' : pending'[i] # f
        PROVE  options'.value[f] = Configured(f)'
    <3>1. CASE f = Head(pending)
      BY <1>2, <3>1, <2>1, WorldStays DEF SetOption, TypeOK
    <3>2. CASE f # Head(pending)
      <4>1. \A i \in DOMAIN pending : pending[i] # f
        BY <1>2, <2>2, <3>2, Turn DEF SetOption, TypeOK, Positions
      <4>2. options'.value[f] = options.value[f]
        BY <1>2, <3>2, <2>1 DEF SetOption, TypeOK
      <4> QED
        BY <1>2, <4>1, <4>2, WorldStays DEF SetOption
    <3> QED
      BY <3>1, <3>2
  <2> QED
    BY <1>2, <2>2 DEF SetOption, TypeOK, SecretsExist, ServerSecret, ClientSecret
<1>3. CASE CheckSecrets
  BY <1>3, WorldStays DEF CheckSecrets, SecretsExist, ServerSecret, ClientSecret
<1>4. CASE StartGrpcServer
  BY <1>4, WorldStays DEF StartGrpcServer, SecretsExist, ServerSecret, ClientSecret, TypeOK
<1>5. CASE Listen
  BY <1>5, WorldStays DEF Listen, SecretsExist, ServerSecret, ClientSecret
<1>6. CASE Restart
  BY <1>6 DEF Restart, NoOptions
<1>7. CASE UNCHANGED <<setup, pending, options, grpc>>
  BY <1>7, WorldStays DEF SecretsExist, ServerSecret, ClientSecret
<1> QED
  BY <1>1, <1>2, <1>3, <1>4, <1>5, <1>6, <1>7, NextCases, JobStepFrame DEF vars, setupVars,
     ReadTLSMode, CreatePod, StopManager

\* Every step keeps the stored job admitted.
LEMMA SetupJob ==
  ASSUME SetupInv, [Next]_vars
  PROVE  JobInv'
<1>t. TypeOK
  BY DEF SetupInv
<1>1. ASSUME NEW s \in Specs, job'.spec = Defaulted(s), webhooks => ValidateLimit(s.limit),
             job'.fin => job'.edited = "after"
      PROVE  JobInv'
  <2>1. s \in JobSpecs
    BY SpecsAssumption
  <2>2. job'.spec.limit = s.limit /\ (webhooks => NoEmptyList(job'.spec))
    BY <1>1, <2>1, DefaultedType
  <2> QED
    BY <1>1, <2>2, WorldStays DEF JobInv
<1>2. ASSUME NEW ns \in Namespaces, NEW s \in Specs, CreateJob(ns, s)
      PROVE  JobInv'
  <2>1. webhooks => ValidateLimit(s.limit)
    BY <1>2 DEF CreateJob, Admitted, ValidateCreate, ValidateJob
  <2> QED
    BY <1>t, <1>1, <1>2, <2>1, JobWritten
<1>3. ASSUME NEW s \in Specs, UpdateJob(s)
      PROVE  JobInv'
  <2>1. webhooks => ValidateLimit(s.limit)
    BY <1>3 DEF UpdateJob, Admitted, ValidateUpdate, ValidateJob
  <2> QED
    BY <1>t, <1>1, <1>3, <2>1, JobWritten
<1>4. CASE AttachFinalizer
  <2>1. job'.spec = Encoded(job.spec) /\ job.spec \in JobSpecs /\ job.stored
    BY <1>t, <1>4, JobWritten DEF StoredJobs
  <2>2. job'.spec.limit = job.spec.limit /\ NoEmptyList(job'.spec)
    BY <2>1, EncodedType
  <2> QED
    BY <2>1, <2>2, WorldStays DEF SetupInv, JobInv
<1>5. CASE UNCHANGED job
  BY <1>5, WorldStays DEF SetupInv, JobInv
<1> QED
  BY <1>2, <1>3, <1>4, <1>5, NextCases DEF JobStep, vars, GetConfigMap, SetOption, CheckSecrets,
     StartGrpcServer, Listen, ReadTLSMode, CreatePod, StopManager, Restart

\* Every step keeps what the worker has read good for a pod.
LEMMA SetupSeen ==
  ASSUME SetupInv, [Next]_vars
  PROVE  SeenInv'
<1> USE DEF SetupInv, SeenInv
<1>1. CASE GetConfigMap
  BY <1>1, WorldStays DEF GetConfigMap, podVars, OptionsInv, NoOptions, TypeOK
<1>2. CASE SetOption
  BY <1>2, WorldStays DEF SetOption, podVars, OptionsInv
<1>3. CASE StartGrpcServer
  BY <1>3, WorldStays DEF StartGrpcServer, podVars, OptionsInv
<1>4. ASSUME NEW ns \in Namespaces, NEW s \in Specs, CreateJob(ns, s)
      PROVE  SeenInv'
  <2>1. worker' # "compose"
    BY <1>4, JobStored DEF CreateJob, podVars
  <2> QED
    BY <2>1
<1>5. ASSUME NEW s \in Specs, UpdateJob(s)
      PROVE  SeenInv'
  <2>1. job'.fin = job.fin /\ (job.fin => job'.edited = "after")
    BY <1>5, JobWritten
  <2> QED
    BY <1>5, <2>1, WorldStays DEF UpdateJob, podVars, ServerSecret, ClientSecret
<1>6. CASE AttachFinalizer
  BY <1>6 DEF AttachFinalizer, podVars
<1>7. CASE ReadTLSMode
  <2>1. job.stored
    BY <1>7, JobStored DEF ReadTLSMode
  <2> QED
    BY <1>7, <2>1, WorldStays DEF ReadTLSMode, JobInv, ServerSecret, ClientSecret
<1>8. CASE CreatePod
  BY <1>8 DEF CreatePod
<1>9. CASE Restart
  BY <1>9 DEF Restart
<1>10. CASE UNCHANGED <<job, options, worker, seen>>
  BY <1>10, WorldStays DEF ServerSecret, ClientSecret
<1> QED
  BY <1>1, <1>2, <1>3, <1>4, <1>5, <1>6, <1>7, <1>8, <1>9, <1>10, NextCases
     DEF JobStep, vars, podVars, CheckSecrets, Listen, StopManager

\* A pod that is composed with TLS finds its secrets and the settings complete.
LEMMA SeenTLS ==
  ASSUME SetupInv, worker = "compose", seen.tls # "None"
  PROVE  /\ seen.tls = ServerMode
         /\ <<"controller", seen.server>> \in secrets
         /\ <<"controller", seen.client>> \in secrets
         /\ seen.server = <<"server", Configured("GrpcServerSecret")>>
         /\ seen.client = <<"client", Configured("GrpcClientSecret")>>
         /\ options.value = [f \in Settings |-> Configured(f)]
<1>1. options.tls = seen.tls /\ seen.server = ServerSecret /\ seen.client = ClientSecret
  BY DEF SetupInv, SeenInv
<1>2. options.tls = ServerMode /\ setup = "done" /\ pending = <<>>
  BY <1>1 DEF SetupInv, OptionsInv
<1>3. environ # {}
  BY <1>1, <1>2 DEF ServerMode
<1>4. /\ <<"controller", ServerSecret>> \in secrets
      /\ <<"controller", ClientSecret>> \in secrets
  BY <1>2, <1>3 DEF SetupInv, OptionsInv, SecretsExist
<1>5. \A f \in Settings : options.value[f] = Configured(f)
  BY <1>2 DEF SetupInv, OptionsInv
<1>6. options.value \in [Settings -> {"default", "config"}]
  BY DEF SetupInv, TypeOK
<1>7. options.value = [f \in Settings |-> Configured(f)]
  BY <1>5, <1>6
<1>8. "GrpcServerSecret" \in Settings /\ "GrpcClientSecret" \in Settings
  BY SettingNames
<1> QED
  BY <1>1, <1>2, <1>4, <1>5, <1>7, <1>8 DEF ServerSecret, ClientSecret

\* Every step keeps what the invariant says of the pod.
LEMMA SetupPod ==
  ASSUME SetupInv, [Next]_vars
  PROVE  ArgsInv' /\ SecretsChecked' /\ TLSPodFits' /\ MountsFit' /\ LimitChecked'
<1>1. CASE CreatePod
  <2> DEFINE p == ComposedPod(job.namespace, seen.spec, seen.tls, seen.server, seen.client,
                              options.value)
  <2>0. seen \in [spec: JobSpecs, tls: TLSMode, server: SecretNames, client: SecretNames]
    BY <1>1 DEF CreatePod, SetupInv, TypeOK
  <2>1. /\ seen.spec \in JobSpecs /\ seen.tls \in TLSMode /\ pod' = p
        /\ seen.server \in SecretNames /\ seen.client \in SecretNames
        /\ seen.spec.envSecrets \in Seq([env : Texts, text : BOOLEAN, ref : BOOLEAN])
        /\ worker = "compose"
    BY <1>1, <2>0 DEF CreatePod, JobSpecs
  <2>2. /\ p.envs = GenerateEnvs(seen.spec.envSecrets) \o TLSEnvs(seen.tls)
        /\ p.cmd = GenerateCmd(options.value)
        /\ p.args = GenerateArgs(seen.spec)
        /\ p.namespace = job.namespace
    BY DEF ComposedPod, PodEnvs
  <2>3. /\ \A i \in DOMAIN p.mounts :
             \E j \in DOMAIN p.volumes : p.volumes[j].name = p.mounts[i].name
        /\ \A i, j \in DOMAIN p.volumes :
             p.volumes[i].name = p.volumes[j].name => i = j
        /\ \A i \in DOMAIN p.volumes :
             p.volumes[i].name.word \in {"client-cert", "server-cert"}
               => seen.tls # "None" /\ p.volumes[i].secret \in {seen.server, seen.client}
    BY <2>1, VolumesFit
  <2>v. (\A i \in DOMAIN p.volumes : p.volumes[i].name.word # "secVol")
          => \A i, j \in DOMAIN p.mounts : p.mounts[i].path = p.mounts[j].path => i = j
    BY <2>1, PathsDiffer
  <2> HIDE DEF p
  <2>4. ArgsInv'
    <3>1. job.fin /\ (job.edited # "after" => seen.spec = job.spec)
      BY <2>1 DEF SetupInv, SeenInv
    <3>2. webhooks \/ job.edited # "after" => NoEmptyList(seen.spec)
      BY <2>1, <3>1, JobStored DEF SetupInv, SeenInv, JobInv
    <3>3. webhooks \/ job.edited # "after" => HasValues(p.args, ListOptions)
      BY <2>1, <2>2, <3>2, CommandLine
    <3> QED
      BY <1>1, <2>1, <2>2, <3>1, <3>3, WorldStays DEF CreatePod, ArgsInv
  <2>5. MountsFit'
    <3>1. created' = IF Valid(p) THEN "accepted" ELSE "refused"
      BY <1>1, <2>1 DEF CreatePod
    <3>2. ~Valid(p) <=> \E i \in DOMAIN p.volumes : p.volumes[i].name.word = "secVol"
      BY <2>v DEF Valid, IsLabel
    <3>3. created' = "refused" <=>
            \E i \in DOMAIN p.volumes : p.volumes[i].name.word = "secVol"
      BY <3>1, <3>2
    <3> QED
      BY <2>1, <2>3, <3>3 DEF MountsFit
  <2>6. LimitChecked'
    <3>1. Read(p.args, "--limit") = seen.spec.limit
      BY <2>1, <2>2, CommandLine
    <3> QED
      BY <2>1, <3>1, WorldStays DEF LimitChecked, SetupInv, SeenInv
  <2>7. GrpcVolumes' # {} => seen.tls # "None"
    BY <2>1, <2>3 DEF GrpcVolumes
  <2>8. SecretsChecked'
    BY <2>1, <2>3, SeenTLS, WorldStays DEF GrpcVolumes, SecretsChecked, PodFindsSecrets
  <2>9. TLSPodFits'
    <3> SUFFICES ASSUME GrpcVolumes' # {}
                 PROVE  /\ pod'.cmd = GenerateCmd([f \in Settings |-> Configured(f)'])
                        /\ \A i \in GrpcVolumes' :
                             pod'.volumes[i].secret \in
                               {<<"server", Configured("GrpcServerSecret")'>>,
                                <<"client", Configured("GrpcClientSecret")'>>}
                        /\ EnvValue(pod', "GRPC_SERVER_CA") = "serverCerts"
                        /\ ServerMode' = "mTLS" =>
                             \A v \in ClientVariables : EnvValue(pod', v) = "clientCerts"
                        /\ DriverMode(pod') # ServerMode' =>
                             /\ ServerMode' = "TLS" /\ DriverMode(pod') = "mTLS"
                             /\ \A v \in ClientVariables : EnvValue(pod', v) \in {"text", "ref"}
      BY DEF TLSPodFits
    <3>1. seen.tls = ServerMode /\ seen.tls \in {"TLS", "mTLS"}
      BY <2>1, <2>7, SeenTLS DEF TLSMode
    <3>2. pod'.cmd = GenerateCmd([f \in Settings |-> Configured(f)'])
      <4>1. options.value = [f \in Settings |-> Configured(f)]
        BY <2>1, <2>7, SeenTLS
      <4>2. [f \in Settings |-> Configured(f)'] = [f \in Settings |-> Configured(f)]
        BY WorldStays
      <4> QED
        BY <2>1, <2>2, <4>1, <4>2
    <3>3. \A i \in GrpcVolumes' :
            pod'.volumes[i].secret \in {<<"server", Configured("GrpcServerSecret")'>>,
                                       <<"client", Configured("GrpcClientSecret")'>>}
      BY <2>1, <2>3, SeenTLS, WorldStays DEF GrpcVolumes
    <3>4. /\ EnvValue(p, "GRPC_SERVER_CA") = "serverCerts"
          /\ seen.tls = "mTLS" =>
               \A v \in ClientVariables : EnvValue(p, v) = "clientCerts"
          /\ DriverMode(p) # seen.tls =>
               /\ seen.tls = "TLS" /\ DriverMode(p) = "mTLS"
               /\ \A v \in ClientVariables : EnvValue(p, v) \in {"text", "ref"}
      BY <2>1, <2>2, <3>1, DriverUsesTLS
    <3> QED
      BY <2>1, <3>1, <3>2, <3>3, <3>4, WorldStays
  <2> QED
    BY <2>4, <2>5, <2>6, <2>8, <2>9
<1>2. CASE UNCHANGED <<pod, created>>
  <2>1. GrpcVolumes' = GrpcVolumes
    BY <1>2 DEF GrpcVolumes
  <2>2. SecretsChecked' /\ MountsFit' /\ LimitChecked'
    BY <1>2, <2>1, WorldStays DEF SetupInv, SecretsChecked, PodFindsSecrets, MountsFit,
       LimitChecked
  <2>3. TLSPodFits'
    <3>1. [f \in Settings |-> Configured(f)'] = [f \in Settings |-> Configured(f)]
      BY WorldStays
    <3> QED
      BY <1>2, <2>1, <3>1, WorldStays DEF SetupInv, TLSPodFits
  <2>4. ArgsInv'
    <3>1. CASE UNCHANGED job
      BY <1>2, <3>1, WorldStays DEF SetupInv, ArgsInv
    <3>2. ASSUME NEW ns \in Namespaces, NEW s \in Specs, CreateJob(ns, s)
          PROVE  ArgsInv'
      <4>1. ~job.fin /\ job.edited = "no"
        BY <3>2, JobStored DEF CreateJob, SetupInv
      <4> QED
        BY <1>2, <4>1, WorldStays DEF SetupInv, ArgsInv
    <3>3. ASSUME NEW s \in Specs, UpdateJob(s)
          PROVE  ArgsInv'
      <4>1. job.edited = "no"
        BY <3>3 DEF UpdateJob
      <4>2. /\ job'.fin = job.fin
            /\ job'.edited = IF job.fin THEN "after" ELSE "before"
        BY <3>3, JobWritten DEF SetupInv
      <4> QED
        BY <1>2, <4>1, <4>2, WorldStays DEF SetupInv, ArgsInv
    <3>4. CASE AttachFinalizer
      <4>1. ~job.fin /\ job'.edited = job.edited
        BY <3>4, JobWritten DEF SetupInv
      <4> QED
        BY <1>2, <4>1, WorldStays DEF SetupInv, ArgsInv
    <3> QED
      BY <3>1, <3>2, <3>3, <3>4, NextCases DEF JobStep, vars, GetConfigMap, SetOption, CheckSecrets,
         StartGrpcServer, Listen, ReadTLSMode, CreatePod, StopManager, Restart
  <2> QED
    BY <2>2, <2>3, <2>4
<1> QED
  BY <1>1, <1>2, NextCases, JobStepFrame DEF vars, podVars, GetConfigMap, SetOption,
     CheckSecrets, StartGrpcServer, Listen, ReadTLSMode, StopManager, Restart

-----------------------------------------------------------------------------
(* The theorems. *)

\* The controller starts in a state of the invariant.
LEMMA InitSetup == Init => SetupInv
<1> SUFFICES ASSUME Init
             PROVE  SetupInv
  OBVIOUS
<1>1. TypeOK
  <2>1. pod \in Pods
    <3>1. GenerateCmd(NoOptions.value)
            \in [service : {"default", "config"}, port : {"default", "config"}]
      BY SettingNames DEF GenerateCmd, NoOptions
    <3> QED
      BY <3>1 DEF Init, NoPod, Pods
  <2>2. IF job.stored THEN job \in StoredJobs ELSE job = NoJob
    BY DEF Init, NoJob
  <2> QED
    BY <2>1, <2>2, FirstAndLast, NoOptionsType, MaxRestartsAssumption
       DEF Init, TypeOK, Positions
<1>3. DOMAIN pod.volumes = {} /\ DOMAIN pod.mounts = {} /\ DOMAIN pod.args = {}
  BY DEF Init, NoPod
<1>2. OptionsInv /\ JobInv /\ SeenInv /\ ArgsInv
  BY <1>3 DEF Init, OptionsInv, JobInv, SeenInv, ArgsInv, HasValues, NoOptions, NoJob
<1>4. SecretsChecked /\ TLSPodFits /\ MountsFit
  BY <1>3 DEF Init, SecretsChecked, PodFindsSecrets, TLSPodFits, MountsFit, GrpcVolumes
<1>5. LimitChecked
  BY <1>3 DEF LimitChecked, Read, ValidateLimit
<1> QED
  BY <1>1, <1>2, <1>4, <1>5 DEF SetupInv

\* Every step keeps the invariant.
LEMMA NextSetup == SetupInv /\ [Next]_vars => SetupInv'
BY SetupType, SetupOptions, SetupJob, SetupSeen, SetupPod DEF SetupInv

\* The invariant holds throughout.
LEMMA SetupInvariant == Spec => []SetupInv
BY InitSetup, NextSetup, PTL DEF Spec

\* At any moment of the controller's start and restarts every variable has its
\* type: the runnable never leaves its list of settings, the TLS mode is one of
\* the three the pods know, what the worker has read and what is stored of the
\* job are specifications, and what it composes from them is a pod.
THEOREM SetupTypes == Spec => []TypeOK
<1>1. SetupInv => TypeOK
  BY DEF SetupInv
<1> QED
  BY <1>1, SetupInvariant, PTL

\* The secrets the TLS volumes of a pod in the controller's namespace name exist
\* there, for every configmap, environment and set of secrets.
THEOREM PodSecretsExist == Spec => []SecretsChecked
<1>1. SetupInv => SecretsChecked
  BY DEF SetupInv
<1> QED
  BY <1>1, SetupInvariant, PTL

\* A pod with certificates has the configured settings and finds the certificates
\* where they are mounted, whatever variables its job sets; its driver speaks the
\* server's protocol unless the server asks for no client certificate and the job
\* brings its own.
THEOREM TLSPodsFit == Spec => []TLSPodFits
<1>1. SetupInv => TLSPodFits
  BY DEF SetupInv
<1> QED
  BY <1>1, SetupInvariant, PTL

\* Mounts and volumes of a pod agree, for any number of file secrets, and the API
\* server refuses exactly the pods that have some.
THEOREM PodMountsFit == Spec => []MountsFit
<1>1. SetupInv => MountsFit
  BY DEF SetupInv
<1> QED
  BY <1>1, SetupInvariant, PTL

\* With the webhooks enabled no evaluation is started with a limit that is not
\* understood.
THEOREM LimitsChecked == Spec => []LimitChecked
<1>1. SetupInv => LimitChecked
  BY DEF SetupInv
<1> QED
  BY <1>1, SetupInvariant, PTL

\* For every job that was not edited after it got its finalizer the evaluation
\* can read its command line if and only if the model and the tasks are not empty,
\* and then reads from it what the job says.  No optional list leaves an option
\* without a value, unless it is emptied after the finalizer and without webhooks.
THEOREM CommandsFit == Spec => []CommandFits
<1>1. SetupInv => CommandFits
  <2> SUFFICES ASSUME SetupInv
               PROVE  CommandFits
    OBVIOUS
  <2>1. webhooks \/ job.edited # "after" => HasValues(pod.args, ListOptions)
    BY DEF SetupInv, ArgsInv
  <2>2. ASSUME created # "no", job.edited # "after"
        PROVE  /\ Readable(pod.args) <=> job.spec.model = "given" /\ job.spec.tasks = "given"
               /\ Readable(pod.args) =>
                    /\ Read(pod.args, "--model") = job.spec.model
                    /\ Read(pod.args, "--tasks") = job.spec.tasks
                    /\ Read(pod.args, "--model_args") = Given(job.spec.modelArgs)
                    /\ Read(pod.args, "--gen_kwargs") = Given(job.spec.genArgs)
                    /\ Read(pod.args, "--num_fewshot") = Given(job.spec.numFewShot)
                    /\ Read(pod.args, "--limit") = job.spec.limit
    <3>1. pod.args = GenerateArgs(job.spec) /\ job.fin
      BY <2>2 DEF SetupInv, ArgsInv
    <3>2. job.stored /\ job.spec \in JobSpecs
      BY <3>1, JobStored DEF SetupInv, StoredJobs
    <3>3. NoEmptyList(job.spec)
      BY <2>2, <3>1, <3>2 DEF SetupInv, JobInv
    <3> QED
      BY <3>1, <3>2, <3>3, CommandLine
  <2> QED
    BY <2>1, <2>2 DEF CommandFits
<1> QED
  BY <1>1, SetupInvariant, PTL
=============================================================================
