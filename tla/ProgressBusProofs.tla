-------------------------- MODULE ProgressBusProofs --------------------------
(***************************************************************************)
(* The progress bus for any sizes and numbers of jobs, pages, connections  *)
(* and queues: streams lose and repeat nothing.  And a page's strip for    *)
(* any files and steps: it mixes up no files, and what it leaves running   *)
(* the pipeline left running.                                              *)
(*                                                                         *)
(* Sequences are reasoned about place by place: s follows the log from n   *)
(* on when s[i] = log[n + i] for each of its places.                       *)
(***************************************************************************)
EXTENDS ProgressBus, Strip, SequenceTheorems, TLAPS

Shape ==
    /\ current \in Files \cup {None}
    /\ retrying \in Pages \cup {None} /\ answered \subseteq Pages
    /\ jobs \in 0..MaxJobs
    /\ raised \subseteq Files
    /\ steps \in 0..MaxSteps
    /\ log \in Seq(EventType)
    /\ listening \subseteq connected /\ connected \subseteq Pages
    /\ replay \in [Pages -> Seq(EventType)] /\ queue \in [Pages -> Seq(EventType)]
    /\ got \in [Pages -> Seq(EventType)]
    /\ busy \in [Pages -> {"no", "job", "retry"}] /\ missed \subseteq Pages
    /\ connects \in [Pages -> 0..MaxConnects]
    /\ start \in [Pages -> Nat]

\* The buffer is the end of the log.
Ring ==
    /\ buffer \in Seq(EventType)
    /\ Len(buffer) = IF Len(log) > BufferSize THEN BufferSize ELSE Len(log)
    /\ \A i \in 1..Len(buffer) : buffer[i] = log[Len(log) - Len(buffer) + i]

\* s is what the log says from place n on.
Follows(s, n) == n + Len(s) <= Len(log) /\ \A i \in 1..Len(s) : s[i] = log[n + i]

Handled(c) == start[c] + Len(got[c])
Replayed(c) == Handled(c) + Len(replay[c])

\* What a stream has sent, what is left of its snapshot and its queue follow one
\* another in the log, up to its end if the queue still listens.
Stream(c) ==
    /\ Follows(got[c], start[c])
    /\ Follows(replay[c], Handled(c))
    /\ Follows(queue[c], Replayed(c))
    /\ c \in listening => Replayed(c) + Len(queue[c]) = Len(log)
    /\ Len(queue[c]) <= QueueSize /\ Len(replay[c]) <= BufferSize

Streams ==
    \A c \in Pages :
        IF c \in connected THEN Stream(c) ELSE replay[c] = <<>> /\ queue[c] = <<>>

StreamIInv == Shape /\ Ring /\ Streams

-----------------------------------------------------------------------------
USE BoundsAssumption, NoneAssumption

(* Two sequences one after the other, place by place. *)
LEMMA Joined ==
  ASSUME NEW S, NEW s \in Seq(S), NEW t \in Seq(S)
  PROVE  /\ s \o t \in Seq(S)
         /\ Len(s \o t) = Len(s) + Len(t)
         /\ \A i \in 1..Len(s) : (s \o t)[i] = s[i]
         /\ \A i \in 1..Len(t) : (s \o t)[Len(s) + i] = t[i]
         /\ \A i \in 1..Len(s) + Len(t) :
              (s \o t)[i] = IF i <= Len(s) THEN s[i] ELSE t[i - Len(s)]
  OBVIOUS

(* What trimming leaves. *)
LEMMA Trimmed ==
  ASSUME NEW S, NEW s \in Seq(S)
  PROVE  LET keep == IF Len(s) > BufferSize THEN BufferSize ELSE Len(s)
         IN  /\ Latest(s) \in Seq(S)
             /\ Len(Latest(s)) = keep
             /\ \A i \in 1..keep : Latest(s)[i] = s[Len(s) - keep + i]
<1>1. CASE Len(s) > BufferSize
  <2>1. /\ Len(s) - BufferSize + 1 \in 1..Len(s) /\ BufferSize \in Nat
        /\ Latest(s) = SubSeq(s, Len(s) - BufferSize + 1, Len(s))
    BY <1>1 DEF Latest
  <2> QED
    BY <1>1, <2>1
<1>2. CASE ~(Len(s) > BufferSize)
  <2>1. Latest(s) = SubSeq(s, 1, Len(s)) /\ Len(s) \in Nat
    BY <1>2 DEF Latest
  <2> QED
    BY <1>2, <2>1
<1> QED
  BY <1>1, <1>2

(* The first n places. *)
LEMMA Capped ==
  ASSUME NEW S, NEW s \in Seq(S), NEW n \in Nat
  PROVE  LET t == SubSeq(s, 1, IF Len(s) > n THEN n ELSE Len(s))
         IN  /\ t \in Seq(S)
             /\ Len(t) = IF Len(s) > n THEN n ELSE Len(s)
             /\ \A i \in 1..Len(t) : t[i] = s[i]
  OBVIOUS

(* All but the first place. *)
LEMMA Tailed ==
  ASSUME NEW S, NEW s \in Seq(S), Len(s) >= 1
  PROVE  LET t == SubSeq(s, 2, Len(s))
         IN  /\ t \in Seq(S) /\ Len(t) = Len(s) - 1
             /\ \A i \in 1..Len(t) : t[i] = s[i + 1]
<1> DEFINE n == Len(s)
<1>1. n \in Int /\ n >= 1 /\ \A i \in 2..n : s[i] \in S
  OBVIOUS
<1> HIDE DEF n
<1>2. /\ SubSeq(s, 2, n) \in Seq(S) /\ Len(SubSeq(s, 2, n)) = IF 2 <= n THEN n - 2 + 1 ELSE 0
      /\ \A i \in 1..n - 2 + 1 : SubSeq(s, 2, n)[i] = s[2 + i - 1]
  BY <1>1, SubSeqProperties
<1>3. Len(SubSeq(s, 2, n)) = n - 1
  BY <1>1, <1>2
<1>4. ASSUME NEW i \in 1..n - 1 PROVE SubSeq(s, 2, n)[i] = s[i + 1]
  <2>1. n - 2 + 1 = n - 1 /\ 2 + i - 1 = i + 1
    BY <1>1
  <2> QED
    BY <1>2, <2>1
<1> QED
  BY <1>2, <1>3, <1>4 DEF n

(* What is left of a sequence without its first place. *)
LEMMA Rest ==
  ASSUME NEW S, NEW s \in Seq(S), s # <<>>
  PROVE  /\ Tail(s) \in Seq(S) /\ Len(Tail(s)) = Len(s) - 1
         /\ \A i \in 1..Len(s) - 1 : Tail(s)[i] = s[i + 1]
         /\ Len(s) >= 1 /\ Head(s) = s[1] /\ s[1] \in S
  OBVIOUS

(* The files of the jobs, as pairs. *)
LEMMA FilesArePairs ==
  ASSUME NEW f
  PROVE  f \in Files <=> \E j \in 1..MaxJobs : \E i \in 1..Sizes[j] : f = <<j, i>>
  BY DEF Files

(* The next file of a job is a file. *)
LEMMA NextFileType == current \in Files => NextFile \in Files \cup {None}
<1> SUFFICES ASSUME current \in Files, NextFile # None PROVE NextFile \in Files
  OBVIOUS
<1>1. PICK j \in 1..MaxJobs : \E i \in 1..Sizes[j] : current = <<j, i>>
  BY FilesArePairs
<1>2. PICK i \in 1..Sizes[j] : current = <<j, i>>
  BY <1>1
<1>3. NextFile = <<j, i + 1>> /\ i < Sizes[j]
  BY <1>2 DEF NextFile
<1>4. i + 1 \in 1..Sizes[j]
  BY <1>2, <1>3
<1> QED
  BY <1>3, <1>4, FilesArePairs

-----------------------------------------------------------------------------
(* What publish does to the log, the ring buffer and the queues. *)
LEMMA Published ==
  ASSUME Shape, Ring, NEW events \in Seq(EventType), Publish(events)
  PROVE  /\ log' \in Seq(EventType) /\ Len(log') = Len(log) + Len(events)
         /\ \A i \in 1..Len(log) : log'[i] = log[i]
         /\ \A i \in 1..Len(events) : log'[Len(log) + i] = events[i]
         /\ Ring'
<1>1. /\ log' = log \o events /\ log \in Seq(EventType) /\ Len(log) \in Nat /\ Len(events) \in Nat
      /\ buffer' = Latest(buffer \o events) /\ buffer \in Seq(EventType) /\ Len(buffer) \in Nat
  BY DEF Shape, Ring, Publish
<1>2. /\ log' \in Seq(EventType) /\ Len(log') = Len(log) + Len(events)
      /\ \A i \in 1..Len(log) : log'[i] = log[i]
      /\ \A i \in 1..Len(events) : log'[Len(log) + i] = events[i]
  BY <1>1, Joined
<1> DEFINE both == buffer \o events
           keep == IF Len(both) > BufferSize THEN BufferSize ELSE Len(both)
<1>3. /\ both \in Seq(EventType) /\ Len(both) = Len(buffer) + Len(events)
      /\ \A i \in 1..Len(buffer) : both[i] = buffer[i]
      /\ \A i \in 1..Len(events) : both[Len(buffer) + i] = events[i]
  BY <1>1, Joined
<1>4. /\ buffer' \in Seq(EventType) /\ Len(buffer') = keep
      /\ \A i \in 1..keep : buffer'[i] = both[Len(both) - keep + i]
  BY <1>1, <1>3, Trimmed
<1> HIDE DEF both
<1>7. /\ Len(both) \in Nat /\ keep \in Nat /\ keep <= Len(both)
      /\ keep = IF Len(log') > BufferSize THEN BufferSize ELSE Len(log')
  BY <1>1, <1>2, <1>3 DEF Ring
<1> HIDE DEF keep
<1>5. Len(buffer') = IF Len(log') > BufferSize THEN BufferSize ELSE Len(log')
  BY <1>4, <1>7
<1>6. ASSUME NEW i \in 1..Len(buffer') PROVE buffer'[i] = log'[Len(log') - Len(buffer') + i]
  <2> DEFINE k == Len(both) - keep + i
  <2>0. i \in 1..keep
    BY <1>4
  <2>1. k \in 1..Len(both) /\ buffer'[i] = both[k]
    <3>1. buffer'[i] = both[k]
      BY <1>4, <2>0
    <3>2. k \in 1..Len(both)
      BY <1>7, <2>0
    <3> QED
      BY <3>1, <3>2
  <2>4. k = Len(both) - keep + i /\ i \in Int /\ k \in Int
    BY <1>7, <2>0
  <2> HIDE DEF k
  <2>5. k <= Len(buffer) \/ k > Len(buffer)
    BY <1>1, <2>4
  <2>2. CASE k <= Len(buffer)
    <3>1. k \in 1..Len(buffer) /\ both[k] = buffer[k]
      BY <1>1, <1>3, <2>1, <2>2
    <3>2. buffer[k] = log[Len(log) - Len(buffer) + k]
      BY <3>1 DEF Ring
    <3>3. Len(log) - Len(buffer) + k = Len(log') - Len(buffer') + i
      BY <1>1, <1>2, <1>3, <1>4, <1>7, <2>4
    <3>4. Len(log) - Len(buffer) + k \in 1..Len(log)
      <4>1. Len(buffer) <= Len(log)
        BY <1>1 DEF Ring
      <4> QED
        BY <4>1, <3>1, <1>1
    <3> QED
      BY <1>2, <2>1, <3>1, <3>2, <3>3, <3>4
  <2>3. CASE k > Len(buffer)
    <3>1. PICK n, e \in Nat : n = Len(buffer) /\ e = Len(events)
      BY <1>1
    <3>2. k \in 1..(n + e)
      BY <1>3, <2>1, <3>1
    <3>3. k - n \in 1..e /\ n + (k - n) = k
      BY <2>3, <3>1, <3>2
    <3>4. both[n + (k - n)] = events[k - n]
      BY <1>3, <3>1, <3>3
    <3>5. Len(log') - Len(buffer') + i = Len(log) + (k - n)
      BY <1>1, <1>2, <1>3, <1>4, <1>7, <2>4, <3>1
    <3>6. log'[Len(log) + (k - n)] = events[k - n]
      BY <1>2, <3>1, <3>3
    <3> QED
      BY <2>1, <3>3, <3>4, <3>5, <3>6
  <2> QED
    BY <2>2, <2>3, <2>5
<1> QED
  BY <1>2, <1>4, <1>5, <1>6 DEF Ring

(* A queue that still listens has all of what is published; any other has a *)
(* first part of it.                                                        *)
LEMMA Queued ==
  ASSUME Shape, NEW events \in Seq(EventType), Publish(events)
  PROVE  /\ listening' \subseteq listening
         /\ queue' \in [Pages -> Seq(EventType)]
         /\ \A c \in Pages : c \notin listening => queue'[c] = queue[c]
         /\ \A c \in listening :
              /\ Len(queue'[c]) <= QueueSize
              /\ Len(queue'[c]) <= Len(queue[c]) + Len(events)
              /\ c \in listening' => Len(queue'[c]) = Len(queue[c]) + Len(events)
              /\ \A i \in 1..Len(queue'[c]) :
                   queue'[c][i] = IF i <= Len(queue[c]) THEN queue[c][i]
                                                        ELSE events[i - Len(queue[c])]
<1>1. listening' = {c \in listening : Len(queue[c]) + Len(events) <= QueueSize}
  BY DEF Publish
<1>2. ASSUME NEW c \in Pages
      PROVE  queue'[c] = IF c \in listening
                           THEN LET q == queue[c] \o events
                                IN  SubSeq(q, 1, IF Len(q) > QueueSize THEN QueueSize ELSE Len(q))
                           ELSE queue[c]
  BY DEF Publish, Listening
<1>3. DOMAIN queue' = Pages /\ queue' = [c \in Pages |-> queue'[c]]
  BY DEF Publish
<1>4. ASSUME NEW c \in listening
      PROVE  /\ queue'[c] \in Seq(EventType)
             /\ Len(queue'[c]) <= QueueSize
             /\ Len(queue'[c]) <= Len(queue[c]) + Len(events)
             /\ c \in listening' => Len(queue'[c]) = Len(queue[c]) + Len(events)
             /\ \A i \in 1..Len(queue'[c]) :
                  queue'[c][i] = IF i <= Len(queue[c]) THEN queue[c][i]
                                                       ELSE events[i - Len(queue[c])]
  <2>1. c \in Pages /\ queue[c] \in Seq(EventType) /\ Len(queue[c]) \in Nat /\ Len(events) \in Nat
    BY DEF Shape
  <2> DEFINE q == queue[c] \o events
  <2>2. /\ q \in Seq(EventType) /\ Len(q) = Len(queue[c]) + Len(events)
        /\ \A i \in 1..Len(queue[c]) + Len(events) :
             q[i] = IF i <= Len(queue[c]) THEN queue[c][i] ELSE events[i - Len(queue[c])]
    BY <2>1, Joined
  <2>3. queue'[c] = SubSeq(q, 1, IF Len(q) > QueueSize THEN QueueSize ELSE Len(q))
    BY <1>2, <2>1
  <2> HIDE DEF q
  <2>4. /\ queue'[c] \in Seq(EventType)
        /\ Len(queue'[c]) = IF Len(q) > QueueSize THEN QueueSize ELSE Len(q)
        /\ \A i \in 1..Len(queue'[c]) : queue'[c][i] = q[i]
    BY <2>2, <2>3, Capped
  <2> QED
    BY <1>1, <2>1, <2>2, <2>4
<1>5. queue' \in [Pages -> Seq(EventType)]
  <2>1. ASSUME NEW c \in Pages PROVE queue'[c] \in Seq(EventType)
    BY <1>2, <1>4 DEF Shape
  <2> QED
    BY <1>3, <2>1
<1> QED
  BY <1>1, <1>2, <1>4, <1>5

(* What followed the log follows it still, and so does what is published. *)
LEMMA StreamsPublished ==
  ASSUME StreamIInv, NEW events \in Seq(EventType), Publish(events),
         UNCHANGED <<connected, replay, start, got>>
  PROVE  Streams'
<1>0. Shape /\ Ring /\ Streams
  BY DEF StreamIInv
<1>p. /\ log' \in Seq(EventType) /\ Len(log') = Len(log) + Len(events)
      /\ \A i \in 1..Len(log) : log'[i] = log[i]
      /\ \A i \in 1..Len(events) : log'[Len(log) + i] = events[i]
  BY <1>0, Published
<1>n. Len(log) \in Nat /\ Len(events) \in Nat /\ Len(log') = Len(log) + Len(events)
  BY <1>0, <1>p DEF Shape
<1> SUFFICES ASSUME NEW c \in Pages
             PROVE  IF c \in connected' THEN Stream(c)' ELSE replay'[c] = <<>> /\ queue'[c] = <<>>
  BY DEF Streams
<1>1. CASE c \notin connected
  <2>1. c \notin listening
    BY <1>0, <1>1 DEF Shape
  <2>2. queue'[c] = queue[c]
    BY <1>0, <2>1, Queued
  <2> QED
    BY <1>0, <1>1, <2>2 DEF Streams
<1>2. CASE c \in connected
  <2>1. Stream(c)
    BY <1>0, <1>2 DEF Streams
  <2>2. /\ Handled(c)' = Handled(c) /\ Replayed(c)' = Replayed(c)
        /\ start[c] \in Nat /\ Handled(c) \in Nat /\ Replayed(c) \in Nat /\ Len(queue[c]) \in Nat
        /\ Len(got[c]) \in Nat /\ Len(replay[c]) \in Nat
    BY <1>0 DEF Handled, Replayed, Shape
  <2>3. /\ Follows(got[c], start[c])'
        /\ Follows(replay[c], Handled(c))'
    <3>1. ASSUME NEW s, NEW n \in Nat, Len(s) \in Nat, Follows(s, n)
          PROVE  /\ n + Len(s) <= Len(log')
                 /\ \A i \in 1..Len(s) : s[i] = log'[n + i]
      <4>1. n + Len(s) <= Len(log')
        BY <1>n, <1>p, <3>1 DEF Follows
      <4>2. ASSUME NEW i \in 1..Len(s) PROVE s[i] = log'[n + i]
        <5>1. n + i \in 1..Len(log)
          BY <1>n, <3>1 DEF Follows
        <5> QED
          BY <1>p, <3>1, <5>1 DEF Follows
      <4> QED
        BY <4>1, <4>2
    <3>2. Follows(got[c], start[c]) /\ Follows(replay[c], Handled(c))
      BY <2>1 DEF Stream
    <3>3. Follows(got[c], start[c])'
      <4>1. /\ start[c] + Len(got[c]) <= Len(log')
            /\ \A i \in 1..Len(got[c]) : got[c][i] = log'[start[c] + i]
        BY <3>1, <3>2, <2>2
      <4> QED
        BY <4>1 DEF Follows
    <3>4. Follows(replay[c], Handled(c))'
      <4>1. /\ Handled(c) + Len(replay[c]) <= Len(log')
            /\ \A i \in 1..Len(replay[c]) : replay[c][i] = log'[Handled(c) + i]
        BY <3>1, <3>2, <2>2
      <4> QED
        BY <4>1, <2>2 DEF Follows
    <3> QED
      BY <3>3, <3>4
  <2>4. CASE c \notin listening
    <3>1. queue'[c] = queue[c] /\ c \notin listening'
      BY <1>0, <2>4, Queued
    <3>2. Follows(queue[c], Replayed(c))
      BY <2>1 DEF Stream
    <3>3. Follows(queue[c], Replayed(c))'
      <4>1. Replayed(c)' + Len(queue'[c]) <= Len(log')
        BY <1>n, <1>p, <2>2, <3>1, <3>2 DEF Follows
      <4>2. ASSUME NEW i \in 1..Len(queue'[c]) PROVE queue'[c][i] = log'[Replayed(c)' + i]
        <5>1. Replayed(c) + i \in 1..Len(log) /\ i \in 1..Len(queue[c])
          BY <1>n, <2>2, <3>1, <3>2 DEF Follows
        <5> QED
          BY <1>p, <2>2, <3>1, <3>2, <5>1 DEF Follows
      <4> QED
        BY <4>1, <4>2 DEF Follows
    <3> QED
      BY <1>2, <2>1, <2>3, <3>1, <3>3 DEF Stream
  <2>5. CASE c \in listening
    <3>1. Replayed(c) + Len(queue[c]) = Len(log) /\ Follows(queue[c], Replayed(c))
      BY <2>1, <2>5 DEF Stream
    <3>q. /\ Len(queue'[c]) <= QueueSize
          /\ Len(queue'[c]) <= Len(queue[c]) + Len(events)
          /\ c \in listening' => Len(queue'[c]) = Len(queue[c]) + Len(events)
          /\ \A i \in 1..Len(queue'[c]) :
               queue'[c][i] = IF i <= Len(queue[c]) THEN queue[c][i]
                                                    ELSE events[i - Len(queue[c])]
          /\ Len(queue'[c]) \in Nat
      <4>1. queue' \in [Pages -> Seq(EventType)]
        BY <1>0, Queued
      <4> QED
        BY <1>0, <2>5, <4>1, Queued
    <3>l. /\ Len(queue'[c]) <= Len(queue[c]) + Len(events)
          /\ c \in listening' => Len(queue'[c]) = Len(queue[c]) + Len(events)
          /\ Len(queue'[c]) \in Nat
          /\ Replayed(c) + Len(queue[c]) = Len(log)
      BY <3>1, <3>q
    <3>2. ASSUME NEW i \in 1..Len(queue'[c]) PROVE queue'[c][i] = log'[Replayed(c)' + i]
      <4>0. i \in Nat /\ i >= 1 /\ i <= Len(queue[c]) + Len(events)
        BY <2>2, <1>n, <3>q
      <4>1. CASE i <= Len(queue[c])
        <5>1. i \in 1..Len(queue[c]) /\ Replayed(c) + i \in 1..Len(log)
          BY <1>n, <2>2, <3>1, <4>0, <4>1
        <5>2. queue'[c][i] = queue[c][i]
          BY <3>q, <4>1
        <5>3. queue[c][i] = log[Replayed(c) + i]
          BY <3>1, <5>1 DEF Follows
        <5> QED
          BY <1>p, <2>2, <5>1, <5>2, <5>3
      <4>2. CASE ~(i <= Len(queue[c]))
        <5>1. i - Len(queue[c]) \in 1..Len(events)
          BY <1>n, <2>2, <4>0, <4>2
        <5>3. Replayed(c) + i = Len(log) + (i - Len(queue[c]))
          <6>1. \A m, n, k \in Int : m + k = (m + n) + (k - n)
            OBVIOUS
          <6>2. Replayed(c) \in Int
            BY <2>2
          <6>3. i \in Int
            BY <4>0
          <6>4. Len(queue[c]) \in Int
            BY <2>2
          <6>5. Len(log) = Replayed(c) + Len(queue[c])
            BY <3>l
          <6>6. Replayed(c) + i = (Replayed(c) + Len(queue[c])) + (i - Len(queue[c]))
            BY <6>1, <6>2, <6>3, <6>4
          <6> QED
            BY <6>5, <6>6
        <5>2. queue'[c][i] = events[i - Len(queue[c])]
          BY <3>q, <4>2
        <5> QED
          BY <1>p, <2>2, <5>1, <5>2, <5>3
      <4> QED
        BY <4>1, <4>2
    <3>3. Follows(queue[c], Replayed(c))'
      <4>1. Replayed(c)' + Len(queue'[c]) <= Len(log')
        BY <1>n, <2>2, <3>l
      <4> QED
        BY <4>1, <3>2 DEF Follows
    <3>4. c \in listening' => Replayed(c)' + Len(queue'[c]) = Len(log')
      BY <1>n, <2>2, <3>l
    <3> QED
      BY <1>2, <2>1, <2>3, <3>q, <3>3, <3>4 DEF Stream
  <2> QED
    BY <1>2, <2>4, <2>5
<1> QED
  BY <1>1, <1>2

-----------------------------------------------------------------------------
(* What the worker publishes. *)

(* Every event of the worker is well formed. *)
LEMMA EventsTyped ==
  /\ \A f \in Files : Step(f) \in EventType /\ FileStarted(f) \in EventType
  /\ \A f \in Files : \A t \in Outcomes : FileFinished(f, t) \in EventType
  /\ \A t \in {"empty", None} : Event("job_finished", None, t) \in EventType
  /\ Event("job_started", None, None) \in EventType
  BY DEF EventType, Step, FileFinished, FileStarted, Event, Types, Outcomes

(* The events that start a job, and those that end one or go on to its next *)
(* file.                                                                    *)
LEMMA BurstsTyped ==
  /\ \A f \in Files : Started(f) \in Seq(EventType)
  /\ <<Event("job_finished", None, "empty")>> \in Seq(EventType)
  /\ current \in Files => \A t \in Outcomes :
       <<FileFinished(current, t)>> \o AndThen(t) \in Seq(EventType)
<1>1. ASSUME NEW e \in EventType PROVE <<e>> \in Seq(EventType)
  OBVIOUS
<1>2. \A f \in Files : Started(f) \in Seq(EventType)
  <2>1. ASSUME NEW d \in EventType, NEW e \in EventType PROVE <<d, e>> \in Seq(EventType)
    OBVIOUS
  <2> QED
    BY <2>1, EventsTyped DEF Started
<1>3. <<Event("job_finished", None, "empty")>> \in Seq(EventType)
  BY <1>1, EventsTyped
<1>4. ASSUME current \in Files, NEW t \in Outcomes
      PROVE  <<FileFinished(current, t)>> \o AndThen(t) \in Seq(EventType)
  <2>1. <<FileFinished(current, t)>> \in Seq(EventType)
    BY <1>1, <1>4, EventsTyped
  <2>2. AndThen(t) \in Seq(EventType)
    <3>1. NextFile # None => NextFile \in Files
      BY <1>4, NextFileType
    <3> QED
      BY <1>1, <3>1, EventsTyped DEF AndThen, Farewell
  <2>3. ASSUME NEW a \in Seq(EventType), NEW b \in Seq(EventType) PROVE a \o b \in Seq(EventType)
    OBVIOUS
  <2> QED
    BY <2>1, <2>2, <2>3
<1> QED
  BY <1>2, <1>3, <1>4

-----------------------------------------------------------------------------
(* Every step keeps the streams in the log. *)


(* The first file of the next job. *)
LEMMA FirstFile == Shape /\ jobs < MaxJobs => <<jobs + 1, 1>> \in Files
<1> SUFFICES ASSUME Shape, jobs < MaxJobs PROVE <<jobs + 1, 1>> \in Files
  OBVIOUS
<1>1. jobs + 1 \in 1..MaxJobs
  BY DEF Shape
<1>2. 1 \in 1..Sizes[jobs + 1]
  BY <1>1
<1> QED
  BY <1>1, <1>2, FilesArePairs


(* Actions that publish leave the streams in the log. *)
LEMMA StartKeeps ==
  ASSUME StreamIInv, NEW who \in Pages \cup {None}, NEW events \in Seq(EventType),
         NEW f \in Files \cup {None}, StartWith(who, events, f)
  PROVE  StreamIInv'
<1>1. /\ Shape /\ Ring /\ Publish(events)
      /\ UNCHANGED <<connected, replay, start, got>>
  BY DEF StreamIInv, StartWith
<1>2. Ring' /\ log' \in Seq(EventType)
  BY <1>1, Published
<1>3. Streams'
  BY <1>1, StreamsPublished
<1>4. listening' \subseteq listening /\ queue' \in [Pages -> Seq(EventType)]
  BY <1>1, Queued
<1>5. /\ jobs < MaxJobs /\ jobs' = jobs + 1 /\ current' = f /\ retrying' = who
      /\ UNCHANGED <<answered, raised, steps, connected, replay, busy, missed, connects, start, got>>
  BY DEF StartWith
<1>6. jobs' \in 0..MaxJobs
  BY <1>1, <1>5 DEF Shape
<1>7. Shape'
  BY <1>1, <1>2, <1>4, <1>5, <1>6 DEF Shape
<1> QED
  BY <1>2, <1>3, <1>7 DEF StreamIInv

(* How jobs start: the events and the file. *)
LEMMA Starts ==
  ASSUME Shape, StartJob \/ NothingToDo \/ \E c \in Pages : Retry(c)
  PROVE  \E who \in Pages \cup {None} : \E events \in Seq(EventType) :
           \E f \in Files \cup {None} : StartWith(who, events, f)
<1> DEFINE f == <<jobs + 1, 1>>
           none == <<Event("job_finished", None, "empty")>>
<1>1. jobs < MaxJobs
  BY DEF StartJob, NothingToDo, Retry, StartWith
<1>2. f \in Files /\ Started(f) \in Seq(EventType) /\ none \in Seq(EventType)
  BY <1>1, FirstFile, BurstsTyped
<1>3. CASE StartJob
  <2>1. StartWith(None, Started(f), f)
    BY <1>3 DEF StartJob
  <2> HIDE DEF f
  <2> QED
    BY <1>2, <2>1
<1>4. CASE NothingToDo
  <2>1. StartWith(None, none, None)
    BY <1>4 DEF NothingToDo
  <2> HIDE DEF none
  <2> QED
    BY <1>2, <2>1
<1>5. CASE \E c \in Pages : Retry(c)
  <2>1. PICK c \in Pages : StartWith(c, Started(f), f)
    BY <1>5 DEF Retry
  <2> HIDE DEF f
  <2> QED
    BY <1>2, <2>1
<1> QED
  BY <1>3, <1>4, <1>5

(* Another step of a file leaves the streams in the log. *)
LEMMA SayStepKeeps ==
  ASSUME StreamIInv, NEW f \in Files, SayStep(f)
  PROVE  StreamIInv'
<1>1. /\ Shape /\ Ring /\ steps < MaxSteps /\ steps' = steps + 1
      /\ Publish(<<Step(f)>>)
      /\ UNCHANGED <<current, retrying, answered, jobs, raised, connected, replay, busy, missed,
                     connects, start, got>>
  BY DEF StreamIInv, SayStep
<1>2. PICK events : events = <<Step(f)>>
  OBVIOUS
<1>3. events \in Seq(EventType) /\ Publish(events)
  BY <1>1, <1>2, EventsTyped
<1>4. Ring' /\ log' \in Seq(EventType)
  BY <1>1, <1>3, Published
<1>5. Streams'
  BY <1>1, <1>3, StreamsPublished
<1>6. listening' \subseteq listening /\ queue' \in [Pages -> Seq(EventType)]
  BY <1>1, <1>3, Queued
<1>7. steps' \in 0..MaxSteps
  BY <1>1 DEF Shape
<1>8. Shape'
  BY <1>1, <1>4, <1>6, <1>7 DEF Shape
<1> QED
  BY <1>4, <1>5, <1>8 DEF StreamIInv

(* So does leaving a file, whatever is said of its end. *)
LEMMA WorkerKeeps ==
  ASSUME StreamIInv, WorkerStep
  PROVE  StreamIInv'
<1>0. Shape /\ Ring
  BY DEF StreamIInv
<1>1. PICK events, answer :
         /\ LeaveFile(events, answer)
         /\ answer \subseteq Pages \cup {None}
         /\ raised' \subseteq raised \cup {current}
         /\ events = <<>> \/ \E t \in Outcomes : events = <<FileFinished(current, t)>> \o AndThen(t)
  <2>1. ASSUME NEW t \in Outcomes, FinishFile(t)
        PROVE  \E answer : /\ LeaveFile(<<FileFinished(current, t)>> \o AndThen(t), answer)
                           /\ answer \subseteq Pages \cup {None} /\ raised' = raised
    BY <1>0, <2>1 DEF FinishFile, Shape
  <2>2. CASE \E t \in Outcomes : FinishFile(t)
    BY <2>1, <2>2
  <2>3. CASE PipelineRaises
    <3>1. LeaveFile(<<>>, {}) /\ raised' = raised \cup {current}
      BY <2>3 DEF PipelineRaises
    <3> QED
      BY <3>1
  <2> QED
    BY <2>2, <2>3 DEF WorkerStep
<1>2. /\ current # None /\ Publish(events) /\ current' = NextFile /\ retrying' = None
      /\ answered' = answered \cup (answer \ {None})
      /\ UNCHANGED <<jobs, steps, connected, replay, busy, missed, connects, start, got>>
  BY <1>1 DEF LeaveFile
<1>3. current \in Files
  BY <1>0, <1>2 DEF Shape
<1>4. events \in Seq(EventType)
  <2>1. <<>> \in Seq(EventType)
    OBVIOUS
  <2> QED
    BY <1>1, <1>3, <2>1, BurstsTyped
<1>5. Ring' /\ log' \in Seq(EventType)
  BY <1>0, <1>2, <1>4, Published
<1>6. Streams'
  BY <1>2, <1>4, StreamsPublished
<1>7. listening' \subseteq listening /\ queue' \in [Pages -> Seq(EventType)]
  BY <1>0, <1>2, <1>4, Queued
<1>8. current' \in Files \cup {None}
  BY <1>2, <1>3, NextFileType
<1>9. Shape'
  BY <1>0, <1>1, <1>2, <1>3, <1>5, <1>7, <1>8 DEF Shape
<1> QED
  BY <1>5, <1>6, <1>9 DEF StreamIInv


(* A stream begins with the buffer, which is the end of the log. *)
LEMMA ConnectKeeps ==
  ASSUME StreamIInv, NEW c \in Pages, Connect(c)
  PROVE  StreamIInv'
<1>0. Shape /\ Ring /\ Streams
  BY DEF StreamIInv
<1>1. /\ c \notin connected /\ connects[c] < MaxConnects
      /\ connects' = [connects EXCEPT ![c] = connects[c] + 1]
      /\ connected' = connected \cup {c}
      /\ listening' = listening \cup {c}
      /\ replay' = [replay EXCEPT ![c] = buffer]
      /\ queue' = [queue EXCEPT ![c] = <<>>]
      /\ missed' \subseteq missed \cup {c}
      /\ start' = [start EXCEPT ![c] = Len(log) - Len(buffer)]
      /\ got' = [got EXCEPT ![c] = <<>>]
      /\ UNCHANGED <<current, retrying, answered, jobs, raised, steps, buffer, busy, log>>
  BY DEF Connect, worker
<1>2. /\ buffer \in Seq(EventType) /\ Len(buffer) \in Nat /\ Len(log) \in Nat
      /\ Len(log) - Len(buffer) \in Nat /\ Len(buffer) <= BufferSize
  BY <1>0 DEF Ring, Shape
<1>3. <<>> \in Seq(EventType) /\ Len(<<>>) = 0
  OBVIOUS
<1>6. connects' \in [Pages -> 0..MaxConnects]
  BY <1>0, <1>1 DEF Shape
<1>7. /\ replay' \in [Pages -> Seq(EventType)] /\ queue' \in [Pages -> Seq(EventType)]
      /\ got' \in [Pages -> Seq(EventType)] /\ start' \in [Pages -> Nat]
  BY <1>0, <1>1, <1>2, <1>3 DEF Shape
<1>8. Shape'
  BY <1>0, <1>1, <1>6, <1>7 DEF Shape
<1>9. Ring'
  BY <1>0, <1>1 DEF Ring
<1>10. Stream(c)'
  <2>1. /\ got'[c] = <<>> /\ replay'[c] = buffer /\ queue'[c] = <<>>
        /\ start'[c] = Len(log) - Len(buffer) /\ log' = log
    BY <1>0, <1>1 DEF Shape
  <2>2. Handled(c)' = Len(log) - Len(buffer) /\ Replayed(c)' = Len(log)
    BY <1>2, <1>3, <2>1 DEF Handled, Replayed
  <2>3. Follows(got[c], start[c])'
    BY <1>2, <1>3, <2>1 DEF Follows
  <2>4. Follows(replay[c], Handled(c))'
    <3>1. (Len(log) - Len(buffer)) + Len(buffer) <= Len(log)
      BY <1>2
    <3> QED
      BY <1>0, <2>1, <2>2, <3>1 DEF Follows, Ring
  <2>5. Follows(queue[c], Replayed(c))'
    BY <1>2, <1>3, <2>1, <2>2 DEF Follows
  <2> QED
    BY <1>2, <1>3, <2>1, <2>2, <2>3, <2>4, <2>5 DEF Stream
<1>11. ASSUME NEW d \in Pages, d # c
       PROVE  IF d \in connected' THEN Stream(d)' ELSE replay'[d] = <<>> /\ queue'[d] = <<>>
  <2>1. /\ got'[d] = got[d] /\ replay'[d] = replay[d] /\ queue'[d] = queue[d]
        /\ start'[d] = start[d] /\ log' = log
        /\ d \in connected' <=> d \in connected
        /\ d \in listening' <=> d \in listening
    BY <1>0, <1>1, <1>11 DEF Shape
  <2>2. IF d \in connected THEN Stream(d) ELSE replay[d] = <<>> /\ queue[d] = <<>>
    BY <1>0 DEF Streams
  <2> QED
    BY <2>1, <2>2 DEF Stream, Follows, Handled, Replayed
<1>12. Streams'
  BY <1>1, <1>10, <1>11 DEF Streams
<1> QED
  BY <1>8, <1>9, <1>12 DEF StreamIInv

(* A stream that breaks off leaves nothing behind. *)
LEMMA DisconnectKeeps ==
  ASSUME StreamIInv, NEW c \in Pages, Disconnect(c)
  PROVE  StreamIInv'
<1>0. Shape /\ Ring /\ Streams
  BY DEF StreamIInv
<1>1. /\ connected' = connected \ {c} /\ listening' = listening \ {c}
      /\ replay' = [replay EXCEPT ![c] = <<>>]
      /\ queue' = [queue EXCEPT ![c] = <<>>]
      /\ UNCHANGED <<current, retrying, answered, jobs, raised, steps, buffer, busy, missed, connects,
                     log, start, got>>
  BY DEF Disconnect, worker
<1>2. <<>> \in Seq(EventType)
  OBVIOUS
<1>3. replay' \in [Pages -> Seq(EventType)] /\ queue' \in [Pages -> Seq(EventType)]
  BY <1>0, <1>1, <1>2 DEF Shape
<1>4. Shape' /\ Ring'
  BY <1>0, <1>1, <1>3 DEF Shape, Ring
<1>5. ASSUME NEW d \in Pages
      PROVE  IF d \in connected' THEN Stream(d)' ELSE replay'[d] = <<>> /\ queue'[d] = <<>>
  <2>1. CASE d = c
    BY <1>0, <1>1, <2>1 DEF Shape
  <2>2. CASE d # c
    <3>1. /\ got'[d] = got[d] /\ replay'[d] = replay[d] /\ queue'[d] = queue[d]
          /\ start'[d] = start[d] /\ log' = log
          /\ d \in connected' <=> d \in connected
          /\ d \in listening' <=> d \in listening
      BY <1>0, <1>1, <2>2 DEF Shape
    <3>2. IF d \in connected THEN Stream(d) ELSE replay[d] = <<>> /\ queue[d] = <<>>
      BY <1>0 DEF Streams
    <3> QED
      BY <3>1, <3>2 DEF Stream, Follows, Handled, Replayed
  <2> QED
    BY <2>1, <2>2
<1> QED
  BY <1>4, <1>5 DEF StreamIInv, Streams

(* What a stream sends next is the next event of the log. *)
LEMMA Sent ==
  ASSUME StreamIInv, NEW c \in Pages, Send(c)
  PROVE  LET e == log[Handled(c) + 1]
         IN  /\ c \in connected /\ Handled(c) \in Nat /\ Handled(c) + 1 <= Len(log) /\ e \in EventType
             /\ busy' = [busy EXCEPT ![c] = Shown(busy[c], e)] /\ missed' \subseteq missed
             /\ got' = [got EXCEPT ![c] = Append(got[c], e)]
             /\ UNCHANGED <<current, retrying, answered, jobs, raised, steps, buffer, log,
                            connected, listening, connects, start>>
             /\ \A d \in Pages : d # c => replay'[d] = replay[d] /\ queue'[d] = queue[d]
<1>0. Shape /\ Stream(c) /\ c \in connected
  BY DEF StreamIInv, Streams, Send, SendReplay, SendQueued
<1>1. /\ replay[c] \in Seq(EventType) /\ queue[c] \in Seq(EventType) /\ log \in Seq(EventType)
      /\ Len(replay[c]) \in Nat /\ Len(queue[c]) \in Nat /\ Len(log) \in Nat
      /\ Handled(c) \in Nat
  BY <1>0 DEF Shape, Handled
<1>2. CASE SendReplay(c)
  <2>1. replay[c] # <<>> /\ Handle(c, Head(replay[c])) /\ UNCHANGED queue
        /\ replay' = [replay EXCEPT ![c] = Tail(replay[c])]
    BY <1>2 DEF SendReplay
  <2>2. Len(replay[c]) >= 1 /\ Head(replay[c]) = replay[c][1]
    BY <1>1, <2>1, Rest
  <2>3. 1 \in 1..Len(replay[c]) /\ Handled(c) + 1 <= Len(log) /\ Head(replay[c]) = log[Handled(c) + 1]
    <3>1. Follows(replay[c], Handled(c))
      BY <1>0 DEF Stream
    <3>2. 1 \in 1..Len(replay[c])
      BY <1>1, <2>2
    <3>3. Handled(c) + 1 <= Len(log)
      BY <1>1, <2>2, <3>1 DEF Follows
    <3>4. replay[c][1] = log[Handled(c) + 1]
      BY <3>1, <3>2 DEF Follows
    <3> QED
      BY <2>2, <3>2, <3>3, <3>4
  <2>4. log[Handled(c) + 1] \in EventType
    BY <1>1, <2>3
  <2> DEFINE e == log[Handled(c) + 1]
  <2>5. Handle(c, e)
    BY <2>1, <2>3
  <2>6. \A d \in Pages : d # c => replay'[d] = replay[d] /\ queue'[d] = queue[d]
    BY <1>0, <2>1 DEF Shape
  <2> HIDE DEF e
  <2>7. /\ busy' = [busy EXCEPT ![c] = Shown(busy[c], e)] /\ missed' \subseteq missed
        /\ got' = [got EXCEPT ![c] = Append(got[c], e)]
        /\ UNCHANGED <<current, retrying, answered, jobs, raised, steps, buffer, log,
                       connected, listening, connects, start>>
    BY <2>5 DEF Handle, worker
  <2> QED
    BY <1>0, <1>1, <2>3, <2>4, <2>6, <2>7 DEF e
<1>3. CASE SendQueued(c)
  <2>1. replay[c] = <<>> /\ queue[c] # <<>> /\ Handle(c, Head(queue[c])) /\ UNCHANGED replay
        /\ queue' = [queue EXCEPT ![c] = Tail(queue[c])]
    BY <1>3 DEF SendQueued
  <2>2. Len(queue[c]) >= 1 /\ Head(queue[c]) = queue[c][1] /\ Replayed(c) = Handled(c)
    <3>1. Len(replay[c]) = 0
      BY <2>1
    <3> QED
      BY <1>1, <2>1, <3>1, Rest DEF Replayed
  <2>3. Handled(c) + 1 <= Len(log) /\ Head(queue[c]) = log[Handled(c) + 1]
    <3>1. Follows(queue[c], Handled(c))
      BY <1>0, <2>2 DEF Stream
    <3>2. 1 \in 1..Len(queue[c])
      BY <1>1, <2>2
    <3>3. Handled(c) + 1 <= Len(log)
      BY <1>1, <2>2, <3>1 DEF Follows
    <3>4. queue[c][1] = log[Handled(c) + 1]
      BY <3>1, <3>2 DEF Follows
    <3> QED
      BY <2>2, <3>3, <3>4
  <2>4. log[Handled(c) + 1] \in EventType
    BY <1>1, <2>3
  <2> DEFINE e == log[Handled(c) + 1]
  <2>5. Handle(c, e)
    BY <2>1, <2>3
  <2>6. \A d \in Pages : d # c => replay'[d] = replay[d] /\ queue'[d] = queue[d]
    BY <1>0, <2>1 DEF Shape
  <2> HIDE DEF e
  <2>7. /\ busy' = [busy EXCEPT ![c] = Shown(busy[c], e)] /\ missed' \subseteq missed
        /\ got' = [got EXCEPT ![c] = Append(got[c], e)]
        /\ UNCHANGED <<current, retrying, answered, jobs, raised, steps, buffer, log,
                       connected, listening, connects, start>>
    BY <2>5 DEF Handle, worker
  <2> QED
    BY <1>0, <1>1, <2>3, <2>4, <2>6, <2>7 DEF e
<1> QED
  BY <1>2, <1>3 DEF Send

(* What is left of a sequence that follows the log from n on follows it from *)
(* n + 1 on.                                                                 *)
LEMMA RestFollows ==
  ASSUME NEW s \in Seq(EventType), s # <<>>, NEW n \in Nat, Follows(s, n), Len(log) \in Nat
  PROVE  Follows(Tail(s), n + 1)
<1>1. /\ Len(Tail(s)) = Len(s) - 1 /\ Len(s) \in Nat
      /\ \A i \in 1..Len(s) - 1 : Tail(s)[i] = s[i + 1]
  BY Rest
<1>2. (n + 1) + Len(Tail(s)) <= Len(log)
  BY <1>1 DEF Follows
<1>3. ASSUME NEW i \in 1..Len(Tail(s)) PROVE Tail(s)[i] = log[(n + 1) + i]
  <2>1. i \in 1..Len(s) - 1 /\ i + 1 \in 1..Len(s)
    BY <1>1
  <2>2. s[i + 1] = log[n + (i + 1)] /\ Tail(s)[i] = s[i + 1]
    BY <1>1, <2>1 DEF Follows
  <2>3. n + (i + 1) = (n + 1) + i
    BY <2>1
  <2> QED
    BY <2>2, <2>3
<1> QED
  BY <1>2, <1>3 DEF Follows

(* What is sent is handled next, and the rest follows it. *)
LEMMA SendKeeps ==
  ASSUME StreamIInv, NEW c \in Pages, Send(c)
  PROVE  StreamIInv'
<1>0. Shape /\ Ring /\ Streams /\ Stream(c)
  BY Sent DEF StreamIInv, Streams
<1>1. PICK e : e = log[Handled(c) + 1]
  OBVIOUS
<1>2. /\ c \in connected /\ Handled(c) \in Nat /\ Handled(c) + 1 <= Len(log) /\ e \in EventType
      /\ busy' = [busy EXCEPT ![c] = Shown(busy[c], e)] /\ missed' \subseteq missed
      /\ got' = [got EXCEPT ![c] = Append(got[c], e)]
      /\ UNCHANGED <<current, retrying, answered, jobs, raised, steps, buffer, log,
                     connected, listening, connects, start>>
      /\ \A d \in Pages : d # c => replay'[d] = replay[d] /\ queue'[d] = queue[d]
  BY <1>1, Sent
<1>3. /\ replay[c] \in Seq(EventType) /\ queue[c] \in Seq(EventType) /\ got[c] \in Seq(EventType)
      /\ Len(got[c]) \in Nat /\ Len(log) \in Nat /\ start[c] \in Nat
      /\ Len(replay[c]) \in Nat /\ Len(queue[c]) \in Nat
  BY <1>0 DEF Shape
<1>4. /\ Append(got[c], e) \in Seq(EventType) /\ Len(Append(got[c], e)) = Len(got[c]) + 1
      /\ \A i \in 1..Len(got[c]) : Append(got[c], e)[i] = got[c][i]
      /\ Append(got[c], e)[Len(got[c]) + 1] = e
  BY <1>2, <1>3
<1>5. got'[c] = Append(got[c], e) /\ got' \in [Pages -> Seq(EventType)]
  BY <1>0, <1>2, <1>4 DEF Shape
<1>6. busy' \in [Pages -> {"no", "job", "retry"}]
  BY <1>0, <1>2 DEF Shape, Shown
<1>7. Len(got'[c]) = Len(got[c]) + 1
  BY <1>4, <1>5
<1>n. /\ start[c] \in Nat /\ Len(got[c]) \in Nat /\ Handled(c) = start[c] + Len(got[c])
      /\ Handled(c)' = start[c] + Len(got'[c])
  BY <1>2, <1>3 DEF Handled
<1>8. Handled(c)' = Handled(c) + 1
  BY <1>n, <1>7
<1>9. Follows(got[c], start[c])'
  <2>1. start[c] + Len(got'[c]) <= Len(log)
    BY <1>2, <1>3, <1>7 DEF Handled
  <2>2. ASSUME NEW i \in 1..Len(got'[c]) PROVE got'[c][i] = log[start[c] + i]
    <3>1. CASE i \in 1..Len(got[c])
      BY <1>0, <1>4, <1>5, <3>1 DEF Stream, Follows
    <3>2. CASE i = Len(got[c]) + 1
      <4>1. start[c] + (Len(got[c]) + 1) = Handled(c) + 1
        <5>1. \A m, n \in Int : m + (n + 1) = (m + n) + 1
          OBVIOUS
        <5>2. start[c] \in Int /\ Len(got[c]) \in Int
          BY <1>n
        <5>3. start[c] + (Len(got[c]) + 1) = (start[c] + Len(got[c])) + 1
          BY <5>1, <5>2
        <5> QED
          BY <1>n, <5>3
      <4>2. start[c] + i = Handled(c) + 1
        BY <3>2, <4>1
      <4> QED
        BY <1>1, <1>4, <1>5, <3>2, <4>2
    <3> QED
      BY <1>3, <1>7, <3>1, <3>2
  <2> QED
    BY <1>2, <2>1, <2>2 DEF Follows
<1>10. ASSUME NEW d \in Pages, d # c
       PROVE  IF d \in connected' THEN Stream(d)' ELSE replay'[d] = <<>> /\ queue'[d] = <<>>
  <2>1. /\ got'[d] = got[d] /\ replay'[d] = replay[d] /\ queue'[d] = queue[d]
        /\ start'[d] = start[d] /\ log' = log /\ connected' = connected /\ listening' = listening
    BY <1>0, <1>2, <1>10 DEF Shape
  <2>2. IF d \in connected THEN Stream(d) ELSE replay[d] = <<>> /\ queue[d] = <<>>
    BY <1>0 DEF Streams
  <2> QED
    BY <2>1, <2>2 DEF Stream, Follows, Handled, Replayed
<1>11. CASE SendReplay(c)
  <2>1. replay[c] # <<>> /\ UNCHANGED queue /\ replay' = [replay EXCEPT ![c] = Tail(replay[c])]
    BY <1>11 DEF SendReplay
  <2>2. /\ Tail(replay[c]) \in Seq(EventType) /\ Len(Tail(replay[c])) = Len(replay[c]) - 1
        /\ Follows(Tail(replay[c]), Handled(c) + 1)
    <3>1. Follows(replay[c], Handled(c))
      BY <1>0 DEF Stream
    <3> QED
      BY <1>2, <1>3, <2>1, <3>1, Rest, RestFollows
  <2>3. replay'[c] = Tail(replay[c]) /\ replay' \in [Pages -> Seq(EventType)]
    BY <1>0, <2>1, <2>2 DEF Shape
  <2>4. Replayed(c)' = Replayed(c)
    BY <1>2, <1>3, <1>8, <2>2, <2>3 DEF Replayed
  <2>5. Follows(replay[c], Handled(c))' /\ Follows(queue[c], Replayed(c))'
    BY <1>0, <1>2, <1>8, <2>1, <2>2, <2>3, <2>4 DEF Follows, Stream
  <2>6. Len(replay'[c]) <= BufferSize
    BY <1>0, <1>3, <2>2, <2>3 DEF Stream
  <2>7. Stream(c)'
    BY <1>0, <1>2, <1>9, <2>1, <2>4, <2>5, <2>6 DEF Stream
  <2>8. Shape' /\ Ring'
    BY <1>0, <1>2, <1>5, <1>6, <2>1, <2>3 DEF Shape, Ring
  <2>9. Streams'
    BY <1>2, <1>10, <2>7 DEF Streams
  <2> QED
    BY <2>8, <2>9 DEF StreamIInv
<1>12. CASE SendQueued(c)
  <2>1. /\ replay[c] = <<>> /\ queue[c] # <<>> /\ UNCHANGED replay
        /\ queue' = [queue EXCEPT ![c] = Tail(queue[c])]
    BY <1>12 DEF SendQueued
  <2>0. Len(replay[c]) = 0
    BY <2>1
  <2>2. Replayed(c) = Handled(c) /\ Replayed(c)' = Handled(c) + 1
    BY <1>2, <1>8, <2>0, <2>1 DEF Replayed
  <2>3. /\ Tail(queue[c]) \in Seq(EventType) /\ Len(Tail(queue[c])) = Len(queue[c]) - 1
        /\ Follows(Tail(queue[c]), Handled(c) + 1)
    <3>1. Follows(queue[c], Handled(c))
      BY <1>0, <2>2 DEF Stream
    <3> QED
      BY <1>2, <1>3, <2>1, <3>1, Rest, RestFollows
  <2>4. queue'[c] = Tail(queue[c]) /\ queue' \in [Pages -> Seq(EventType)]
    BY <1>0, <2>1, <2>3 DEF Shape
  <2>5. Follows(replay[c], Handled(c))'
    BY <1>2, <1>8, <2>0, <2>1 DEF Follows
  <2>6. Follows(queue[c], Replayed(c))'
    BY <1>2, <2>2, <2>3, <2>4 DEF Follows
  <2>7. c \in listening => Replayed(c)' + Len(queue'[c]) = Len(log)
    <3>1. c \in listening => Handled(c) + Len(queue[c]) = Len(log)
      BY <1>0, <2>2 DEF Stream
    <3>2. Len(queue'[c]) = Len(queue[c]) - 1
      BY <2>3, <2>4
    <3> QED
      BY <1>2, <1>3, <2>2, <3>1, <3>2
  <2>8. Len(queue'[c]) <= QueueSize
    BY <1>0, <1>3, <2>3, <2>4 DEF Stream
  <2>9. Stream(c)'
    BY <1>0, <1>2, <1>9, <2>1, <2>5, <2>6, <2>7, <2>8 DEF Stream
  <2>10. Shape' /\ Ring'
    BY <1>0, <1>2, <1>5, <1>6, <2>1, <2>4 DEF Shape, Ring
  <2>11. Streams'
    BY <1>2, <1>10, <2>9 DEF Streams
  <2> QED
    BY <2>10, <2>11 DEF StreamIInv
<1> QED
  BY <1>11, <1>12 DEF Send

(* The answer to a Retry touches no stream. *)
LEMMA AnsweredKeeps ==
  ASSUME StreamIInv, NEW c \in Pages, RetryAnswered(c)
  PROVE  StreamIInv'
<1>1. /\ Shape /\ Ring /\ Streams
      /\ answered' = answered \ {c} /\ busy' = [busy EXCEPT ![c] = "retry"]
      /\ UNCHANGED <<current, retrying, jobs, raised, steps, buffer, missed, log, connected, listening,
                     replay, queue, connects, start, got>>
  BY DEF StreamIInv, RetryAnswered, streams
<1>2. busy' \in [Pages -> {"no", "job", "retry"}]
  BY <1>1 DEF Shape
<1>3. Shape' /\ Ring'
  BY <1>1, <1>2 DEF Shape, Ring
<1>4. Streams'
  BY <1>1 DEF Streams, Stream, Follows, Handled, Replayed
<1> QED
  BY <1>3, <1>4 DEF StreamIInv

(* The invariant of the streams is inductive. *)
LEMMA StreamInit == Init => StreamIInv
<1> SUFFICES ASSUME Init PROVE StreamIInv
  OBVIOUS
<1>1. <<>> \in Seq(EventType) /\ Len(<<>>) = 0
  OBVIOUS
<1>3. Shape
  BY <1>1 DEF Init, Shape
<1>4. Ring
  BY <1>1 DEF Init, Ring
<1>5. Streams
  BY <1>1 DEF Init, Streams
<1> QED
  BY <1>3, <1>4, <1>5 DEF StreamIInv


(* Every step keeps the streams in the log. *)
LEMMA StreamNext == StreamIInv /\ [Next]_vars => StreamIInv'
<1> SUFFICES ASSUME StreamIInv, [Next]_vars PROVE StreamIInv'
  OBVIOUS
<1>0. Shape
  BY DEF StreamIInv
<1>1. ASSUME StartJob \/ NothingToDo \/ \E c \in Pages : Retry(c) PROVE StreamIInv'
  BY <1>0, <1>1, Starts, StartKeeps
<1>2. ASSUME WorkerStep PROVE StreamIInv'
  BY <1>2, WorkerKeeps
<1>3. ASSUME NEW f \in Files, SayStep(f) PROVE StreamIInv'
  BY <1>3, SayStepKeeps
<1>4. ASSUME NEW c \in Pages, Connect(c) \/ Disconnect(c) \/ Send(c) \/ RetryAnswered(c)
      PROVE  StreamIInv'
  BY <1>4, ConnectKeeps, DisconnectKeeps, SendKeeps, AnsweredKeeps
<1>5. ASSUME UNCHANGED vars PROVE StreamIInv'
  BY <1>5 DEF StreamIInv, Shape, Ring, Streams, Stream, Follows, Handled, Replayed, vars
<1> QED
  BY <1>1, <1>2, <1>3, <1>4, <1>5 DEF Next

(* Every behaviour keeps the streams in the log. *)
LEMMA StreamInvariant == Spec => []StreamIInv
  BY StreamInit, StreamNext, PTL DEF Spec

-----------------------------------------------------------------------------
(* What TLC checks follows. *)

\* Types, and the ring buffer and the queues within their limits.
THEOREM TypeCorrect == Spec => []TypeOK
<1>1. StreamIInv => TypeOK
  <2> SUFFICES ASSUME StreamIInv PROVE TypeOK
    OBVIOUS
  <2>0. Shape /\ Ring /\ Streams
    BY DEF StreamIInv
  <2>1. Range(log) \subseteq EventType
    <3>1. \A i \in DOMAIN log : log[i] \in EventType
      BY <2>0 DEF Shape
    <3> QED
      BY <3>1 DEF Range
  <2>2. IsSuffix(buffer, log) /\ Len(buffer) <= BufferSize
    <3>1. /\ buffer \in Seq(EventType) /\ log \in Seq(EventType)
          /\ Len(buffer) \in Nat /\ Len(log) \in Nat
          /\ Len(buffer) <= Len(log) /\ Len(buffer) <= BufferSize
      BY <2>0 DEF Ring, Shape
    <3> DEFINE n == Len(buffer)
               a == Reverse(buffer)
               b == Reverse(log)
    <3>2. /\ a \in Seq(EventType) /\ Len(a) = n
          /\ \A i \in 1..n : a[i] = buffer[n - i + 1]
      BY <3>1 DEF Reverse
    <3>3. /\ b \in Seq(EventType) /\ Len(b) = Len(log)
          /\ \A i \in 1..Len(log) : b[i] = log[Len(log) - i + 1]
      BY <3>1 DEF Reverse
    <3>4. ASSUME NEW i \in 1..n PROVE a[i] = b[i]
      <4>1. /\ n - i + 1 \in 1..n /\ i \in 1..Len(log)
            /\ Len(log) - n + (n - i + 1) = Len(log) - i + 1
        BY <3>1
      <4>2. buffer[n - i + 1] = log[Len(log) - n + (n - i + 1)]
        BY <2>0, <4>1 DEF Ring
      <4> QED
        BY <3>2, <3>3, <4>1, <4>2
    <3> HIDE DEF a, b
    <3>5. /\ SubSeq(a, 1, n) \in Seq(EventType) /\ Len(SubSeq(a, 1, n)) = n
          /\ \A i \in 1..n : SubSeq(a, 1, n)[i] = a[i]
      BY <3>1, <3>2
    <3>6. /\ SubSeq(b, 1, n) \in Seq(EventType) /\ Len(SubSeq(b, 1, n)) = n
          /\ \A i \in 1..n : SubSeq(b, 1, n)[i] = b[i]
      BY <3>1, <3>3
    <3>7. SubSeq(a, 1, n) = SubSeq(b, 1, n)
      BY <3>4, <3>5, <3>6, SeqEqual
    <3> QED
      BY <3>1, <3>2, <3>3, <3>7 DEF IsSuffix, IsPrefix, a, b
  <2>3. \A c \in Pages : Len(queue[c]) <= QueueSize /\ Len(replay[c]) <= BufferSize
    <3>1. Len(<<>>) = 0
      OBVIOUS
    <3> QED
      BY <2>0, <3>1 DEF Streams, Stream
  <2> QED
    BY <2>0, <2>1, <2>2, <2>3 DEF Shape, TypeOK
<1> QED
  BY <1>1, StreamInvariant, PTL

\* A stream sends every event once and in order from the start of its snapshot on,
\* however connections, bursts and full queues interleave.
THEOREM StreamsMissNothing == Spec => []NothingMissed
<1>1. StreamIInv => NothingMissed
  <2> SUFFICES ASSUME StreamIInv, NEW c \in connected
               PROVE  LET sent == got[c] \o replay[c] \o queue[c]
                          due == SubSeq(log, start[c] + 1, Len(log))
                      IN  IF c \in listening THEN sent = due ELSE IsPrefix(sent, due)
    BY DEF NothingMissed
  <2>0. Shape /\ Stream(c) /\ c \in Pages
    BY DEF StreamIInv, Streams, Shape
  <2>1. PICK g, p, q \in Seq(EventType) : g = got[c] /\ p = replay[c] /\ q = queue[c]
    BY <2>0 DEF Shape
  <2>2. PICK m \in Nat : m = start[c]
    BY <2>0 DEF Shape
  <2>3. /\ log \in Seq(EventType) /\ Len(log) \in Nat
        /\ Len(g) \in Nat /\ Len(p) \in Nat /\ Len(q) \in Nat
    BY <2>0, <2>1 DEF Shape
  <2>4. /\ Follows(g, m) /\ Follows(p, m + Len(g)) /\ Follows(q, m + Len(g) + Len(p))
        /\ c \in listening => m + Len(g) + Len(p) + Len(q) = Len(log)
    BY <2>0, <2>1, <2>2 DEF Stream, Handled, Replayed
  <2>5. ASSUME NEW s \in Seq(EventType), NEW t \in Seq(EventType), Follows(s, m), Follows(t, m + Len(s))
        PROVE  s \o t \in Seq(EventType) /\ Len(s \o t) = Len(s) + Len(t) /\ Follows(s \o t, m)
    <3>1. /\ s \o t \in Seq(EventType) /\ Len(s \o t) = Len(s) + Len(t)
          /\ \A i \in 1..Len(s) : (s \o t)[i] = s[i]
          /\ \A i \in 1..Len(t) : (s \o t)[Len(s) + i] = t[i]
      BY Joined
    <3>2. PICK u : u = s \o t
      OBVIOUS
    <3>3. /\ u \in Seq(EventType) /\ Len(u) = Len(s) + Len(t) /\ Len(s) \in Nat /\ Len(t) \in Nat
          /\ \A i \in 1..Len(s) : u[i] = s[i]
          /\ \A i \in 1..Len(t) : u[Len(s) + i] = t[i]
      BY <3>1, <3>2
    <3>4. m + Len(u) <= Len(log)
      BY <2>3, <2>5, <3>3 DEF Follows
    <3>5. ASSUME NEW i \in 1..Len(u) PROVE u[i] = log[m + i]
      <4>1. CASE i \in 1..Len(s)
        BY <2>5, <3>3, <4>1 DEF Follows
      <4>2. CASE i \notin 1..Len(s)
        <5>1. PICK k \in 1..Len(t) : i = Len(s) + k
          <6>1. i - Len(s) \in 1..Len(t) /\ i = Len(s) + (i - Len(s))
            BY <3>3, <4>2
          <6> QED
            BY <6>1
        <5>2. t[k] = log[(m + Len(s)) + k] /\ u[i] = t[k]
          BY <2>5, <3>3, <5>1 DEF Follows
        <5>3. (m + Len(s)) + k = m + i
          BY <3>3, <5>1
        <5> QED
          BY <5>2, <5>3
      <4> QED
        BY <4>1, <4>2
    <3>6. Follows(u, m)
      BY <3>4, <3>5 DEF Follows
    <3> QED
      BY <3>2, <3>3, <3>6
  <2>6. g \o p \in Seq(EventType) /\ Len(g \o p) = Len(g) + Len(p) /\ Follows(g \o p, m)
    BY <2>4, <2>5
  <2>7. PICK sent \in Seq(EventType) : sent = (g \o p) \o q
    <3>1. (g \o p) \o q \in Seq(EventType)
      BY <2>6, Joined
    <3> QED
      BY <3>1
  <2>8. Len(sent) = Len(g) + Len(p) + Len(q) /\ Follows(sent, m) /\ Len(sent) \in Nat
    <3>1. PICK h \in Seq(EventType) : h = g \o p
      BY <2>6
    <3>2. Len(h) = Len(g) + Len(p) /\ Follows(h, m) /\ Follows(q, m + Len(h))
      <4>1. m + (Len(g) + Len(p)) = m + Len(g) + Len(p)
        BY <2>3
      <4> QED
        BY <2>4, <2>6, <3>1, <4>1
    <3>3. Len(h \o q) = Len(h) + Len(q) /\ Follows(h \o q, m)
      BY <2>5, <3>2
    <3> QED
      BY <2>3, <2>7, <3>1, <3>2, <3>3
  <2>9. PICK due : due = SubSeq(log, m + 1, Len(log))
    OBVIOUS
  <2>10. /\ due \in Seq(EventType) /\ Len(due) = Len(log) - m
         /\ \A i \in 1..Len(log) - m : due[i] = log[m + i]
    <3>1. m <= Len(log)
      BY <2>3, <2>8 DEF Follows
    <3>2. \A i \in m+1..Len(log) : log[i] \in EventType
      BY <2>3
    <3>3. /\ due \in Seq(EventType)
          /\ Len(due) = IF m + 1 <= Len(log) THEN Len(log) - (m + 1) + 1 ELSE 0
          /\ \A i \in 1..Len(log) - (m + 1) + 1 : due[i] = log[(m + 1) + i - 1]
      BY <2>3, <2>9, <3>2, SubSeqProperties
    <3>4. ASSUME NEW i \in 1..Len(log) - m PROVE due[i] = log[m + i]
      <4>1. Len(log) - (m + 1) + 1 = Len(log) - m /\ (m + 1) + i - 1 = m + i
        BY <2>3
      <4> QED
        BY <3>3, <4>1
    <3>5. Len(due) = Len(log) - m
      <4>1. PICK n \in Nat : n = Len(log)
        BY <2>3
      <4>2. m \in Nat /\ m <= n /\ Len(due) = IF m + 1 <= n THEN n - (m + 1) + 1 ELSE 0
        BY <3>1, <3>3, <4>1
      <4>3. Len(due) = n - m
        <5>1. CASE m + 1 <= n
          BY <4>2, <5>1
        <5>2. CASE ~(m + 1 <= n)
          BY <4>2, <5>2
        <5> QED
          BY <5>1, <5>2
      <4> QED
        BY <4>1, <4>3
    <3> QED
      BY <3>3, <3>4, <3>5
  <2>11. \A i \in 1..Len(sent) : i \in 1..Len(log) - m /\ sent[i] = due[i]
    BY <2>3, <2>8, <2>10 DEF Follows
  <2>12. CASE c \in listening
    <3>1. Len(sent) = Len(due)
      BY <2>3, <2>4, <2>8, <2>10, <2>12
    <3>2. sent = due
      BY <2>7, <2>10, <2>11, <3>1, SeqEqual
    <3> QED
      BY <2>1, <2>2, <2>7, <2>9, <2>12, <3>2
  <2>13. CASE c \notin listening
    <3>1. Len(sent) <= Len(due)
      BY <2>3, <2>8, <2>10 DEF Follows
    <3>2. /\ SubSeq(sent, 1, Len(sent)) \in Seq(EventType) /\ SubSeq(due, 1, Len(sent)) \in Seq(EventType)
          /\ Len(SubSeq(sent, 1, Len(sent))) = Len(sent)
          /\ Len(SubSeq(due, 1, Len(sent))) = Len(sent)
          /\ \A i \in 1..Len(sent) : SubSeq(sent, 1, Len(sent))[i] = sent[i]
          /\ \A i \in 1..Len(sent) : SubSeq(due, 1, Len(sent))[i] = due[i]
      BY <2>7, <2>8, <2>10, <3>1
    <3>3. SubSeq(sent, 1, Len(sent)) = SubSeq(due, 1, Len(sent))
      BY <2>11, <3>2, SeqEqual
    <3>4. IsPrefix(sent, due)
      BY <3>1, <3>3 DEF IsPrefix
    <3> QED
      BY <2>1, <2>2, <2>7, <2>9, <2>13, <3>4
  <2> QED
    BY <2>12, <2>13
<1> QED
  BY <1>1, StreamInvariant, PTL

-----------------------------------------------------------------------------
(* The strip of a page. *)

Sayings == StepItems \union FileEnds \union Announcements

\* Steps that concern the file shown and were said of it.
Kept(q) ==
    /\ q \in Seq(StepItems)
    /\ \A i \in 1..Len(q) : q[i] \in Range(said) /\ Concerns(q[i].file)

\* What drains hold ends a step, of the file shown unless the strip was reset since.
HeldEnds ==
    \A i \in 1..Len(held) :
        /\ held[i].status # "running" /\ held[i] \in Range(said)
        /\ Concerns(held[i].file) \/ held[i].step \in slept

HonestIInv == StripTypeOK /\ Kept(pending) /\ HeldEnds /\ StripHonest

(* A sequence without one of its places. *)
LEMMA Removed ==
  ASSUME NEW S, NEW s \in Seq(S), NEW i \in 1..Len(s)
  PROVE  /\ RemoveAt(s, i) \in Seq(S)
         /\ \A k \in 1..Len(RemoveAt(s, i)) : \E m \in 1..Len(s) : RemoveAt(s, i)[k] = s[m]
         /\ \A m \in 1..Len(s) : m # i => s[m] \in Range(RemoveAt(s, i))
<1> DEFINE n == Len(s)
           a == SubSeq(s, 1, i - 1)
           b == SubSeq(s, i + 1, n)
<1>0. n \in Nat /\ i \in Int /\ 1 <= i /\ i <= n /\ \A m \in 1..n : s[m] \in S
  OBVIOUS
<1>1. /\ a \in Seq(S) /\ Len(a) = i - 1 /\ \A k \in 1..(i - 1) : a[k] = s[k]
  BY <1>0
<1>2. /\ b \in Seq(S) /\ Len(b) = n - i /\ \A k \in 1..(n - i) : b[k] = s[i + k]
  <2> HIDE DEF n
  <2>1. /\ b \in Seq(S) /\ Len(b) = IF i + 1 <= n THEN n - (i + 1) + 1 ELSE 0
        /\ \A k \in 1..n - (i + 1) + 1 : b[k] = s[(i + 1) + k - 1]
    <3>1. \A k \in (i + 1)..n : s[k] \in S
      BY <1>0
    <3> QED
      BY <1>0, <3>1, SubSeqProperties
  <2>2. Len(b) = n - i
    BY <1>0, <2>1
  <2>3. ASSUME NEW k \in 1..(n - i) PROVE b[k] = s[i + k]
    <3>1. k \in 1..n - (i + 1) + 1 /\ (i + 1) + k - 1 = i + k
      BY <1>0
    <3> QED
      BY <2>1, <3>1
  <2> QED
    BY <2>1, <2>2, <2>3
<1>3. RemoveAt(s, i) = a \o b
  BY DEF RemoveAt
<1> HIDE DEF n, a, b
<1>4. PICK r : r = a \o b
  OBVIOUS
<1>5. /\ r \in Seq(S) /\ Len(r) = n - 1
      /\ \A k \in 1..(i - 1) : r[k] = s[k]
      /\ \A k \in 1..(n - i) : r[(i - 1) + k] = s[i + k]
  <2>1. a \in Seq(S) /\ b \in Seq(S) /\ Len(a) = i - 1 /\ Len(b) = n - i
    BY <1>1, <1>2
  <2>0. ASSUME NEW u \in Seq(S), NEW v \in Seq(S)
        PROVE  /\ u \o v \in Seq(S) /\ Len(u \o v) = Len(u) + Len(v)
               /\ \A k \in 1..Len(u) : (u \o v)[k] = u[k]
               /\ \A k \in 1..Len(v) : (u \o v)[Len(u) + k] = v[k]
    OBVIOUS
  <2>2. /\ a \o b \in Seq(S) /\ Len(a \o b) = Len(a) + Len(b)
        /\ \A k \in 1..Len(a) : (a \o b)[k] = a[k]
        /\ \A k \in 1..Len(b) : (a \o b)[Len(a) + k] = b[k]
    BY <2>0, <2>1
  <2>3. /\ r \in Seq(S) /\ Len(r) = (i - 1) + (n - i)
        /\ \A k \in 1..(i - 1) : r[k] = a[k]
        /\ \A k \in 1..(n - i) : r[(i - 1) + k] = b[k]
    BY <1>4, <2>1, <2>2
  <2>4. (i - 1) + (n - i) = n - 1
    BY <1>0
  <2>5. ASSUME NEW k \in 1..(i - 1) PROVE r[k] = s[k]
    BY <1>1, <2>3
  <2>6. ASSUME NEW k \in 1..(n - i) PROVE r[(i - 1) + k] = s[i + k]
    BY <1>2, <2>3
  <2> QED
    BY <2>3, <2>4, <2>5, <2>6
<1>6. ASSUME NEW k \in 1..Len(r) PROVE \E m \in 1..n : r[k] = s[m]
  <2>1. CASE k <= i - 1
    BY <1>0, <1>5, <2>1
  <2>2. CASE ~(k <= i - 1)
    <3>0. k \in Int /\ k <= n - 1
      BY <1>0, <1>5
    <3>1. k - (i - 1) \in 1..(n - i) /\ (i - 1) + (k - (i - 1)) = k /\ i + (k - (i - 1)) = k + 1
      BY <1>0, <3>0, <2>2
    <3>3. r[(i - 1) + (k - (i - 1))] = s[i + (k - (i - 1))]
      BY <1>5, <3>1
    <3>2. r[k] = s[k + 1] /\ k + 1 \in 1..n
      BY <1>0, <2>2, <3>0, <3>1, <3>3
    <3> QED
      BY <3>2
  <2> QED
    BY <2>1, <2>2
<1>7. ASSUME NEW m \in 1..n, m # i PROVE s[m] \in Range(r)
  <2>0. DOMAIN r = 1..(n - 1)
    BY <1>5
  <2>1. CASE m < i
    <3>1. m \in 1..(i - 1) /\ m \in DOMAIN r
      BY <1>0, <2>0, <2>1
    <3>2. r[m] = s[m]
      BY <1>5, <3>1
    <3> QED
      BY <3>1, <3>2 DEF Range
  <2>2. CASE m > i
    <3>1. m - i \in 1..(n - i) /\ (i - 1) + (m - i) = m - 1 /\ i + (m - i) = m /\ m - 1 \in 1..(n - 1)
      BY <1>0, <2>2
    <3>2. r[m - 1] = s[m]
      BY <1>5, <3>1
    <3> QED
      BY <2>0, <3>1, <3>2 DEF Range
  <2> QED
    BY <1>0, <1>7, <2>1, <2>2
<1> QED
  BY <1>3, <1>4, <1>5, <1>6, <1>7 DEF n

(* A sequence with one place more. *)
LEMMA Appended ==
  ASSUME NEW S, NEW s \in Seq(S), NEW x \in S
  PROVE  /\ Append(s, x) \in Seq(S) /\ Len(Append(s, x)) = Len(s) + 1
         /\ \A i \in 1..Len(s) : Append(s, x)[i] = s[i]
         /\ Append(s, x)[Len(s) + 1] = x
         /\ Range(Append(s, x)) = Range(s) \cup {x}
<1>1. /\ Append(s, x) \in Seq(S) /\ Len(Append(s, x)) = Len(s) + 1
      /\ \A i \in 1..Len(s) : Append(s, x)[i] = s[i]
      /\ Append(s, x)[Len(s) + 1] = x
  OBVIOUS
<1>2. PICK t : t = Append(s, x)
  OBVIOUS
<1>3. DOMAIN t = 1..Len(s) + 1 /\ DOMAIN s = 1..Len(s) /\ Len(s) \in Nat
  BY <1>1, <1>2
<1>4. Range(t) = Range(s) \cup {x}
  <2>1. ASSUME NEW i \in DOMAIN t PROVE t[i] \in Range(s) \cup {x}
    <3>1. i \in 1..Len(s) \/ i = Len(s) + 1
      BY <1>3
    <3> QED
      BY <1>1, <1>2, <1>3, <3>1 DEF Range
  <2>2. ASSUME NEW i \in DOMAIN s PROVE s[i] \in Range(t)
    <3>1. i \in DOMAIN t /\ t[i] = s[i]
      BY <1>1, <1>2, <1>3
    <3> QED
      BY <3>1 DEF Range
  <2>3. x \in Range(t)
    <3>1. Len(s) + 1 \in DOMAIN t
      BY <1>3
    <3> QED
      BY <1>1, <1>2, <3>1 DEF Range
  <2> QED
    BY <2>1, <2>2, <2>3 DEF Range
<1> QED
  BY <1>1, <1>2, <1>4

(* A drain takes the first of the steps queued, as all of them concern the *)
(* file shown: it draws it or holds it.                                    *)
LEMMA Drained ==
  ASSUME NEW q, Kept(q), NEW n \in Nat, NEW flag \in BOOLEAN, Drain(q, n, flag)
  PROVE  /\ draining' \in BOOLEAN /\ pauses' \in Nat /\ pending' \in Seq(StepItems)
         /\ \/ q = <<>> /\ pending' = <<>> /\ UNCHANGED <<strip, held>>
            \/ /\ 1 \in 1..Len(q) /\ Len(pending') = Len(q) - 1
               /\ \A k \in 1..Len(q) - 1 : pending'[k] = q[k + 1]
               /\ \/ /\ strip' = [strip EXCEPT ![q[1].step] = q[1].status]
                     /\ UNCHANGED held
                  \/ /\ q[1].status # "running" /\ strip[q[1].step] = "running"
                     /\ held' = Append(held, q[1]) /\ UNCHANGED strip
<1>0. q \in Seq(StepItems) /\ Len(q) \in Nat /\ DOMAIN q = 1..Len(q) /\ Len(<<>>) = 0
  BY DEF Kept
<1>1. ASSUME NEW i \in DOMAIN q, NextItem(q, i) PROVE i = 1
  <2>1. \A j \in 1..(i - 1) : ~Concerns(q[j].file)
    BY <1>1 DEF NextItem
  <2>2. i > 1 => 1 \in 1..(i - 1) /\ 1 \in 1..Len(q)
    BY <1>0, <1>1
  <2>3. ~(i > 1)
    BY <2>1, <2>2 DEF Kept
  <2> QED
    BY <1>0, <1>1, <2>3
<1>2. CASE \A i \in DOMAIN q : ~Concerns(q[i].file)
  <2>1. pending' = <<>> /\ draining' = FALSE /\ pauses' = n /\ UNCHANGED <<strip, held>>
    <3>1. \A i \in DOMAIN q : ~NextItem(q, i)
      BY <1>2 DEF NextItem
    <3> QED
      BY <3>1 DEF Drain
  <2>2. q = <<>>
    <3>1. Len(q) = 0
      <4>1. Len(q) >= 1 => 1 \in DOMAIN q
        BY <1>0
      <4>2. 1 \notin DOMAIN q
        BY <1>0, <1>2 DEF Kept
      <4> QED
        BY <1>0, <4>1, <4>2
    <3> QED
      BY <1>0, <3>1
  <2>3. pending' \in Seq(StepItems)
    BY <2>1
  <2> QED
    BY <2>1, <2>2, <2>3
<1>3. CASE ~(\A i \in DOMAIN q : ~Concerns(q[i].file))
  <2>1. PICK i \in DOMAIN q :
          /\ NextItem(q, i)
          /\ pending' = SubSeq(q, i + 1, Len(q)) /\ draining' = flag
          /\ \/ /\ strip' = [strip EXCEPT ![q[i].step] = q[i].status]
                /\ pauses' = n + 1 /\ UNCHANGED held
             \/ /\ q[i].status # "running" /\ strip[q[i].step] = "running"
                /\ held' = Append(held, q[i]) /\ pauses' = n /\ UNCHANGED strip
    BY <1>3 DEF Drain
  <2>2. i = 1 /\ i + 1 = 2
    BY <1>1, <2>1
  <2>3. 1 \in 1..Len(q) /\ Len(q) >= 1
    BY <1>0, <2>1, <2>2
  <2>4. /\ SubSeq(q, 2, Len(q)) \in Seq(StepItems) /\ Len(SubSeq(q, 2, Len(q))) = Len(q) - 1
        /\ \A k \in 1..Len(SubSeq(q, 2, Len(q))) : SubSeq(q, 2, Len(q))[k] = q[k + 1]
    BY <1>0, <2>3, Tailed
  <2>5. pending' = SubSeq(q, 2, Len(q)) /\ pauses' \in Nat /\ draining' \in BOOLEAN
    BY <2>1, <2>2
  <2>6. /\ pending' \in Seq(StepItems) /\ Len(pending') = Len(q) - 1
        /\ \A k \in 1..Len(q) - 1 : pending'[k] = q[k + 1]
    BY <2>4, <2>5
  <2> QED
    BY <2>1, <2>2, <2>3, <2>5, <2>6
<1> QED
  BY <1>2, <1>3

(* After a drain the strip is as honest as before. *)
LEMMA DrainHonest ==
  ASSUME NEW q, Kept(q), NEW n \in Nat, NEW flag \in BOOLEAN, Drain(q, n, flag),
         strip \in [StepIds -> Statuses \union {"idle"}], held \in Seq(StepItems),
         slept \in SUBSET StepIds, HeldEnds, StripHonest, UNCHANGED <<said, active, slept>>
  PROVE  /\ draining' \in BOOLEAN /\ pauses' \in Nat
         /\ strip' \in [StepIds -> Statuses \union {"idle"}] /\ held' \in Seq(StepItems)
         /\ Kept(pending)' /\ HeldEnds' /\ StripHonest'
<1>0. /\ draining' \in BOOLEAN /\ pauses' \in Nat /\ pending' \in Seq(StepItems)
      /\ \/ q = <<>> /\ pending' = <<>> /\ UNCHANGED <<strip, held>>
         \/ /\ 1 \in 1..Len(q) /\ Len(pending') = Len(q) - 1
            /\ \A k \in 1..Len(q) - 1 : pending'[k] = q[k + 1]
            /\ \/ /\ strip' = [strip EXCEPT ![q[1].step] = q[1].status]
                  /\ UNCHANGED held
               \/ /\ q[1].status # "running" /\ strip[q[1].step] = "running"
                  /\ held' = Append(held, q[1]) /\ UNCHANGED strip
  BY Drained
<1>1. active' = active /\ said' = said /\ slept' = slept
  OBVIOUS
<1>2. Kept(pending)'
  <2>1. CASE pending' = <<>>
    BY <2>1 DEF Kept
  <2>2. CASE /\ 1 \in 1..Len(q) /\ Len(pending') = Len(q) - 1
             /\ \A k \in 1..Len(q) - 1 : pending'[k] = q[k + 1]
    <3>1. ASSUME NEW k \in 1..Len(pending')
          PROVE  pending'[k] \in Range(said') /\ active' \in {NoFile, pending'[k].file}
      <4>1. k \in 1..Len(q) - 1 /\ k + 1 \in 1..Len(q) /\ pending'[k] = q[k + 1]
        BY <2>2 DEF Kept
      <4>2. q[k + 1] \in Range(said) /\ active \in {NoFile, q[k + 1].file}
        BY <4>1 DEF Kept, Concerns
      <4> QED
        BY <1>1, <4>1, <4>2
    <3> QED
      BY <1>0, <3>1 DEF Kept, Concerns
  <2> QED
    BY <1>0, <2>1, <2>2
<1>3. CASE UNCHANGED <<strip, held>>
  <2>1. HeldEnds' /\ StripHonest'
    BY <1>1, <1>3 DEF HeldEnds, StripHonest, Concerns
  <2> QED
    BY <1>0, <1>2, <1>3, <2>1
<1> DEFINE e == q[1]
<1>4. 1 \in 1..Len(q) => /\ e \in StepItems /\ e \in Range(said) /\ Concerns(e.file)
                         /\ e = StepOf(e.file, e.step, e.status)
                         /\ e.file \in FileIds /\ e.step \in StepIds /\ e.status \in Statuses
  <2>1. ASSUME NEW x \in StepItems
        PROVE  /\ x = StepOf(x.file, x.step, x.status)
               /\ x.file \in FileIds /\ x.step \in StepIds /\ x.status \in Statuses
    BY DEF StepItems, StepOf
  <2>2. 1 \in 1..Len(q) => e \in StepItems /\ e \in Range(said) /\ Concerns(e.file)
    BY DEF Kept
  <2> QED
    BY <2>1, <2>2
<1> HIDE DEF e
<1>5. CASE 1 \in 1..Len(q) /\ strip' = [strip EXCEPT ![e.step] = e.status] /\ UNCHANGED held
  <2>1. strip' \in [StepIds -> Statuses \union {"idle"}] /\ HeldEnds'
    BY <1>1, <1>4, <1>5 DEF HeldEnds, Concerns
  <2>2. StripHonest'
    <3> SUFFICES ASSUME active # NoFile, NEW s \in StepIds
                 PROVE  /\ strip'[s] = "running" => StepOf(active, s, "running") \in Range(said)
                        /\ strip'[s] # "idle" =>
                             s \in slept \/ \E st \in Statuses : StepOf(active, s, st) \in Range(said)
      BY DEF StripHonest
    <3>1. CASE s = e.step
      <4>1. strip'[s] = e.status /\ e.file = active
        BY <1>4, <1>5, <3>1 DEF Concerns
      <4>2. StepOf(active, s, e.status) \in Range(said) /\ e.status \in Statuses
        BY <1>4, <1>5, <3>1, <4>1
      <4> QED
        BY <4>1, <4>2
    <3>2. CASE s # e.step
      BY <1>4, <1>5, <3>2 DEF StripHonest
    <3> QED
      BY <3>1, <3>2
  <2> QED
    BY <1>0, <1>2, <1>5, <2>1, <2>2
<1>6. CASE 1 \in 1..Len(q) /\ e.status # "running" /\ held' = Append(held, e) /\ UNCHANGED strip
  <2>1. /\ held' \in Seq(StepItems) /\ Len(held') = Len(held) + 1 /\ Len(held) \in Nat
        /\ \A i \in 1..Len(held) : held'[i] = held[i]
        /\ held'[Len(held) + 1] = e
    BY <1>4, <1>6, Appended
  <2>2. HeldEnds'
    <3>1. ASSUME NEW i \in 1..Len(held')
          PROVE  /\ held'[i].status # "running" /\ held'[i] \in Range(said)
                 /\ Concerns(held'[i].file) \/ held'[i].step \in slept
      <4>1. i \in 1..Len(held) \/ i = Len(held) + 1
        BY <2>1
      <4> QED
        BY <1>4, <1>6, <2>1, <4>1 DEF HeldEnds
    <3> QED
      BY <1>1, <3>1 DEF HeldEnds, Concerns
  <2>3. StripHonest'
    BY <1>6 DEF StripHonest
  <2> QED
    BY <1>0, <1>2, <1>6, <2>1, <2>2, <2>3
<1> QED
  BY <1>0, <1>3, <1>5, <1>6 DEF e

(* What the page hears is what was said. *)
LEMMA HeardSaid ==
  ASSUME StripTypeOK, Hear
  PROVE  LET e == said[heard + 1]
         IN  /\ heard + 1 \in 1..Len(said) /\ heard' = heard + 1
             /\ e \in Sayings /\ e \in Range(said)
             /\ e.type = "step" => e \in StepItems
             /\ e.type = "file_finished" => e \in FileEnds
             /\ HearStart(e) => e.file \in FileIds \union {NoFile}
             /\ HearStart(e) \/ HearStep(e) \/ HearFinished(e)
             /\ UNCHANGED <<said, hellos>>
<1> DEFINE e == said[heard + 1]
<1>1. said \in Seq(Sayings) /\ heard + 1 \in 1..Len(said) /\ heard' = heard + 1
  BY DEF StripTypeOK, Sayings, Hear
<1>2. e \in Sayings /\ e \in Range(said)
  <2>1. heard + 1 \in DOMAIN said
    BY <1>1
  <2> QED
    BY <1>1, <2>1 DEF Range
<1>3. (HearStart(e) \/ HearStep(e) \/ HearFinished(e)) /\ UNCHANGED <<said, hellos>>
  BY DEF Hear
<1> HIDE DEF e
<1>4. e.type = "step" => e \in StepItems
  BY <1>2 DEF Sayings, StepItems, FileEnds, Announcements
<1>5. e.type = "file_finished" => e \in FileEnds
  BY <1>2 DEF Sayings, StepItems, FileEnds, Announcements
<1>6. HearStart(e) => e.file \in FileIds \union {NoFile}
  BY <1>2 DEF Sayings, StepItems, FileEnds, Announcements, HearStart
<1> QED
  BY <1>1, <1>2, <1>3, <1>4, <1>5, <1>6 DEF e

(* A reset leaves an empty strip, and nothing queued. *)
LEMMA ResetHonest ==
  ASSUME HonestIInv, Reset, said' = said
  PROVE  /\ strip' \in [StepIds -> Statuses \union {"idle"}] /\ draining' \in BOOLEAN
         /\ pauses' = pauses /\ held' = held /\ slept' \in SUBSET StepIds
         /\ Kept(pending)' /\ HeldEnds' /\ StripHonest'
<1>1. /\ strip' = Idle /\ pending' = <<>> /\ draining' = FALSE /\ pauses' = pauses /\ held' = held
      /\ slept' = {i.step : i \in Range(held)} /\ held \in Seq(StepItems)
  BY DEF Reset, HonestIInv, StripTypeOK
<1>2. strip' \in [StepIds -> Statuses \union {"idle"}] /\ StripHonest'
  BY <1>1 DEF Idle, StripHonest
<1>3. Kept(pending)'
  BY <1>1 DEF Kept
<1>4. \A i \in 1..Len(held) : held[i] \in Range(held) /\ held[i] \in StepItems
  BY <1>1 DEF Range
<1>5. slept' \in SUBSET StepIds
  <2>1. \A x \in Range(held) : x \in StepItems
    BY <1>1 DEF Range
  <2>2. \A x \in StepItems : x.step \in StepIds
    BY DEF StepItems
  <2> QED
    BY <1>1, <2>1, <2>2
<1>6. HeldEnds'
  <2>1. \A i \in 1..Len(held) : held[i].step \in slept'
    BY <1>1, <1>4
  <2> QED
    BY <1>1, <2>1 DEF HonestIInv, HeldEnds
<1> QED
  BY <1>1, <1>2, <1>3, <1>5, <1>6

(* The end of a file settles the steps that run, and leaves no step of another *)
(* file.                                                                       *)
LEMMA FinishHonest ==
  ASSUME HonestIInv, Still, NEW e \in FileEnds, Finish(e),
         UNCHANGED <<said, pending, draining, pauses, held, slept>>
  PROVE  /\ active' \in FileIds \union {NoFile}
         /\ strip' \in [StepIds -> Statuses \union {"idle"}]
         /\ Kept(pending)' /\ HeldEnds' /\ StripHonest'
<1>0. /\ active \in FileIds \union {NoFile} /\ strip \in [StepIds -> Statuses \union {"idle"}]
      /\ Kept(pending) /\ HeldEnds /\ StripHonest /\ pending = <<>>
  BY DEF HonestIInv, StripTypeOK, Still
<1>1. Kept(pending)'
  BY <1>0 DEF Kept
<1>2. \A f : active' \in {active, NoFile}
  BY DEF Finish
<1>3. HeldEnds'
  BY <1>0, <1>2 DEF HeldEnds, Concerns
<1>4. \A to \in {"done", "idle"} : Settled(to) \in [StepIds -> Statuses \union {"idle"}]
  BY <1>0 DEF Settled, Statuses
<1>5. strip' \in [StepIds -> Statuses \union {"idle"}]
  BY <1>0, <1>4 DEF Finish
<1>6. StripHonest'
  <2> SUFFICES ASSUME active' # NoFile, NEW s \in StepIds
               PROVE  /\ strip'[s] = "running" => StepOf(active', s, "running") \in Range(said)
                      /\ strip'[s] # "idle" =>
                           s \in slept \/ \E st \in Statuses : StepOf(active', s, st) \in Range(said)
    BY DEF StripHonest
  <2>1. active' = active
    BY <1>2
  <2>2. strip' = strip \/ strip' = Settled("done")
    BY <2>1 DEF Finish
  <2>3. strip'[s] = strip[s] \/ (strip[s] = "running" /\ strip'[s] = "done")
    BY <2>2 DEF Settled
  <2>4. "running" \in Statuses
    BY DEF Statuses
  <2> QED
    BY <1>0, <2>1, <2>3, <2>4 DEF StripHonest
<1> QED
  BY <1>0, <1>1, <1>2, <1>3, <1>5, <1>6

(* What the page hears leaves it honest. *)
LEMMA HearHonest ==
  ASSUME HonestIInv, Hear
  PROVE  HonestIInv'
<1>0. /\ StripTypeOK /\ Kept(pending) /\ HeldEnds /\ StripHonest
  BY DEF HonestIInv
<1>1. PICK e : e = said[heard + 1]
  OBVIOUS
<1>2. /\ heard + 1 \in 1..Len(said) /\ heard' = heard + 1
      /\ e \in Range(said)
      /\ e.type = "step" => e \in StepItems
      /\ e.type = "file_finished" => e \in FileEnds
      /\ HearStart(e) => e.file \in FileIds \union {NoFile}
      /\ HearStart(e) \/ HearStep(e) \/ HearFinished(e)
      /\ UNCHANGED <<said, hellos>>
  BY <1>0, <1>1, HeardSaid
<1>t. /\ said' \in Seq(Sayings) /\ heard' \in 0..Len(said') /\ hellos' \in Nat
  BY <1>0, <1>2 DEF StripTypeOK, Sayings
<1>3. CASE HearStart(e)
  <2>1. active' = e.file /\ Reset /\ UNCHANGED finishing
    BY <1>3 DEF HearStart
  <2>2. /\ strip' \in [StepIds -> Statuses \union {"idle"}] /\ draining' \in BOOLEAN
        /\ pauses' = pauses /\ held' = held /\ slept' \in SUBSET StepIds
        /\ Kept(pending)' /\ HeldEnds' /\ StripHonest'
    BY <1>2, <2>1, ResetHonest
  <2>3. active' \in FileIds \union {NoFile}
    BY <1>2, <1>3, <2>1
  <2> QED
    BY <1>0, <1>t, <2>1, <2>2, <2>3 DEF HonestIInv, StripTypeOK, Kept, Sayings
<1>4. CASE HearStep(e)
  <2>1. e.type = "step" /\ UNCHANGED <<active, finishing, slept>> /\ e \in StepItems
    BY <1>2, <1>4 DEF HearStep
  <2>2. CASE UNCHANGED <<strip, pending, draining, pauses, held>>
    BY <1>0, <1>2, <1>t, <2>1, <2>2
       DEF HonestIInv, StripTypeOK, Kept, HeldEnds, StripHonest, Concerns, Sayings
  <2>3. ASSUME ~Ignored(e) PROVE Kept(Append(pending, e))
    <3>1. Concerns(e.file)
      BY <2>3 DEF Ignored
    <3>2. /\ Append(pending, e) \in Seq(StepItems) /\ Len(Append(pending, e)) = Len(pending) + 1
          /\ \A i \in 1..Len(pending) : Append(pending, e)[i] = pending[i]
          /\ Append(pending, e)[Len(pending) + 1] = e /\ Len(pending) \in Nat
      BY <1>0, <2>1, Appended DEF Kept
    <3>3. ASSUME NEW i \in 1..Len(pending) + 1
          PROVE  Append(pending, e)[i] \in Range(said) /\ Concerns(Append(pending, e)[i].file)
      <4>1. i \in 1..Len(pending) \/ i = Len(pending) + 1
        BY <3>2
      <4> QED
        BY <1>0, <1>2, <3>1, <3>2, <4>1 DEF Kept
    <3> QED
      BY <3>2, <3>3 DEF Kept
  <2>4. CASE ~Ignored(e) /\ pending' = Append(pending, e) /\ UNCHANGED <<strip, draining, pauses, held>>
    <3>1. Kept(pending)'
      BY <1>2, <2>1, <2>3, <2>4 DEF Kept, Concerns
    <3>2. HeldEnds' /\ StripHonest'
      BY <1>0, <1>2, <2>1, <2>4 DEF HeldEnds, StripHonest, Concerns
    <3> QED
      BY <1>0, <1>t, <2>1, <2>4, <3>1, <3>2 DEF HonestIInv, StripTypeOK, Kept, Sayings
  <2>5. CASE ~Ignored(e) /\ Drain(Append(pending, e), pauses, TRUE)
    <3>1. PICK q : q = Append(pending, e)
      OBVIOUS
    <3>2. Kept(q) /\ Drain(q, pauses, TRUE) /\ pauses \in Nat
      BY <1>0, <2>3, <2>5, <3>1 DEF StripTypeOK
    <3>3. /\ strip \in [StepIds -> Statuses \union {"idle"}] /\ held \in Seq(StepItems)
          /\ slept \in SUBSET StepIds /\ UNCHANGED <<said, active, slept>>
      BY <1>0, <1>2, <2>1 DEF StripTypeOK
    <3>4. /\ draining' \in BOOLEAN /\ pauses' \in Nat
          /\ strip' \in [StepIds -> Statuses \union {"idle"}] /\ held' \in Seq(StepItems)
          /\ Kept(pending)' /\ HeldEnds' /\ StripHonest'
      BY <1>0, <3>2, <3>3, DrainHonest
    <3> QED
      BY <1>0, <1>t, <2>1, <3>4 DEF HonestIInv, StripTypeOK, Kept, Sayings
  <2> QED
    BY <1>4, <2>2, <2>4, <2>5 DEF HearStep
<1>5. CASE HearFinished(e)
  <2>1. e.type = "file_finished" /\ e \in FileEnds /\ UNCHANGED <<pending, draining, pauses, held, slept>>
    BY <1>2, <1>5 DEF HearFinished
  <2>2. CASE Still /\ Finish(e) /\ UNCHANGED finishing
    <3>1. /\ active' \in FileIds \union {NoFile}
          /\ strip' \in [StepIds -> Statuses \union {"idle"}]
          /\ Kept(pending)' /\ HeldEnds' /\ StripHonest'
      BY <1>2, <2>1, <2>2, FinishHonest
    <3> QED
      BY <1>0, <1>t, <2>1, <2>2, <3>1 DEF HonestIInv, StripTypeOK, Kept, Sayings
  <2>3. CASE finishing' = Append(finishing, e) /\ UNCHANGED <<strip, active>>
    <3>1. finishing' \in Seq(FileEnds)
      BY <1>0, <2>1, <2>3, Appended DEF StripTypeOK
    <3> QED
      BY <1>0, <1>2, <1>t, <2>1, <2>3, <3>1
         DEF HonestIInv, StripTypeOK, Kept, HeldEnds, StripHonest, Concerns, Sayings
  <2> QED
    BY <1>5, <2>2, <2>3 DEF HearFinished
<1> QED
  BY <1>2, <1>3, <1>4, <1>5

(* What the pipeline says makes nothing untrue that was true. *)
LEMMA TellHonest ==
  ASSUME HonestIInv, NEW e \in Sayings, Tell(e)
  PROVE  HonestIInv'
<1>0. /\ StripTypeOK /\ Kept(pending) /\ HeldEnds /\ StripHonest
  BY DEF HonestIInv
<1>1. /\ said' = Append(said, e)
      /\ UNCHANGED <<heard, hellos, active, strip, pending, draining, pauses, held, finishing, slept>>
  BY DEF Tell
<1>2. said \in Seq(Sayings)
  BY <1>0 DEF StripTypeOK, Sayings
<1>3. /\ said' \in Seq(Sayings) /\ Len(said') = Len(said) + 1 /\ Range(said) \subseteq Range(said')
  BY <1>1, <1>2, Appended
<1>4. StripTypeOK'
  <2>1. heard' \in 0..Len(said')
    BY <1>0, <1>1, <1>2, <1>3 DEF StripTypeOK
  <2> QED
    BY <1>0, <1>1, <1>3, <2>1 DEF StripTypeOK, Sayings
<1>5. Kept(pending)'
  BY <1>0, <1>1, <1>3 DEF Kept, Concerns
<1>6. HeldEnds'
  BY <1>0, <1>1, <1>3 DEF HeldEnds, Concerns
<1>7. StripHonest'
  BY <1>0, <1>1, <1>3 DEF StripHonest
<1> QED
  BY <1>4, <1>5, <1>6, <1>7 DEF HonestIInv

(* All that the pipeline says are sayings. *)
LEMMA SayingsTold ==
  ASSUME StripTypeOK,
         TellJob \/ \E f \in FileIds : TellFile(f) \/ TellStep(f) \/ TellFinished(f)
  PROVE  \E e \in Sayings : Tell(e)
<1>1. \A f \in FileIds \union {NoFile} : \A t \in {"job_started", "job_empty", "file_started"} :
        Announce(t, f) \in Sayings
  BY DEF Announce, Announcements, Sayings
<1>2. \A f \in FileIds : \A s \in StepIds : \A st \in Statuses : StepOf(f, s, st) \in Sayings
  BY DEF StepOf, StepItems, Sayings
<1>3. \A f \in FileIds : \A o \in Endings : Finished(f, o) \in Sayings
  BY DEF Finished, FileEnds, Sayings
<1>4. CASE TellJob
  <2>1. PICK t \in {"job_started", "job_empty"} : Tell(Announce(t, NoFile))
    BY <1>4 DEF TellJob
  <2> QED
    BY <1>1, <2>1
<1>5. ASSUME NEW f \in FileIds, TellFile(f) PROVE \E e \in Sayings : Tell(e)
  BY <1>1, <1>5 DEF TellFile
<1>6. ASSUME NEW f \in FileIds, TellStep(f) PROVE \E e \in Sayings : Tell(e)
  BY <1>2, <1>6 DEF TellStep
<1>7. ASSUME NEW f \in FileIds, TellFinished(f) PROVE \E e \in Sayings : Tell(e)
  BY <1>3, <1>7 DEF TellFinished
<1> QED
  BY <1>4, <1>5, <1>6, <1>7

(* A drain that wakes up, or draws what it holds, and a file that is finished *)
(* late leave the strip honest.                                               *)
LEMMA LateHonest ==
  ASSUME HonestIInv, Resume \/ DrawHeld \/ FinishLate
  PROVE  HonestIInv'
<1>0. /\ StripTypeOK /\ Kept(pending) /\ HeldEnds /\ StripHonest
  BY DEF HonestIInv
<1>1. CASE Resume
  <2>1. /\ pauses > 0 /\ Drain(pending, pauses - 1, draining)
        /\ UNCHANGED <<said, heard, hellos, active, finishing, slept>>
    BY <1>1 DEF Resume
  <2>2. /\ pauses - 1 \in Nat /\ draining \in BOOLEAN /\ held \in Seq(StepItems)
        /\ strip \in [StepIds -> Statuses \union {"idle"}] /\ slept \in SUBSET StepIds
    BY <1>0, <2>1 DEF StripTypeOK
  <2>3. /\ draining' \in BOOLEAN /\ pauses' \in Nat
        /\ strip' \in [StepIds -> Statuses \union {"idle"}] /\ held' \in Seq(StepItems)
        /\ Kept(pending)' /\ HeldEnds' /\ StripHonest'
    BY <1>0, <2>1, <2>2, DrainHonest
  <2> QED
    BY <1>0, <2>1, <2>3 DEF HonestIInv, StripTypeOK, Kept
<1>2. CASE DrawHeld
  <2>1. PICK i \in DOMAIN held : /\ strip' = [strip EXCEPT ![held[i].step] = held[i].status]
                                 /\ held' = RemoveAt(held, i)
    BY <1>2 DEF DrawHeld
  <2>2. /\ pauses' = pauses + 1
        /\ UNCHANGED <<said, heard, hellos, active, pending, draining, finishing, slept>>
    BY <1>2 DEF DrawHeld
  <2>3. held \in Seq(StepItems) /\ i \in 1..Len(held)
    BY <1>0, <2>1 DEF StripTypeOK
  <2>4. /\ held' \in Seq(StepItems)
        /\ \A k \in 1..Len(held') : \E m \in 1..Len(held) : held'[k] = held[m]
    BY <2>1, <2>3, Removed
  <2>5. PICK d : d = held[i]
    OBVIOUS
  <2>6. /\ d \in StepItems /\ d.status # "running" /\ d \in Range(said)
        /\ Concerns(d.file) \/ d.step \in slept
    BY <1>0, <2>3, <2>5 DEF HeldEnds
  <2>7. d = StepOf(d.file, d.step, d.status) /\ d.step \in StepIds /\ d.status \in Statuses
    BY <2>6 DEF StepItems, StepOf
  <2>8. strip \in [StepIds -> Statuses \union {"idle"}]
    BY <1>0 DEF StripTypeOK
  <2>9. strip' = [strip EXCEPT ![d.step] = d.status]
    BY <2>1, <2>5
  <2>10. HeldEnds'
    BY <1>0, <2>2, <2>4 DEF HeldEnds, Concerns
  <2>11. StripHonest'
    <3> SUFFICES ASSUME active # NoFile, NEW s \in StepIds
                 PROVE  /\ strip'[s] = "running" => StepOf(active, s, "running") \in Range(said)
                        /\ strip'[s] # "idle" =>
                             s \in slept \/ \E st \in Statuses : StepOf(active, s, st) \in Range(said)
      BY <2>2 DEF StripHonest
    <3>1. CASE s = d.step
      <4>1. strip'[s] = d.status
        BY <2>8, <2>9, <3>1
      <4>2. s \in slept \/ d.file = active
        BY <2>6, <3>1 DEF Concerns
      <4>3. d.file = active => StepOf(active, s, d.status) \in Range(said)
        BY <2>6, <2>7, <3>1
      <4> QED
        BY <2>6, <2>7, <4>1, <4>2, <4>3
    <3>2. CASE s # d.step
      BY <1>0, <2>8, <2>9, <3>2 DEF StripHonest
    <3> QED
      BY <3>1, <3>2
  <2>12. StripTypeOK'
    BY <1>0, <2>2, <2>4, <2>7, <2>8, <2>9 DEF StripTypeOK
  <2> QED
    BY <1>0, <2>2, <2>10, <2>11, <2>12 DEF HonestIInv, Kept, Concerns
<1>3. CASE FinishLate
  <2>1. PICK i \in DOMAIN finishing : /\ Finish(finishing[i])
                                      /\ finishing' = RemoveAt(finishing, i)
    BY <1>3 DEF FinishLate
  <2>2. Still /\ UNCHANGED <<said, heard, hellos, pending, draining, pauses, held, slept>>
    BY <1>3 DEF FinishLate
  <2>3. finishing \in Seq(FileEnds) /\ i \in 1..Len(finishing)
    BY <1>0, <2>1 DEF StripTypeOK
  <2>4. finishing' \in Seq(FileEnds) /\ finishing[i] \in FileEnds
    BY <2>1, <2>3, Removed
  <2>5. /\ active' \in FileIds \union {NoFile}
        /\ strip' \in [StepIds -> Statuses \union {"idle"}]
        /\ Kept(pending)' /\ HeldEnds' /\ StripHonest'
    BY <2>1, <2>2, <2>4, FinishHonest
  <2> QED
    BY <1>0, <2>2, <2>4, <2>5 DEF HonestIInv, StripTypeOK, Kept
<1> QED
  BY <1>1, <1>2, <1>3

(* A new connection resets the strip. *)
LEMMA HelloHonest ==
  ASSUME HonestIInv, Hello
  PROVE  HonestIInv'
<1>1. /\ hellos' = hellos + 1 /\ heard' \in 0..Len(said)
      /\ Reset /\ UNCHANGED <<said, active, finishing>>
  BY DEF Hello
<1>2. StripTypeOK
  BY DEF HonestIInv
<1>3. /\ strip' \in [StepIds -> Statuses \union {"idle"}] /\ draining' \in BOOLEAN
      /\ pauses' = pauses /\ held' = held /\ slept' \in SUBSET StepIds
      /\ Kept(pending)' /\ HeldEnds' /\ StripHonest'
  BY <1>1, ResetHonest
<1> QED
  BY <1>1, <1>2, <1>3 DEF HonestIInv, StripTypeOK, Kept

(* A page that has heard nothing shows nothing. *)
LEMMA StripStarts == StripInit => HonestIInv
<1> SUFFICES ASSUME StripInit PROVE HonestIInv
  OBVIOUS
<1>1. /\ said = <<>> /\ heard = 0 /\ hellos = 0 /\ active = NoFile /\ strip = Idle
      /\ pending = <<>> /\ draining = FALSE /\ pauses = 0 /\ held = <<>>
      /\ finishing = <<>> /\ slept = {}
  BY DEF StripInit
<1>2. StripTypeOK
  <2>1. /\ said \in Seq(StepItems \union FileEnds \union Announcements) /\ heard \in 0..Len(said)
        /\ pending \in Seq(StepItems) /\ held \in Seq(StepItems) /\ finishing \in Seq(FileEnds)
    BY <1>1
  <2>2. strip \in [StepIds -> Statuses \union {"idle"}]
    BY <1>1 DEF Idle
  <2> QED
    BY <1>1, <2>1, <2>2 DEF StripTypeOK
<1> QED
  BY <1>1, <1>2 DEF HonestIInv, Kept, HeldEnds, StripHonest

(* The invariant of the strip is inductive. *)
LEMMA HonestNext == HonestIInv /\ [StripNext]_stripVars => HonestIInv'
<1> SUFFICES ASSUME HonestIInv, [StripNext]_stripVars PROVE HonestIInv'
  OBVIOUS
<1>1. CASE TellJob \/ \E f \in FileIds : TellFile(f) \/ TellStep(f) \/ TellFinished(f)
  BY <1>1, SayingsTold, TellHonest DEF HonestIInv
<1>2. CASE Hear
  BY <1>2, HearHonest
<1>3. CASE Resume \/ DrawHeld \/ FinishLate
  BY <1>3, LateHonest
<1>4. CASE Hello
  BY <1>4, HelloHonest
<1>5. CASE UNCHANGED stripVars
  BY <1>5 DEF stripVars, HonestIInv, StripTypeOK, Kept, HeldEnds, StripHonest, Concerns
<1> QED
  BY <1>1, <1>2, <1>3, <1>4, <1>5 DEF StripNext

\* Whatever files are told of, and however drains outlive the strips they were
\* started for, a page shows as running only what was said to run of the file it
\* shows; what else it shows of another file is a step that a drain held.
THEOREM StripsAreHonest == StripSpec => []StripHonest
<1>1. StripInit => HonestIInv
  BY StripStarts
<1>2. HonestIInv => StripHonest
  BY DEF HonestIInv
<1> QED
  BY <1>1, <1>2, HonestNext, PTL DEF StripSpec

-----------------------------------------------------------------------------
(* What a strip leaves running. *)

Ends(f) == {Finished(f, "done"), Finished(f, "cancelled")}

\* Among the first n sayings one says that step s of f runs.  Those after it that
\* end the step are among rest, and those that end f, if it is shown, wait.
Open(spoken, shown, waiting, n, f, s, rest) ==
    \E i \in 1..n :
        /\ spoken[i] = StepOf(f, s, "running")
        /\ \A j \in i + 1..n :
             /\ spoken[j] = StepOf(f, s, "done") => spoken[j] \in rest
             /\ shown = f /\ spoken[j] \in Ends(f) => waiting \cap Ends(f) # {}

After(q, k) == {q[m] : m \in k + 1..Len(q)}

\* After n sayings and with q queued: steps that are queued to run, and steps that
\* are drawn running, are open.
Unfinished(n, q) ==
    /\ \A k \in 1..Len(q) : q[k].status = "running" =>
         Open(said, active, Range(finishing), n, q[k].file, q[k].step, After(q, k))
    /\ \A s \in StepIds : strip[s] = "running" =>
         \E f \in FileIds :
           /\ active \in {NoFile, f}
           /\ Open(said, active, Range(finishing), n, f, s, Range(q) \cup Range(held))

SettleIInv == HonestIInv /\ Unfinished(heard, pending)

(* A step stays open while what ends it is queued, or waits. *)
LEMMA StaysOpen ==
  ASSUME NEW spoken, NEW shown, NEW waiting, NEW n \in Nat, NEW f, NEW s, NEW rest,
         Open(spoken, shown, waiting, n, f, s, rest),
         NEW spoken2, NEW shown2, NEW waiting2, NEW n2 \in Nat, n <= n2, NEW rest2,
         \A i \in 1..n : spoken2[i] = spoken[i],
         StepOf(f, s, "done") \in rest => StepOf(f, s, "done") \in rest2,
         shown2 = f => shown = f /\ (waiting \cap Ends(f) # {} => waiting2 \cap Ends(f) # {}),
         \A j \in n + 1..n2 :
           /\ spoken2[j] = StepOf(f, s, "done") => spoken2[j] \in rest2
           /\ shown2 = f /\ spoken2[j] \in Ends(f) => waiting2 \cap Ends(f) # {}
  PROVE  Open(spoken2, shown2, waiting2, n2, f, s, rest2)
<1>1. PICK i \in 1..n :
        /\ spoken[i] = StepOf(f, s, "running")
        /\ \A j \in i + 1..n :
             /\ spoken[j] = StepOf(f, s, "done") => spoken[j] \in rest
             /\ shown = f /\ spoken[j] \in Ends(f) => waiting \cap Ends(f) # {}
  BY DEF Open
<1>2. i \in 1..n2 /\ spoken2[i] = StepOf(f, s, "running")
  BY <1>1
<1>3. ASSUME NEW j \in i + 1..n2
      PROVE  /\ spoken2[j] = StepOf(f, s, "done") => spoken2[j] \in rest2
             /\ shown2 = f /\ spoken2[j] \in Ends(f) => waiting2 \cap Ends(f) # {}
  <2>1. CASE j \in n + 1..n2
    BY <2>1
  <2>2. CASE j \notin n + 1..n2
    <3>1. j \in i + 1..n /\ j \in 1..n
      BY <2>2
    <3> QED
      BY <1>1, <3>1
  <2> QED
    BY <2>1, <2>2
<1> QED
  BY <1>2, <1>3 DEF Open

(* So it does when more may end it. *)
LEMMA OpenWider ==
  ASSUME NEW spoken, NEW shown, NEW waiting, NEW n \in Nat, NEW f, NEW s, NEW rest,
         Open(spoken, shown, waiting, n, f, s, rest),
         NEW rest2, StepOf(f, s, "done") \in rest => StepOf(f, s, "done") \in rest2
  PROVE  Open(spoken, shown, waiting, n, f, s, rest2)
  BY DEF Open

(* And when more is said, or other files have been finished. *)
LEMMA OpenElse ==
  ASSUME NEW spoken, NEW shown, NEW waiting, NEW n \in Nat, NEW f, NEW s, NEW rest,
         Open(spoken, shown, waiting, n, f, s, rest),
         NEW spoken2, \A i \in 1..n : spoken2[i] = spoken[i],
         NEW waiting2, shown = f /\ waiting \cap Ends(f) # {} => waiting2 \cap Ends(f) # {}
  PROVE  Open(spoken2, shown, waiting2, n, f, s, rest)
<1>1. PICK i \in 1..n :
        /\ spoken[i] = StepOf(f, s, "running")
        /\ \A j \in i + 1..n :
             /\ spoken[j] = StepOf(f, s, "done") => spoken[j] \in rest
             /\ shown = f /\ spoken[j] \in Ends(f) => waiting \cap Ends(f) # {}
  BY DEF Open
<1>2. \A j \in i + 1..n : j \in 1..n
  OBVIOUS
<1> QED
  BY <1>1, <1>2 DEF Open

(* A drain draws a step that is open, or holds the end of one. *)
LEMMA DrainSettles ==
  ASSUME NEW q, Kept(q), NEW n \in Nat, NEW m \in Nat, NEW flag \in BOOLEAN, Drain(q, m, flag),
         strip \in [StepIds -> Statuses \union {"idle"}], held \in Seq(StepItems),
         Unfinished(n, q), UNCHANGED <<said, active, finishing>>
  PROVE  Unfinished(n, pending)'
<1>0. /\ pending' \in Seq(StepItems)
      /\ \/ q = <<>> /\ pending' = <<>> /\ UNCHANGED <<strip, held>>
         \/ /\ 1 \in 1..Len(q) /\ Len(pending') = Len(q) - 1
            /\ \A k \in 1..Len(q) - 1 : pending'[k] = q[k + 1]
            /\ \/ /\ strip' = [strip EXCEPT ![q[1].step] = q[1].status]
                  /\ UNCHANGED held
               \/ /\ q[1].status # "running" /\ strip[q[1].step] = "running"
                  /\ held' = Append(held, q[1]) /\ UNCHANGED strip
  BY Drained
<1>s. said' = said /\ active' = active /\ finishing' = finishing /\ q \in Seq(StepItems)
  BY DEF Kept
<1>1. CASE q = <<>> /\ pending' = <<>> /\ UNCHANGED <<strip, held>>
  BY <1>1, <1>s DEF Unfinished
<1>2. CASE /\ 1 \in 1..Len(q) /\ Len(pending') = Len(q) - 1
           /\ \A k \in 1..Len(q) - 1 : pending'[k] = q[k + 1]
           /\ \/ /\ strip' = [strip EXCEPT ![q[1].step] = q[1].status]
                 /\ UNCHANGED held
              \/ /\ q[1].status # "running" /\ strip[q[1].step] = "running"
                 /\ held' = Append(held, q[1]) /\ UNCHANGED strip
  <2> DEFINE d == q[1]
  <2>1. /\ d \in StepItems /\ d.step \in StepIds /\ d.file \in FileIds /\ d.status \in Statuses
        /\ active \in {NoFile, d.file}
    <3>1. d \in StepItems /\ Concerns(d.file)
      BY <1>2 DEF Kept
    <3>2. ASSUME NEW x \in StepItems
          PROVE  x.step \in StepIds /\ x.file \in FileIds /\ x.status \in Statuses
      BY DEF StepItems
    <3> QED
      BY <3>1, <3>2 DEF Concerns
  <2>n. Len(q) \in Nat /\ DOMAIN q = 1..Len(q) /\ DOMAIN pending' = 1..Len(q) - 1
    BY <1>0, <1>2, <1>s
  <2>2. \A k \in 2..Len(q) : q[k] \in Range(pending')
    <3>1. ASSUME NEW k \in 2..Len(q) PROVE q[k] \in Range(pending')
      <4>1. k - 1 \in 1..Len(q) - 1 /\ (k - 1) + 1 = k
        BY <2>n
      <4>2. pending'[k - 1] = q[k] /\ k - 1 \in DOMAIN pending'
        BY <1>2, <2>n, <4>1
      <4> QED
        BY <4>2 DEF Range
    <3> QED
      BY <3>1
  <2>3. \A x \in Range(q) : x = d \/ x \in Range(pending')
    <3>1. ASSUME NEW k \in DOMAIN q PROVE q[k] = d \/ q[k] \in Range(pending')
      <4>1. k = 1 \/ k \in 2..Len(q)
        BY <2>n
      <4> QED
        BY <2>2, <4>1
    <3> QED
      BY <3>1 DEF Range
  <2>4. ASSUME NEW k \in 1..Len(pending'), pending'[k].status = "running"
        PROVE  Open(said, active, Range(finishing), n, pending'[k].file, pending'[k].step,
                    After(pending', k))
    <3>1. k \in 1..Len(q) - 1 /\ k + 1 \in 1..Len(q) /\ pending'[k] = q[k + 1]
      BY <1>2, <2>n
    <3>2. Open(said, active, Range(finishing), n, q[k + 1].file, q[k + 1].step, After(q, k + 1))
      BY <2>4, <3>1 DEF Unfinished
    <3>3. After(q, k + 1) \subseteq After(pending', k)
      <4>1. ASSUME NEW i \in (k + 1) + 1..Len(q) PROVE q[i] \in After(pending', k)
        <5>1. i - 1 \in k + 1..Len(pending') /\ i - 1 \in 1..Len(q) - 1 /\ (i - 1) + 1 = i
          BY <1>2, <2>n, <3>1
        <5>2. q[i] = pending'[i - 1]
          BY <1>2, <5>1
        <5> QED
          BY <5>1, <5>2 DEF After
      <4> QED
        BY <4>1 DEF After
    <3> QED
      BY <3>1, <3>2, <3>3, OpenWider
  <2>5. ASSUME NEW s \in StepIds, strip'[s] = "running"
        PROVE  \E f \in FileIds :
                 /\ active \in {NoFile, f}
                 /\ Open(said, active, Range(finishing), n, f, s, Range(pending') \cup Range(held'))
    <3>1. CASE s = d.step /\ strip' = [strip EXCEPT ![d.step] = d.status]
      <4>1. d.status = "running"
        BY <2>1, <2>5, <3>1
      <4>2. Open(said, active, Range(finishing), n, d.file, s, After(q, 1))
        BY <1>2, <3>1, <4>1 DEF Unfinished
      <4>3. After(q, 1) \subseteq Range(pending') \cup Range(held')
        <5>1. 1 + 1 = 2
          OBVIOUS
        <5> QED
          BY <2>2, <5>1 DEF After
      <4>4. Open(said, active, Range(finishing), n, d.file, s, Range(pending') \cup Range(held'))
        BY <4>2, <4>3, OpenWider
      <4> QED
        BY <2>1, <4>4
    <3>2. CASE strip[s] = "running" /\ (held' = Append(held, d) \/ (held' = held /\ s # d.step))
      <4>1. PICK f \in FileIds :
              /\ active \in {NoFile, f}
              /\ Open(said, active, Range(finishing), n, f, s, Range(q) \cup Range(held))
        BY <3>2 DEF Unfinished
      <4>2. Range(held) \subseteq Range(held')
        <5>1. held' = Append(held, d) => Range(held') = Range(held) \cup {d}
          BY <2>1, Appended
        <5> QED
          BY <3>2, <5>1
      <4>3. StepOf(f, s, "done") \in Range(q) \cup Range(held) =>
              StepOf(f, s, "done") \in Range(pending') \cup Range(held')
        <5>1. s # d.step => StepOf(f, s, "done") # d
          BY DEF StepOf
        <5>2. held' = Append(held, d) => d \in Range(held')
          BY <2>1, Appended
        <5> QED
          BY <2>3, <3>2, <4>2, <5>1, <5>2
      <4>4. Open(said, active, Range(finishing), n, f, s, Range(pending') \cup Range(held'))
        BY <4>1, <4>3, OpenWider
      <4> QED
        BY <4>1, <4>4
    <3> QED
      BY <1>2, <2>1, <2>5, <3>1, <3>2
  <2> QED
    BY <1>s, <2>4, <2>5 DEF Unfinished
<1> QED
  BY <1>0, <1>1, <1>2

(* What is said next ends no step that is open, unless it is queued or waits. *)
LEMMA NextSaid ==
  ASSUME StripTypeOK, NEW f, NEW s, NEW rest, NEW rest2, NEW waiting,
         Open(said, active, Range(finishing), heard, f, s, rest),
         StepOf(f, s, "done") \in rest => StepOf(f, s, "done") \in rest2,
         active = f => (Range(finishing) \cap Ends(f) # {} => waiting \cap Ends(f) # {}),
         said[heard + 1] = StepOf(f, s, "done") => said[heard + 1] \in rest2,
         active = f /\ said[heard + 1] \in Ends(f) => waiting \cap Ends(f) # {}
  PROVE  Open(said, active, waiting, heard + 1, f, s, rest2)
<1>1. heard \in Nat /\ heard + 1 \in Nat /\ heard <= heard + 1
  BY DEF StripTypeOK
<1>2. \A j \in heard + 1..heard + 1 : j = heard + 1
  BY <1>1
<1>3. PICK n2 : n2 = heard + 1
  OBVIOUS
<1> QED
  BY <1>1, <1>2, <1>3, StaysOpen

(* A step that is queued is open, and its end is queued behind it. *)
LEMMA HeardOpen ==
  ASSUME SettleIInv, NEW e \in StepItems, e = said[heard + 1], heard + 1 \in 1..Len(said)
  PROVE  Unfinished(heard + 1, Append(pending, e))
<1>0. /\ StripTypeOK /\ pending \in Seq(StepItems) /\ Unfinished(heard, pending)
  BY DEF SettleIInv, HonestIInv, StripTypeOK
<1>1. PICK q : q = Append(pending, e)
  OBVIOUS
<1>2. /\ q \in Seq(StepItems) /\ Len(q) = Len(pending) + 1 /\ Len(pending) \in Nat
      /\ \A i \in 1..Len(pending) : q[i] = pending[i]
      /\ q[Len(pending) + 1] = e /\ Range(q) = Range(pending) \cup {e}
  BY <1>0, <1>1, Appended
<1>3. e.type = "step"
  BY DEF StepItems
<1>4. \A f : e \notin Ends(f)
  BY <1>3 DEF Ends, Finished
<1>5. ASSUME NEW k \in 1..Len(q), q[k].status = "running"
      PROVE  Open(said, active, Range(finishing), heard + 1, q[k].file, q[k].step, After(q, k))
  <2>1. CASE k \in 1..Len(pending)
    <3>1. /\ q[k] = pending[k]
          /\ Open(said, active, Range(finishing), heard, q[k].file, q[k].step, After(pending, k))
      BY <1>0, <1>2, <1>5, <2>1 DEF Unfinished
    <3>2. After(pending, k) \subseteq After(q, k)
      BY <1>2, <2>1 DEF After
    <3>3. e \in After(q, k)
      <4>1. Len(q) \in k + 1..Len(q)
        BY <1>2, <2>1
      <4> QED
        BY <1>2, <4>1 DEF After
    <3> QED
      BY <1>0, <1>4, <3>1, <3>2, <3>3, NextSaid
  <2>2. CASE k = Len(pending) + 1
    <3>1. q[k] = e /\ e = StepOf(e.file, e.step, "running")
      <4>1. q[k] = e
        BY <1>2, <2>2
      <4>2. \A x \in StepItems : x = StepOf(x.file, x.step, x.status)
        BY DEF StepItems, StepOf
      <4>3. e.status = "running"
        BY <1>5, <4>1
      <4> QED
        BY <4>1, <4>2, <4>3
    <3>2. heard + 1 \in 1..heard + 1 /\ \A j \in (heard + 1) + 1..heard + 1 : FALSE
      BY <1>0 DEF StripTypeOK
    <3> QED
      BY <3>1, <3>2 DEF Open
  <2> QED
    BY <1>2, <2>1, <2>2
<1>6. ASSUME NEW s \in StepIds, strip[s] = "running"
      PROVE  \E f \in FileIds :
               /\ active \in {NoFile, f}
               /\ Open(said, active, Range(finishing), heard + 1, f, s, Range(q) \cup Range(held))
  <2>1. PICK f \in FileIds :
          /\ active \in {NoFile, f}
          /\ Open(said, active, Range(finishing), heard, f, s, Range(pending) \cup Range(held))
    BY <1>0, <1>6 DEF Unfinished
  <2>2. Open(said, active, Range(finishing), heard + 1, f, s, Range(q) \cup Range(held))
    BY <1>0, <1>2, <1>4, <2>1, NextSaid
  <2> QED
    BY <2>1, <2>2
<1>7. Unfinished(heard + 1, q)
  BY <1>5, <1>6 DEF Unfinished
<1> QED
  BY <1>1, <1>7

(* A step the page ignores ends no step that is open: it is of another file, or *)
(* says again that a step runs.                                                 *)
LEMMA IgnoredOpen ==
  ASSUME SettleIInv, NEW e \in StepItems, e = said[heard + 1], heard + 1 \in 1..Len(said),
         Ignored(e)
  PROVE  Unfinished(heard + 1, pending)
<1>0. /\ StripTypeOK /\ Kept(pending) /\ Unfinished(heard, pending)
  BY DEF SettleIInv, HonestIInv
<1>1. e.type = "step"
  BY DEF StepItems
<1>2. \A f : e \notin Ends(f)
  BY <1>1 DEF Ends, Finished
<1>3. \A f, s : active \in {NoFile, f} => e # StepOf(f, s, "done")
  BY DEF Ignored, Concerns, StepOf
<1>4. ASSUME NEW k \in 1..Len(pending), pending[k].status = "running"
      PROVE  Open(said, active, Range(finishing), heard + 1, pending[k].file, pending[k].step,
                  After(pending, k))
  <2>1. /\ Open(said, active, Range(finishing), heard, pending[k].file, pending[k].step,
                After(pending, k))
        /\ active \in {NoFile, pending[k].file}
    BY <1>0, <1>4 DEF Unfinished, Kept, Concerns
  <2>2. PICK f, s : f = pending[k].file /\ s = pending[k].step
    OBVIOUS
  <2>3. said[heard + 1] # StepOf(f, s, "done") /\ said[heard + 1] \notin Ends(f)
    BY <1>2, <1>3, <2>1, <2>2
  <2> QED
    BY <1>0, <2>1, <2>2, <2>3, NextSaid
<1>5. ASSUME NEW s \in StepIds, strip[s] = "running"
      PROVE  \E f \in FileIds :
               /\ active \in {NoFile, f}
               /\ Open(said, active, Range(finishing), heard + 1, f, s,
                       Range(pending) \cup Range(held))
  <2>1. PICK f \in FileIds :
          /\ active \in {NoFile, f}
          /\ Open(said, active, Range(finishing), heard, f, s, Range(pending) \cup Range(held))
    BY <1>0, <1>5 DEF Unfinished
  <2>3. said[heard + 1] # StepOf(f, s, "done") /\ said[heard + 1] \notin Ends(f)
    BY <1>2, <1>3, <2>1
  <2>2. Open(said, active, Range(finishing), heard + 1, f, s, Range(pending) \cup Range(held))
    BY <1>0, <2>1, <2>3, NextSaid
  <2> QED
    BY <2>1, <2>2
<1> QED
  BY <1>4, <1>5 DEF Unfinished

(* A step that still runs when a file has been finished is not of that file, or *)
(* the file failed.                                                             *)
LEMMA FinishLeaves ==
  ASSUME StripTypeOK, NEW e \in FileEnds, Finish(e), NEW s \in StepIds, strip'[s] = "running"
  PROVE  strip[s] = "running" /\ active' = active /\ e \notin Ends(active)
<1>1. e.status \in Endings /\ strip \in [StepIds -> Statuses \union {"idle"}]
  BY DEF FileEnds, StripTypeOK
<1>2. \A to \in {"done", "idle"} : Settled(to)[s] # "running"
  BY DEF Settled
<1>3. /\ e.file # active \/ e.status = "error"
      /\ strip' = strip /\ active' = active
  <2>1. strip' # Settled("done") /\ strip' # Settled("idle")
    BY <1>2
  <2> QED
    BY <2>1 DEF Finish
<1>4. e \notin Ends(active)
  BY <1>3 DEF Ends, Finished
<1> QED
  BY <1>3, <1>4

(* What is heard leaves running only steps that are open. *)
LEMMA HearSettles ==
  ASSUME SettleIInv, Hear
  PROVE  Unfinished(heard, pending)'
<1>0. /\ HonestIInv /\ StripTypeOK /\ Kept(pending) /\ Unfinished(heard, pending)
      /\ strip \in [StepIds -> Statuses \union {"idle"}] /\ held \in Seq(StepItems)
      /\ pauses \in Nat /\ heard + 1 \in Nat
  BY DEF SettleIInv, HonestIInv, StripTypeOK
<1>1. PICK e : e = said[heard + 1]
  OBVIOUS
<1>2. /\ heard + 1 \in 1..Len(said) /\ heard' = heard + 1
      /\ e.type = "step" => e \in StepItems
      /\ e.type = "file_finished" => e \in FileEnds
      /\ HearStart(e) \/ HearStep(e) \/ HearFinished(e)
      /\ UNCHANGED <<said, hellos>>
  BY <1>0, <1>1, HeardSaid
<1>3. CASE HearStart(e)
  <2>1. strip' = Idle /\ pending' = <<>>
    BY <1>3 DEF HearStart, Reset
  <2> QED
    BY <2>1 DEF Unfinished, Idle
<1>4. CASE HearStep(e)
  <2>1. e \in StepItems /\ UNCHANGED <<active, finishing, slept>>
    BY <1>2, <1>4 DEF HearStep
  <2>2. CASE Ignored(e) /\ UNCHANGED <<strip, pending, draining, pauses, held>>
    <3>1. Unfinished(heard + 1, pending)
      BY <1>1, <1>2, <2>1, <2>2, IgnoredOpen
    <3> QED
      BY <1>2, <2>1, <2>2, <3>1 DEF Unfinished
  <2>3. CASE pending' = Append(pending, e) /\ UNCHANGED <<strip, draining, pauses, held>>
    <3>1. Unfinished(heard + 1, Append(pending, e))
      BY <1>1, <1>2, <2>1, HeardOpen
    <3> QED
      BY <1>2, <2>1, <2>3, <3>1 DEF Unfinished
  <2>4. CASE ~Ignored(e) /\ Drain(Append(pending, e), pauses, TRUE)
    <3>1. PICK q : q = Append(pending, e)
      OBVIOUS
    <3>2. PICK n : n = heard + 1
      OBVIOUS
    <3>3. Unfinished(n, q) /\ n \in Nat
      BY <1>0, <1>1, <1>2, <2>1, <3>1, <3>2, HeardOpen
    <3>4. Kept(q)
      <4>1. Concerns(e.file) /\ e \in Range(said)
        BY <1>0, <1>1, <1>2, <2>4, HeardSaid DEF Ignored
      <4>2. /\ q \in Seq(StepItems) /\ Len(q) = Len(pending) + 1
            /\ \A i \in 1..Len(pending) : q[i] = pending[i]
            /\ q[Len(pending) + 1] = e /\ Len(pending) \in Nat
        BY <1>0, <2>1, <3>1, Appended DEF Kept
      <4>3. ASSUME NEW i \in 1..Len(q) PROVE q[i] \in Range(said) /\ Concerns(q[i].file)
        <5>1. i \in 1..Len(pending) \/ i = Len(pending) + 1
          BY <4>2
        <5> QED
          BY <1>0, <4>1, <4>2, <5>1 DEF Kept
      <4> QED
        BY <4>2, <4>3 DEF Kept
    <3>5. Unfinished(n, pending)'
      BY <1>0, <1>2, <2>1, <2>4, <3>1, <3>3, <3>4, DrainSettles
    <3> QED
      BY <1>2, <3>2, <3>5 DEF Unfinished
  <2> QED
    BY <1>4, <2>2, <2>3, <2>4 DEF HearStep
<1>5. CASE HearFinished(e)
  <2>1. e \in FileEnds /\ e.type = "file_finished" /\ UNCHANGED <<pending, draining, pauses, held, slept>>
    BY <1>2, <1>5 DEF HearFinished
  <2>2. \A f, s : e # StepOf(f, s, "done")
    BY <2>1 DEF StepOf
  <2>3. CASE Still /\ Finish(e) /\ UNCHANGED finishing
    <3>1. pending = <<>> /\ pending' = <<>>
      BY <2>1, <2>3 DEF Still
    <3>2. ASSUME NEW s \in StepIds, strip'[s] = "running"
          PROVE  \E f \in FileIds :
                   /\ active' \in {NoFile, f}
                   /\ Open(said, active', Range(finishing), heard + 1, f, s,
                           Range(pending) \cup Range(held))
      <4>1. strip[s] = "running" /\ active' = active /\ e \notin Ends(active)
        BY <1>0, <2>1, <2>3, <3>2, FinishLeaves
      <4>2. PICK f \in FileIds :
              /\ active \in {NoFile, f}
              /\ Open(said, active, Range(finishing), heard, f, s, Range(pending) \cup Range(held))
        BY <1>0, <4>1 DEF Unfinished
      <4>3. said[heard + 1] # StepOf(f, s, "done") /\ ~(active = f /\ said[heard + 1] \in Ends(f))
        BY <1>1, <2>2, <4>1
      <4>4. Open(said, active, Range(finishing), heard + 1, f, s, Range(pending) \cup Range(held))
        BY <1>0, <4>2, <4>3, NextSaid
      <4> QED
        BY <4>1, <4>2, <4>4
    <3> QED
      <4>1. \A k \in 1..Len(pending') : FALSE
        BY <3>1
      <4>2. /\ said' = said /\ heard' = heard + 1 /\ Range(finishing') = Range(finishing)
            /\ Range(pending') \cup Range(held') = Range(pending) \cup Range(held)
        BY <1>2, <2>1, <2>3
      <4> QED
        BY <3>2, <4>1, <4>2 DEF Unfinished
  <2>4. CASE finishing' = Append(finishing, e) /\ UNCHANGED <<strip, active>>
    <3>1. Range(finishing') = Range(finishing) \cup {e}
      BY <1>0, <2>1, <2>4, Appended DEF StripTypeOK
    <3>2. PICK w : w = Range(finishing')
      OBVIOUS
    <3>3. ASSUME NEW f, NEW s, NEW rest,
                 Open(said, active, Range(finishing), heard, f, s, rest)
          PROVE  Open(said, active, w, heard + 1, f, s, rest)
      <4>1. said[heard + 1] # StepOf(f, s, "done")
        BY <1>1, <2>2
      <4>2. /\ Range(finishing) \cap Ends(f) # {} => w \cap Ends(f) # {}
            /\ said[heard + 1] \in Ends(f) => w \cap Ends(f) # {}
        BY <1>1, <3>1, <3>2
      <4> QED
        BY <1>0, <3>3, <4>1, <4>2, NextSaid
    <3>4. ASSUME NEW k \in 1..Len(pending), pending[k].status = "running"
          PROVE  Open(said, active, w, heard + 1, pending[k].file, pending[k].step, After(pending, k))
      BY <1>0, <3>3, <3>4 DEF Unfinished
    <3>5. ASSUME NEW s \in StepIds, strip[s] = "running"
          PROVE  \E f \in FileIds :
                   /\ active \in {NoFile, f}
                   /\ Open(said, active, w, heard + 1, f, s, Range(pending) \cup Range(held))
      BY <1>0, <3>3, <3>5 DEF Unfinished
    <3> QED
      BY <1>2, <2>1, <2>4, <3>2, <3>4, <3>5 DEF Unfinished
  <2> QED
    BY <1>5, <2>3, <2>4 DEF HearFinished
<1> QED
  BY <1>2, <1>3, <1>4, <1>5

(* So do the drains, and the files that are finished late. *)
LEMMA LateSettles ==
  ASSUME SettleIInv, Resume \/ DrawHeld \/ FinishLate
  PROVE  Unfinished(heard, pending)'
<1>0. /\ StripTypeOK /\ Kept(pending) /\ HeldEnds /\ Unfinished(heard, pending)
      /\ strip \in [StepIds -> Statuses \union {"idle"}] /\ held \in Seq(StepItems)
      /\ pauses \in Nat /\ heard \in Nat /\ finishing \in Seq(FileEnds) /\ draining \in BOOLEAN
  BY DEF SettleIInv, HonestIInv, StripTypeOK
<1>1. CASE Resume
  <2>1. /\ pauses > 0 /\ Drain(pending, pauses - 1, draining)
        /\ UNCHANGED <<said, heard, hellos, active, finishing, slept>>
    BY <1>1 DEF Resume
  <2>2. PICK q, n : q = pending /\ n = heard
    OBVIOUS
  <2>3. pauses - 1 \in Nat /\ Kept(q) /\ n \in Nat /\ Unfinished(n, q) /\ Drain(q, pauses - 1, draining)
    BY <1>0, <2>1, <2>2
  <2>4. Unfinished(n, pending)'
    BY <1>0, <2>1, <2>3, DrainSettles
  <2> QED
    BY <2>1, <2>2, <2>4 DEF Unfinished
<1>2. CASE DrawHeld
  <2>1. PICK i \in DOMAIN held : /\ strip' = [strip EXCEPT ![held[i].step] = held[i].status]
                                 /\ held' = RemoveAt(held, i)
    BY <1>2 DEF DrawHeld
  <2>2. UNCHANGED <<said, heard, hellos, active, pending, draining, finishing, slept>>
    BY <1>2 DEF DrawHeld
  <2>3. i \in 1..Len(held) /\ DOMAIN held = 1..Len(held)
    BY <1>0, <2>1
  <2>4. \A m \in 1..Len(held) : m # i => held[m] \in Range(held')
    BY <1>0, <2>1, <2>3, Removed
  <2>5. held[i].status # "running" /\ held[i] \in StepItems /\ held[i].step \in StepIds
    <3>1. held[i].status # "running" /\ held[i] \in StepItems
      BY <1>0, <2>3 DEF HeldEnds
    <3>2. \A x \in StepItems : x.step \in StepIds
      BY DEF StepItems
    <3> QED
      BY <3>1, <3>2
  <2>6. ASSUME NEW s \in StepIds, strip'[s] = "running"
        PROVE  \E f \in FileIds :
                 /\ active \in {NoFile, f}
                 /\ Open(said, active, Range(finishing), heard, f, s,
                         Range(pending) \cup Range(held'))
    <3>1. s # held[i].step /\ strip[s] = "running"
      BY <1>0, <2>1, <2>5, <2>6
    <3>2. PICK f \in FileIds :
            /\ active \in {NoFile, f}
            /\ Open(said, active, Range(finishing), heard, f, s, Range(pending) \cup Range(held))
      BY <1>0, <3>1 DEF Unfinished
    <3>3. StepOf(f, s, "done") # held[i]
      BY <3>1 DEF StepOf
    <3>4. StepOf(f, s, "done") \in Range(held) => StepOf(f, s, "done") \in Range(held')
      BY <2>3, <2>4, <3>3 DEF Range
    <3>5. Open(said, active, Range(finishing), heard, f, s, Range(pending) \cup Range(held'))
      BY <1>0, <3>2, <3>4, OpenWider
    <3> QED
      BY <3>2, <3>5
  <2> QED
    BY <1>0, <2>2, <2>6 DEF Unfinished
<1>3. CASE FinishLate
  <2>1. PICK i \in DOMAIN finishing : /\ Finish(finishing[i])
                                      /\ finishing' = RemoveAt(finishing, i)
    BY <1>3 DEF FinishLate
  <2>2. /\ UNCHANGED <<said, heard, hellos, pending, draining, pauses, held, slept>>
        /\ pending = <<>>
    BY <1>3 DEF FinishLate, Still
  <2>3. /\ i \in 1..Len(finishing) /\ DOMAIN finishing = 1..Len(finishing)
        /\ finishing[i] \in FileEnds
    BY <1>0, <2>1
  <2>4. \A m \in 1..Len(finishing) : m # i => finishing[m] \in Range(finishing')
    BY <1>0, <2>1, <2>3, Removed
  <2>5. PICK w : w = Range(finishing')
    OBVIOUS
  <2>6. ASSUME NEW s \in StepIds, strip'[s] = "running"
        PROVE  \E f \in FileIds :
                 /\ active' \in {NoFile, f}
                 /\ Open(said, active', w, heard, f, s, Range(pending) \cup Range(held))
    <3>1. strip[s] = "running" /\ active' = active /\ finishing[i] \notin Ends(active)
      BY <1>0, <2>1, <2>3, <2>6, FinishLeaves
    <3>2. PICK f \in FileIds :
            /\ active \in {NoFile, f}
            /\ Open(said, active, Range(finishing), heard, f, s, Range(pending) \cup Range(held))
      BY <1>0, <3>1 DEF Unfinished
    <3>3. active = f /\ Range(finishing) \cap Ends(f) # {} => w \cap Ends(f) # {}
      <4> SUFFICES ASSUME active = f, NEW m \in 1..Len(finishing), finishing[m] \in Ends(f)
                   PROVE  w \cap Ends(f) # {}
        BY <2>3 DEF Range
      <4>1. m # i
        BY <3>1
      <4> QED
        BY <2>4, <2>5, <4>1
    <3>5. Open(said, active, w, heard, f, s, Range(pending) \cup Range(held))
      BY <1>0, <3>2, <3>3, OpenElse
    <3> QED
      BY <3>1, <3>2, <3>5
  <2> QED
    <3>1. \A k \in 1..Len(pending') : FALSE
      BY <2>2
    <3>2. /\ said' = said /\ heard' = heard /\ Range(finishing') = w
          /\ Range(pending') \cup Range(held') = Range(pending) \cup Range(held)
      BY <2>2, <2>5
    <3> QED
      BY <2>6, <3>1, <3>2 DEF Unfinished
<1> QED
  BY <1>1, <1>2, <1>3

(* The invariant of what a strip leaves running is inductive. *)
LEMMA SettleNext == SettleIInv /\ [StripNext]_stripVars => SettleIInv'
<1> SUFFICES ASSUME SettleIInv, [StripNext]_stripVars PROVE Unfinished(heard, pending)'
  BY HonestNext DEF SettleIInv
<1>0. StripTypeOK /\ Unfinished(heard, pending) /\ heard \in Nat /\ heard <= Len(said)
  BY DEF SettleIInv, HonestIInv, StripTypeOK
<1>1. CASE TellJob \/ \E f \in FileIds : TellFile(f) \/ TellStep(f) \/ TellFinished(f)
  <2>1. PICK e \in Sayings : Tell(e)
    BY <1>0, <1>1, SayingsTold
  <2>2. /\ said' = Append(said, e) /\ said \in Seq(Sayings)
        /\ UNCHANGED <<heard, hellos, active, strip, pending, draining, pauses, held, finishing, slept>>
    BY <1>0, <2>1 DEF Tell, StripTypeOK, Sayings
  <2>3. \A i \in 1..heard : said'[i] = said[i]
    <3>1. \A i \in 1..Len(said) : said'[i] = said[i]
      BY <2>2, Appended
    <3>2. Len(said) \in Nat
      BY <2>2
    <3> QED
      BY <1>0, <3>1, <3>2
  <2>4. PICK sd : sd = said'
    OBVIOUS
  <2>5. ASSUME NEW f, NEW s, NEW rest,
               Open(said, active, Range(finishing), heard, f, s, rest)
        PROVE  Open(sd, active, Range(finishing), heard, f, s, rest)
    BY <1>0, <2>3, <2>4, <2>5, OpenElse
  <2> QED
    BY <1>0, <2>2, <2>4, <2>5 DEF Unfinished
<1>2. CASE Hear
  BY <1>2, HearSettles
<1>3. CASE Resume \/ DrawHeld \/ FinishLate
  BY <1>3, LateSettles
<1>4. CASE Hello
  <2>1. strip' = Idle /\ pending' = <<>>
    BY <1>4 DEF Hello, Reset
  <2> QED
    BY <2>1 DEF Unfinished, Idle
<1>5. CASE UNCHANGED stripVars
  BY <1>0, <1>5 DEF stripVars, Unfinished
<1> QED
  BY <1>1, <1>2, <1>3, <1>4, <1>5 DEF StripNext

\* When the page has heard and drawn everything, a step it shows as running is one
\* that the pipeline left so: drains that sleep across resets and connections, and
\* ends of files that wait for them, lose the end of no step.
THEOREM StripsSettle == StripSpec => []StripSettles
<1>1. StripInit => SettleIInv
  <2> SUFFICES ASSUME StripInit PROVE SettleIInv
    OBVIOUS
  <2>1. HonestIInv
    BY StripStarts
  <2>2. strip = Idle /\ pending = <<>>
    BY DEF StripInit
  <2> QED
    BY <2>1, <2>2 DEF SettleIInv, Unfinished, Idle
<1>2. SettleIInv => StripSettles
  <2> SUFFICES ASSUME SettleIInv, AtRest, NEW s \in StepIds, strip[s] = "running"
               PROVE  IF active = NoFile THEN \E f \in FileIds : LastRunning(f, s)
                                         ELSE LeftOpen(active, s)
    BY DEF StripSettles
  <2>1. PICK f \in FileIds :
          /\ active \in {NoFile, f}
          /\ Open(said, active, Range(finishing), heard, f, s, Range(pending) \cup Range(held))
    BY DEF SettleIInv, Unfinished
  <2>2. /\ heard = Len(said) /\ Range(pending) = {} /\ Range(held) = {} /\ Range(finishing) = {}
    BY DEF AtRest, Range
  <2>3. said \in Seq(Sayings) /\ DOMAIN said = 1..Len(said)
    BY DEF SettleIInv, HonestIInv, StripTypeOK, Sayings
  <2>4. PICK i \in 1..Len(said) :
          /\ said[i] = StepOf(f, s, "running")
          /\ \A j \in i + 1..Len(said) :
               /\ said[j] # StepOf(f, s, "done")
               /\ active = f => said[j] \notin Ends(f)
    BY <2>1, <2>2 DEF Open
  <2>5. LastRunning(f, s)
    BY <2>3, <2>4 DEF LastRunning
  <2>6. active = f => LeftOpen(active, s)
    BY <2>3, <2>4 DEF LeftOpen, Ends
  <2> QED
    BY <2>1, <2>5, <2>6
<1> QED
  BY <1>1, <1>2, SettleNext, PTL DEF StripSpec

=============================================================================
