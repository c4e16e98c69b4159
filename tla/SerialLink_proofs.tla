-------------------------- MODULE SerialLink_proofs --------------------------
(* Lemmas about the two streams of the serial line, cited by the proofs    *)
(* about the dongle and about the dongle joined to the client.             *)
EXTENDS SerialLink, SequenceTheorems, TLAPS

(* Writing a reply at the end of the stream keeps it a stream of lines.    *)
LEMMA AppendLine ==
    ASSUME NEW q \in Seq(Lines), NEW l \in Lines
    PROVE  /\ Append(q, l) \in Seq(Lines)
           /\ Len(Append(q, l)) = Len(q) + 1
           /\ \A i \in 1 .. Len(q) + 1 :
                Append(q, l)[i] = IF i = Len(q) + 1 THEN l ELSE q[i]
  BY AppendProperties

(* Writing a command keeps the receive buffer a sequence of commands.      *)
LEMMA DeliverType ==
    ASSUME NEW q \in Seq(Commands), NEW c \in Commands
    PROVE  Deliver(q, c) \in Seq(Commands)
<1>1. CASE q # <<>> /\ q[Len(q)] = Part
  <2>1. Len(q) \in 1 .. Len(q)
    BY <1>1, EmptySeq
  <2>2. (IF c = Part THEN Part ELSE Bad) \in Commands
    BY DEF Commands
  <2> QED
    BY <1>1, <2>1, <2>2, ExceptSeq DEF Deliver
<1>2. CASE ~(q # <<>> /\ q[Len(q)] = Part)
  BY <1>2, AppendProperties DEF Deliver
<1> QED
  BY <1>1, <1>2

(* Damaging line i changes that line only.                                 *)
LEMMA GarbledLine ==
    ASSUME NEW q \in Seq(Lines), NEW i \in 1 .. Len(q)
    PROVE  /\ Garbled(q, i) \in Seq(Lines)
           /\ Len(Garbled(q, i)) = Len(q)
           /\ \A j \in 1 .. Len(q) : Garbled(q, i)[j] = IF j = i THEN Junk ELSE q[j]
<1>1. Junk \in Lines
  BY DEF Lines
<1> QED
  BY <1>1, ExceptSeq DEF Garbled

(* Losing the newest line leaves the others in place.                      *)
LEMMA LoseLast ==
    ASSUME NEW q \in Seq(Lines), q # <<>>
    PROVE  /\ SubSeq(q, 1, Len(q) - 1) \in Seq(Lines)
           /\ Len(SubSeq(q, 1, Len(q) - 1)) = Len(q) - 1
           /\ \A j \in 1 .. Len(q) - 1 : SubSeq(q, 1, Len(q) - 1)[j] = q[j]
<1>1. Len(q) \in Nat \ {0}
  BY EmptySeq
<1>2. \A j \in 1 .. Len(q) - 1 : q[j] \in Lines
  BY <1>1, ElementOfSeq
<1>3. 1 \in Int /\ Len(q) - 1 \in Int
  BY <1>1
<1> DEFINE n == Len(q) - 1
<1>4. \A i \in 1 .. n : q[i] \in Lines
  BY <1>2
<1> HIDE DEF n
<1>5. /\ SubSeq(q, 1, n) \in Seq(Lines)
      /\ Len(SubSeq(q, 1, n)) = IF 1 <= n THEN n - 1 + 1 ELSE 0
      /\ \A i \in 1 .. n - 1 + 1 : SubSeq(q, 1, n)[i] = q[1 + i - 1]
  BY <1>3, <1>4, SubSeqProperties DEF n
<1>6. n \in Nat
  BY <1>1 DEF n
<1>7. Len(SubSeq(q, 1, n)) = n
  BY <1>5, <1>6
<1>8. \A j \in 1 .. n : SubSeq(q, 1, n)[j] = q[j]
  BY <1>5, <1>6
<1> QED
  BY <1>5, <1>7, <1>8, Zenon DEF n

(* A command whose verb is DERIVE carries a request; no other does.        *)
LEMMA DeriveCarriesRequest ==
    ASSUME NEW c \in Commands
    PROVE  /\ c.op \in {"HELLO", "PUBLIC", "DERIVE", "BAD", "PART"}
           /\ c.op = "DERIVE" => c.req \in Requests /\ c = Derive(c.req)
           /\ c.op = "PART" <=> c = Part
  BY DEF Commands, ClientCommands, Command, Hello, Public, Derive, Bad, Part

(* A line is known by its tag.                                             *)
LEMMA LineTags ==
    ASSUME NEW l \in Lines
    PROVE  /\ l.tag \in {"READY", "ERR", "CONFIRM", "JUNK", "PUB", "KEY"}
           /\ l.tag = "KEY" => l.req \in Requests
  BY DEF Lines, Line, Ready, Err, Confirm, Junk, Pub, Key
=============================================================================
