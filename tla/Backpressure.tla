---------------------------- MODULE Backpressure ----------------------------
(* Credits and admission (cntp/BackpressureRuntime.h): per socket a word of  *)
(* credit that producers add to and take from with compare-exchanges, and a  *)
(* count of live connections under a limit.  Slots are published once and    *)
(* never given up, so one step stands for the search of find.  A weak        *)
(* compare-exchange may fail for no reason and then has read the word again. *)
EXTENDS Naturals, FiniteSets, FiniteSetsExt

CONSTANTS Threads, Sockets,
          MaxFlows,
          Amounts,         \* bytes of a start, a grant or a consume, all positive
          MaxCredit,       \* the largest value of the 32-bit word
          MaxConnections,
          MaxCalls         \* bound on the calls of one thread

Slots == 1..MaxFlows
Empty == "empty"          \* kEmptyFd
Reserved == "reserved"    \* kReservedFd

VARIABLES fd_bits, credit_bytes,   \* the flow slots
          start_gate,              \* the thread that holds it, or "free"
          live_connections, sequence,
          thread,                  \* per thread: step, call, its arguments, the word it observed
          balance,                 \* history per socket: the credit its calls add up to
          accepted                 \* history: accepts less the releases that found a connection

vars == <<fd_bits, credit_bytes, start_gate, live_connections, sequence, thread, balance, accepted>>
flows == <<fd_bits, credit_bytes, start_gate, balance>>
admission == <<live_connections, sequence, accepted>>

Idle(n) == [pc |-> "idle", call |-> "none", fd |-> Empty, bytes |-> 0, slot |-> 0, observed |-> 0, calls |-> n]

Init ==
  /\ fd_bits = [i \in Slots |-> Empty]
  /\ credit_bytes = [i \in Slots |-> 0]
  /\ start_gate = "free"
  /\ live_connections = 0 /\ sequence = 0
  /\ thread = [t \in Threads |-> Idle(0)]
  /\ balance = [s \in Sockets |-> 0]
  /\ accepted = 0

find(fd) == {i \in Slots : fd_bits[i] = fd}

Step(t, pc) == thread' = [thread EXCEPT ![t].pc = pc]
Done(t) == thread' = [thread EXCEPT ![t] = Idle(@.calls)]

Call(t, call, fd, bytes) ==
  /\ thread[t].pc = "idle" /\ thread[t].calls < MaxCalls
  /\ thread' = [thread EXCEPT ![t] = [Idle(@.calls + 1) EXCEPT !.pc = call, !.call = call, !.fd = fd, !.bytes = bytes]]
  /\ UNCHANGED <<flows, admission>>

EnterStart(t) ==
  /\ thread[t].pc = "start" /\ start_gate = "free"
  /\ start_gate' = t
  /\ Step(t, "search")
  /\ UNCHANGED <<fd_bits, credit_bytes, balance, admission>>

(* start_flow of a socket that has a slot sets its credit anew.              *)
Restart(t) ==
  LET c == thread[t]
  IN  /\ c.pc = "search" /\ find(c.fd) # {}
      /\ credit_bytes' = [credit_bytes EXCEPT ![Min(find(c.fd))] = c.bytes]
      /\ balance' = [balance EXCEPT ![c.fd] = c.bytes]
      /\ start_gate' = "free"
      /\ Done(t)
      /\ UNCHANGED <<fd_bits, admission>>

NotFound(t) ==
  /\ thread[t].pc = "search" /\ find(thread[t].fd) = {}
  /\ Step(t, "reserve")
  /\ UNCHANGED <<flows, admission>>

(* The first empty slot is reserved, gets its credit and then its key; with  *)
(* none left the start is refused.                                           *)
ReserveSlot(t) ==
  /\ thread[t].pc = "reserve"
  /\ IF find(Empty) = {}
     THEN start_gate' = "free" /\ Done(t) /\ UNCHANGED fd_bits
     ELSE /\ fd_bits' = [fd_bits EXCEPT ![Min(find(Empty))] = Reserved]
          /\ thread' = [thread EXCEPT ![t].pc = "credit", ![t].slot = Min(find(Empty))]
          /\ UNCHANGED start_gate
  /\ UNCHANGED <<credit_bytes, balance, admission>>

StoreCredit(t) ==
  /\ thread[t].pc = "credit"
  /\ credit_bytes' = [credit_bytes EXCEPT ![thread[t].slot] = thread[t].bytes]
  /\ Step(t, "publish")
  /\ UNCHANGED <<fd_bits, start_gate, balance, admission>>

PublishFlow(t) ==
  /\ thread[t].pc = "publish"
  /\ fd_bits' = [fd_bits EXCEPT ![thread[t].slot] = thread[t].fd]
  /\ balance' = [balance EXCEPT ![thread[t].fd] = thread[t].bytes]
  /\ start_gate' = "free"
  /\ Done(t)
  /\ UNCHANGED <<credit_bytes, admission>>

(* grant_credit and consume_credit find the slot and load the credit.        *)
LoadCredit(t) ==
  LET c == thread[t]
  IN  /\ c.pc \in {"grant", "consume"}
      /\ IF find(c.fd) = {} THEN Done(t)
         ELSE \E i \in find(c.fd) :
                thread' = [thread EXCEPT ![t].pc = "exchange", ![t].slot = i, ![t].observed = credit_bytes[i]]
      /\ UNCHANGED <<flows, admission>>

Fits(c) == IF c.call = "grant" THEN c.bytes <= MaxCredit - c.observed ELSE c.observed >= c.bytes
Moved(c, word) == IF c.call = "grant" THEN word + c.bytes ELSE word - c.bytes

\* Faulty: the new credit is stored over whatever the word holds by then.
ExchangeCredit_store(t) ==
  LET c == thread[t]
  IN  /\ c.pc = "exchange"
      /\ IF Fits(c) THEN /\ credit_bytes' = [credit_bytes EXCEPT ![c.slot] = Moved(c, c.observed)]
                         /\ balance' = [balance EXCEPT ![c.fd] = Moved(c, @)]
                    ELSE UNCHANGED <<credit_bytes, balance>>
      /\ Done(t)
      /\ UNCHANGED <<fd_bits, start_gate, admission>>

(* An overflow or a lack of credit is refused on the value observed;         *)
(* otherwise the word is exchanged, or read again.                           *)
ExchangeCredit(t) ==
  LET c == thread[t]
  IN  /\ c.pc = "exchange"
      /\ \/ ~Fits(c) /\ Done(t) /\ UNCHANGED <<credit_bytes, balance>>
         \/ /\ Fits(c) /\ credit_bytes[c.slot] = c.observed
            /\ credit_bytes' = [credit_bytes EXCEPT ![c.slot] = Moved(c, c.observed)]
            /\ balance' = [balance EXCEPT ![c.fd] = Moved(c, @)]
            /\ Done(t)
         \/ /\ Fits(c)
            /\ thread' = [thread EXCEPT ![t].observed = credit_bytes[c.slot]]
            /\ UNCHANGED <<credit_bytes, balance>>
      /\ UNCHANGED <<fd_bits, start_gate, admission>>

(* try_accept_connection: a resource past its limit rejects at once, and     *)
(* every decision takes a number.                                            *)
LoadLive(t) ==
  /\ thread[t].pc \in {"accept", "release"}
  /\ \/ /\ thread[t].call = "accept"
        /\ sequence' = sequence + 1
        /\ Done(t)
     \/ /\ thread' = [thread EXCEPT ![t].pc = "live", ![t].observed = live_connections]
        /\ UNCHANGED sequence
  /\ UNCHANGED <<flows, live_connections, accepted>>

Accept(t) ==
  LET c == thread[t]
  IN  /\ c.pc = "live" /\ c.call = "accept"
      /\ \/ /\ c.observed >= MaxConnections
            /\ sequence' = sequence + 1
            /\ Done(t)
            /\ UNCHANGED <<live_connections, accepted>>
         \/ /\ c.observed < MaxConnections /\ live_connections = c.observed
            /\ live_connections' = c.observed + 1
            /\ accepted' = accepted + 1
            /\ Step(t, "decide")
            /\ UNCHANGED sequence
         \/ /\ c.observed < MaxConnections
            /\ thread' = [thread EXCEPT ![t].observed = live_connections]
            /\ UNCHANGED <<live_connections, sequence, accepted>>
      /\ UNCHANGED flows

Decide(t) ==
  /\ thread[t].pc = "decide"
  /\ sequence' = sequence + 1
  /\ Done(t)
  /\ UNCHANGED <<flows, live_connections, accepted>>

(* release_connection stops at zero.                                         *)
Release(t) ==
  LET c == thread[t]
  IN  /\ c.pc = "live" /\ c.call = "release"
      /\ \/ c.observed = 0 /\ Done(t) /\ UNCHANGED <<live_connections, accepted>>
         \/ /\ c.observed # 0 /\ live_connections = c.observed
            /\ live_connections' = c.observed - 1
            /\ accepted' = accepted - 1
            /\ Done(t)
         \/ /\ c.observed # 0
            /\ thread' = [thread EXCEPT ![t].observed = live_connections]
            /\ UNCHANGED <<live_connections, accepted>>
      /\ UNCHANGED <<flows, sequence>>

Next == \E t \in Threads :
  \/ \E call \in {"start", "grant", "consume"}, s \in Sockets, n \in Amounts : Call(t, call, s, n)
  \/ \E call \in {"accept", "release"} : Call(t, call, Empty, 0)
  \/ EnterStart(t) \/ Restart(t) \/ NotFound(t) \/ ReserveSlot(t) \/ StoreCredit(t) \/ PublishFlow(t)
  \/ LoadCredit(t) \/ ExchangeCredit(t) \/ LoadLive(t) \/ Accept(t) \/ Decide(t) \/ Release(t)

Spec == Init /\ [][Next]_vars

TypeOK ==
  /\ \A i \in Slots : fd_bits[i] \in Sockets \union {Empty, Reserved} /\ credit_bytes[i] \in 0..MaxCredit
  /\ start_gate \in Threads \union {"free"}
  /\ live_connections \in 0..MaxConnections

(* One socket is never published into two slots (start_gate_), so no credit  *)
(* granted to one of them is missed by a consume that finds the other.       *)
OneSlotPerSocket == \A s \in Sockets : Cardinality(find(s)) <= 1

(* The credit of a started flow is what the last start gave it and the       *)
(* grants and consumes since then left: none is lost under concurrent        *)
(* producers, a restart in between included, and the word neither wraps nor  *)
(* goes below zero.                                                          *)
CreditIsBalance == \A i \in Slots : fd_bits[i] \in Sockets => credit_bytes[i] = balance[fd_bits[i]]

(* The live count is the accepts less the releases, none lost, and never     *)
(* more than the limit or below zero.                                        *)
LiveIsAccepted == live_connections = accepted

(* What producers and acceptors rely on.                                     *)
CreditsInv == TypeOK /\ OneSlotPerSocket /\ CreditIsBalance /\ LiveIsAccepted
=============================================================================
