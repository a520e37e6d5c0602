------------------------------ MODULE AddrPool ------------------------------
(***************************************************************************)
(* The addresses an LNS gives to calls: the ranges of the configuration    *)
(* (set_range and the options that use it in file.c), the choice of an LNS *)
(* section for a peer (get_lns), and the reservation of addresses while    *)
(* calls come and go (reserve_addr, unreserve_addr, get_addr in aaa.c; the *)
(* cases ICRQ and ICCN of control_finish; destroy_call).                   *)
(*                                                                         *)
(* An address is a number.  The hash table of used addresses is a set.     *)
(***************************************************************************)
EXTENDS Integers, Sequences, FiniteSets

CONSTANTS
  Lns,            \* the named LNS sections
  Default,        \* the section [lns default]
  Calls,          \* bound: the calls there may be at a time
  Peers,          \* addresses of peers
  RemoteAddrs,    \* addresses an 'ip range' may name
  LocalAddrs,     \* addresses a 'local ip range' may name, perhaps the same
  MaxRules        \* bound: ranges of the configuration

Sections == Lns \cup {Default}

NoAddr == 0

ASSUME PoolAssumption ==
  /\ Peers \subseteq Nat
  /\ RemoteAddrs \subseteq Nat \ {NoAddr} /\ LocalAddrs \subseteq Nat \ {NoAddr}
  /\ MaxRules \in Nat

VARIABLES
  running,    \* has the configuration been read?
  lnslist,    \* the named sections read so far, the last one first
  deflns,     \* has [lns default] been read?
  access,     \* gconfig.accesscontrol
  assign,     \* the sections with lns->assign_ip
  conf,       \* the ranges of each section
  calls,      \* the calls
  used,       \* uaddr: the addresses in use
  localaddr   \* lns->localaddr

vars == <<running, lnslist, deflns, access, assign, conf, calls, used,
          localaddr>>

config == <<lnslist, deflns, access, assign, conf>>

NoCall == [state |-> "none", lns |-> Default, peer |-> 0, addr |-> NoAddr]

(* new_lns and init_addr *)
Init ==
  /\ running = FALSE
  /\ lnslist = <<>> /\ deflns = FALSE
  /\ access = FALSE
  /\ assign = Sections
  /\ conf = [l \in Sections |-> [range |-> <<>>, lacs |-> <<>>,
                                 localrange |-> <<>>]]
  /\ calls = [c \in Calls |-> NoCall]
  /\ used = {}
  /\ localaddr = [l \in Sections |-> NoAddr]

-----------------------------------------------------------------------------
(* parse_config: the heading of a section, which goes to the head of the   *)
(* list; the default section is kept apart.                                *)
NewLns(l) ==
  /\ ~running
  /\ IF l = Default THEN ~deflns /\ deflns' = TRUE /\ UNCHANGED lnslist
     ELSE /\ \A i \in DOMAIN lnslist : lnslist[i] # l
          /\ lnslist' = <<l>> \o lnslist /\ UNCHANGED deflns
  /\ UNCHANGED <<running, access, assign, conf, calls, used, localaddr>>

(* The sections that have been read. *)
Known(l) == IF l = Default THEN deflns ELSE \E i \in DOMAIN lnslist : lnslist[i] = l

Rules(addrs) ==
  {r \in [start : addrs, end : addrs, sense : {"allow", "deny"}] :
     r.start <= r.end}

Keys == {"range", "lacs", "localrange"}

RuleCount ==
  Cardinality({x \in Sections \X Keys \X (1 .. MaxRules) :
                 x[3] <= Len(conf[x[1]][x[2]])})

(* set_range: a range is added behind the others.  One whose start is      *)
(* greater than its end is refused, and the daemon does not start.         *)
SetRange(l, key, addrs) ==
  /\ ~running /\ Known(l) /\ RuleCount < MaxRules
  /\ \E r \in Rules(addrs) : conf' = [conf EXCEPT ![l][key] = Append(@, r)]
  /\ UNCHANGED <<running, lnslist, deflns, access, assign, calls, used,
                 localaddr>>

SetIprange(l) == SetRange(l, "range", RemoteAddrs)

SetLac(l) == SetRange(l, "lacs", Peers)

(* Nothing compares a local range with the ranges for remote addresses. *)
SetLocaliprange(l) == SetRange(l, "localrange", LocalAddrs)

(* set_accesscontrol *)
SetAccesscontrol ==
  /\ ~running
  /\ access' \in BOOLEAN
  /\ UNCHANGED <<running, lnslist, deflns, assign, conf, calls, used,
                 localaddr>>

(* set_assignip: 'assign ip = no' *)
SetAssignip(l) ==
  /\ ~running /\ Known(l)
  /\ assign' = assign \ {l}
  /\ UNCHANGED <<running, lnslist, deflns, access, conf, calls, used,
                 localaddr>>

(* The configuration has been read. *)
Start ==
  /\ ~running
  /\ running' = TRUE
  /\ UNCHANGED <<config, calls, used, localaddr>>

InRange(a, r) == r.start <= a /\ a <= r.end

(* The rules of rs from i on that are about a; the last one decides. *)
Decides(rs, i, a, j) ==
  /\ j \in i .. Len(rs) /\ InRange(a, rs[j])
  /\ \A k \in j + 1 .. Len(rs) : ~InRange(a, rs[k])

-----------------------------------------------------------------------------
(* Mutant: the first rule about the peer decides.                          *)
Sense_FirstRule(rs, p, allow) ==
  LET first == {i \in DOMAIN rs : /\ InRange(p, rs[i])
                                  /\ \A k \in 1 .. i - 1 : ~InRange(p, rs[k])}
  IN  IF first = {} THEN allow ELSE rs[CHOOSE i \in first : TRUE].sense

(* get_lns, the inner loop: allow after the rules of one section.          *)
Sense(rs, p, allow) ==
  LET after[i \in 0 .. Len(rs)] ==
        IF i = 0 THEN allow
        ELSE IF InRange(p, rs[i]) THEN rs[i].sense ELSE after[i - 1]
  IN  after[Len(rs)]

(* get_lns: the sections in the order they are asked, the default last.    *)
Asked == IF deflns THEN Append(lnslist, Default) ELSE lnslist

(* get_lns, the outer loop: allow after the first n sections of the list,  *)
(* which is not reset between them.  The loop ends when it is set.         *)
Allow(list, p) ==
  LET allow[n \in 0 .. Len(list)] ==
        IF n = 0 THEN "deny"
        ELSE IF allow[n - 1] = "allow" THEN "allow"
        ELSE Sense(conf[list[n]].lacs, p, allow[n - 1])
  IN  allow

(* get_lns: the section it returns for a peer, if any.                     *)
GetLns(p, l) ==
  LET allow == Allow(Asked, p)
  IN  \/ \E n \in DOMAIN Asked :
           /\ allow[n - 1] # "allow" /\ allow[n] = "allow" /\ l = Asked[n]
      \/ /\ allow[Len(Asked)] # "allow" /\ ~access
         /\ deflns /\ l = Default

(* get_addr: what the rule i of rs has to give. *)
Free(rs, i, busy) ==
  {a \in rs[i].start .. rs[i].end :
     /\ rs[i].sense = "allow" /\ a \notin busy
     /\ \E j \in DOMAIN rs : Decides(rs, i, a, j) /\ rs[j].sense = "allow"}

FirstFree_AnyUse(rs, busy, a) ==
  \E i \in DOMAIN rs :
    /\ a \in Free(rs, i, {})
    /\ \A j \in 1 .. i - 1 : Free(rs, j, {}) = {}
    /\ \A b \in Free(rs, i, {}) : a <= b

FirstFree_ThisRule(rs, busy, a) ==
  \E i \in DOMAIN rs :
    /\ rs[i].sense = "allow" /\ a \in (rs[i].start .. rs[i].end) \ busy
    /\ \A b \in (rs[i].start .. rs[i].end) \ busy : a <= b

(* get_addr: the first address that is free. *)
FirstFree(rs, busy, a) ==
  \E i \in DOMAIN rs :
    /\ a \in Free(rs, i, busy)
    /\ \A j \in 1 .. i - 1 : Free(rs, j, busy) = {}
    /\ \A b \in Free(rs, i, busy) : a <= b

Full_FirstRule(rs, busy) ==
  \A i \in DOMAIN rs : i = 1 => Free(rs, i, busy) = {}

(* get_addr: nothing is left. *)
Full(rs, busy) == \A i \in DOMAIN rs : Free(rs, i, busy) = {}

(* ICRQ on a tunnel of the peer p: a repeated request, or one that gets no *)
(* address, leaves a call to be closed.                                    *)
IncomingCall(c, p, l) ==
  LET new == [state |-> "ICRP", lns |-> l, peer |-> p, addr |-> NoAddr]
  IN  /\ running /\ calls[c].state = "none"
      /\ GetLns(p, l)
      /\ \/ /\ l \in assign
            /\ \E a \in RemoteAddrs :
                 /\ FirstFree(conf[l].range, used, a)
                 /\ calls' = [calls EXCEPT ![c] = [new EXCEPT !.addr = a]]
                 /\ used' = used \cup {a}
         \/ /\ l \in assign /\ Full(conf[l].range, used)
            /\ calls' = [calls EXCEPT ![c] = [new EXCEPT !.state = "full"]]
            /\ UNCHANGED used
         \/ /\ l \notin assign
            /\ calls' = [calls EXCEPT ![c] = new]
            /\ UNCHANGED used
         \/ /\ \E d \in Calls : calls[d].state # "none" /\ calls[d].peer = p
            /\ calls' = [calls EXCEPT ![c] = [new EXCEPT !.state = "repeated"]]
            /\ UNCHANGED used
      /\ UNCHANGED <<running, config, localaddr>>

(* ICCN: get_local_addr, when there is a local range. *)
Connect(c) ==
  LET l == calls[c].lns
      rs == conf[l].localrange
  IN  /\ calls[c].state = "ICRP"
      /\ \/ /\ rs = <<>>
            /\ calls' = [calls EXCEPT ![c].state = "ICCN"]
            /\ UNCHANGED <<used, localaddr>>
         \/ \E a \in LocalAddrs :
              /\ rs # <<>> /\ FirstFree(rs, used, a)
              /\ calls' = [calls EXCEPT ![c].state = "ICCN"]
              /\ used' = used \cup {a}
              /\ localaddr' = [localaddr EXCEPT ![l] = a]
         \/ /\ rs # <<>> /\ Full(rs, used)
            /\ calls' = [calls EXCEPT ![c].state = "full"]
            /\ localaddr' = [localaddr EXCEPT ![l] = NoAddr]
            /\ UNCHANGED used
      /\ UNCHANGED <<running, config>>

Released_OnlyConnected(c) ==
  (IF calls[c].state = "ICCN" THEN {calls[c].addr} ELSE {})
  \cup (IF conf[calls[c].lns].localrange = <<>> THEN {}
        ELSE {localaddr[calls[c].lns]})

(* destroy_call: what unreserve_addr gives back. *)
Released(c) ==
  {calls[c].addr} \cup (IF conf[calls[c].lns].localrange = <<>> THEN {}
                        ELSE {localaddr[calls[c].lns]})

(* destroy_call *)
DestroyCall(c) ==
  /\ calls[c].state # "none"
  /\ used' = used \ Released(c)
  /\ calls' = [calls EXCEPT ![c] = NoCall]
  /\ UNCHANGED <<running, config, localaddr>>

Next ==
  \/ \E l \in Sections : SetIprange(l) \/ SetLac(l) \/ SetLocaliprange(l)
                          \/ SetAssignip(l) \/ NewLns(l)
  \/ SetAccesscontrol \/ Start
  \/ \E c \in Calls :
       \/ \E p \in Peers, l \in Sections : IncomingCall(c, p, l)
       \/ Connect(c)
       \/ DestroyCall(c)

Spec == Init /\ [][Next]_vars

-----------------------------------------------------------------------------
(* Properties *)

(* Configuration, calls and addresses have their types; set_range has put  *)
(* only ranges that are not empty into the lists.                          *)
TypeOK ==
  /\ running \in BOOLEAN /\ access \in BOOLEAN /\ assign \subseteq Sections
  /\ lnslist \in Seq(Lns) /\ deflns \in BOOLEAN
  /\ \A l \in Sections :
       /\ conf[l].range \in Seq(Rules(RemoteAddrs))
       /\ conf[l].lacs \in Seq(Rules(Peers))
       /\ conf[l].localrange \in Seq(Rules(LocalAddrs))
  /\ calls \in [Calls -> [state : {"none", "ICRP", "ICCN", "full", "repeated"},
                          lns : Sections, peer : Peers \cup {0},
                          addr : RemoteAddrs \cup {NoAddr}]]
  /\ used \subseteq RemoteAddrs \cup LocalAddrs
  /\ localaddr \in [Sections -> LocalAddrs \cup {NoAddr}]

(* The addresses that some 'local ip range' names. *)
LocalRanged ==
  {a \in LocalAddrs :
     \E l \in Sections : \E j \in DOMAIN conf[l].localrange :
       InRange(a, conf[l].localrange[j])}

(* No two calls have the same remote address, whichever sections they are  *)
(* of and however their ranges overlap.  Excepted are addresses that an    *)
(* 'ip range' and a 'local ip range' both name: there is one table for     *)
(* both, and destroy_call gives back lns->localaddr, which may by then be  *)
(* the remote address of another call.                                     *)
RemoteUnique ==
  \A c, d \in Calls :
    calls[c].addr = calls[d].addr /\ calls[c].addr \notin LocalRanged \cup {NoAddr}
      => c = d

(* A remote address is reserved exactly while a call has it: none is given *)
(* back early, and none is lost when a call fails or repeats.  The same    *)
(* addresses are excepted.                                                 *)
RemoteReserved ==
  used \ LocalRanged
    = {calls[c].addr : c \in Calls} \ (LocalRanged \cup {NoAddr})

(* The reference for ranges: the last rule about an address decides. *)
Assignable(rs, a) ==
  \E j \in DOMAIN rs :
    /\ InRange(a, rs[j]) /\ rs[j].sense = "allow"
    /\ \A k \in DOMAIN rs : k > j => ~InRange(a, rs[k])

(* An address is of the ranges of the call's section, and not one that a   *)
(* later 'no ip range' takes out.                                          *)
FromRange ==
  \A c \in Calls :
    calls[c].addr # NoAddr => Assignable(conf[calls[c].lns].range, calls[c].addr)

(* A call is refused for want of an address only when every address its    *)
(* section may assign is in use ("No available IP address").               *)
RefusedOnlyIfFull ==
  [][\A c \in Calls :
       calls[c].state = "none" /\ calls'[c].state = "full" =>
         \A a \in RemoteAddrs :
           Assignable(conf[calls'[c].lns].range, a) => a \in used]_vars

(* The reference for access: the section is the first of the list whose    *)
(* rules allow the peer, or, without access control, the default when none *)
(* does.                                                                   *)
Entitled(l, p) ==
  \/ \E n \in DOMAIN Asked :
       /\ l = Asked[n] /\ Assignable(conf[l].lacs, p)
       /\ \A m \in 1 .. n - 1 : ~Assignable(conf[Asked[m]].lacs, p)
  \/ /\ ~access /\ l = Default
     /\ \A n \in DOMAIN Asked : ~Assignable(conf[Asked[n]].lacs, p)

(* A call is of the section that comes first in the list among those whose *)
(* rules allow its peer, the last rule about the peer deciding; the        *)
(* default takes others only without access control (get_lns).             *)
AccessRespected ==
  \A c \in Calls :
    calls[c].state # "none" => Entitled(calls[c].lns, calls[c].peer)
=============================================================================
