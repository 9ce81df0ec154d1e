------------------------------- MODULE MCSockets -------------------------------
(***************************************************************************)
(* Small instances of Sockets: the applications.                           *)
(***************************************************************************)
EXTENDS Sockets, TLC

CONSTANTS u1, u2, s1, s2, p1, p2

On(s, calls) == calls \X {s}
Two(a, b) == (u1 :> a) @@ (u2 :> b)
To(blocking, trying) == ("send" :> blocking) @@ ("trysend" :> trying)

\* A socket that is polled and read by two threads while it is connected
Reading == [calls |-> Two(On(s1, {"open", "recv"}),
                          On(s1, {"tryrecv", "poll", "connect"})),
            to |-> To({}, {}), partners |-> {p1}, events |-> {{"in"}},
            peers |-> {p1, p2}, senders |-> {p1, p2}]

\* A socket that is shut down, closed, or made a control socket
Closing == [calls |-> Two(On(s1, {"open", "tryrecv", "shutRd", "shutWr"}),
                          On(s1, {"control", "poll", "close"})),
            to |-> To({}, {}), partners |-> {}, events |-> {{"in"}},
            peers |-> {p1}, senders |-> {p1}]

\* A thread that waits for one peer, and one that tries another
Writing == [calls |-> Two(On(s1, {"open", "send"}),
                          On(s1, {"trysend", "tryrecv", "shutWr"})),
            to |-> To({p1}, {p2}), partners |-> {}, events |-> {},
            peers |-> {p1, p2}, senders |-> {}]

\* Two sockets here; the first is connected to the second and tries to send.
Local == [calls |-> Two(On(s1, {"open", "connect", "trysend", "tryrecv", "close"}),
                        On(s2, {"open", "recv", "shutRd", "close"})),
          to |-> To({}, {Null, s2}), partners |-> {s2}, events |-> {},
          peers |-> {}, senders |-> {}]

\* The same, with a thread that waits and a control socket that watches
Watching == [calls |-> Two(On(s1, {"open", "send", "close"}),
                           On(s2, {"open", "tryrecv", "control", "poll"})),
             to |-> To({s2}, {}), partners |-> {}, events |-> {{"in"}, {"out"}},
             peers |-> {}, senders |-> {}]

Passing == {Reading, Closing, Writing, Local, Watching}
=============================================================================
