---------------------------- MODULE MCHttpConn ----------------------------
(* Requests to files, pages and JSON functions: heads that are recognised  *)
(* late (lf), bodies that are shorter or longer than announced, announced  *)
(* lengths above the first block and above MAX_POSTLENGTH, a head that     *)
(* does not fit into the largest buffer.                                   *)
EXTENDS HttpConn

Req(method, to, head, lf, length, body) ==
    [method |-> method, to |-> to, head |-> head, lf |-> lf, length |-> length, body |-> body]

ClientRequests ==
    {Req(m, "file", 2, lf, -1, 0) : m \in {"GET", "HEAD", "PUT"}, lf \in BOOLEAN}
    \cup {Req("GET", "file", 22, FALSE, -1, 0)}
    \cup {Req("GET", "page", h, FALSE, -1, b) : h \in {2, 4}, b \in {0, 1}}
    \cup {Req("POST", to, 2, lf, length, b) :
            to \in {"file", "page", "json"}, lf \in BOOLEAN, length \in {-1, 0, 2, 4, 5}, b \in {0, 2, 4, 5}}
=============================================================================
