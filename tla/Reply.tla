-------------------------------- MODULE Reply --------------------------------
(***************************************************************************)
(* A reply of the http server: its status, its headers and its content,    *)
(* which is the number of its bytes here.  The tables of the source are    *)
(* written by hand once for the status line and once for the page; a       *)
(* status is the name of its enumerator.                                   *)
(***************************************************************************)
EXTENDS Naturals, Sequences, SequencesExt

status_type ==
  [ok |-> 200, created |-> 201, accepted |-> 202, no_content |-> 204,
   multiple_choices |-> 300, moved_permanently |-> 301,
   moved_temporarily |-> 302, not_modified |-> 304, bad_request |-> 400,
   unauthorized |-> 401, forbidden |-> 403, not_found |-> 404,
   internal_server_error |-> 500, not_implemented |-> 501,
   bad_gateway |-> 502, service_unavailable |-> 503]

(* Status lines, by number and reason; what is no status is an error of the *)
(* server.                                                                  *)
status_strings ==
  [ok |-> <<200, "OK">>, created |-> <<201, "Created">>,
   accepted |-> <<202, "Accepted">>, no_content |-> <<204, "No Content">>,
   multiple_choices |-> <<300, "Multiple Choices">>,
   moved_permanently |-> <<301, "Moved Permanently">>,
   moved_temporarily |-> <<302, "Moved Temporarily">>,
   not_modified |-> <<304, "Not Modified">>,
   bad_request |-> <<400, "Bad Request">>,
   unauthorized |-> <<401, "Unauthorized">>,
   forbidden |-> <<403, "Forbidden">>, not_found |-> <<404, "Not Found">>,
   internal_server_error |-> <<500, "Internal Server Error">>,
   not_implemented |-> <<501, "Not Implemented">>,
   bad_gateway |-> <<502, "Bad Gateway">>,
   service_unavailable |-> <<503, "Service Unavailable">>]

(* Mutant: no case of its own. *)
NotFoundByDefault(status) ==
  status_strings[IF status \in DOMAIN status_strings \ {"not_found"}
                 THEN status ELSE "internal_server_error"]

to_buffer(status) ==
  status_strings[IF status \in DOMAIN status_strings
                 THEN status ELSE "internal_server_error"]

(* Pages, by title, and number and text of their heading. *)
Page(title, number, heading) ==
  [title |-> title, number |-> number, heading |-> heading]
NoPage == Page("", 0, "")
stock_replies ==
  [ok |-> NoPage,
   created |-> Page("Created", 201, "Created"),
   accepted |-> Page("Accepted", 202, "Accepted"),
   no_content |-> Page("No Content", 204, "Content"),
   multiple_choices |-> Page("Multiple Choices", 300, "Multiple Choices"),
   moved_permanently |-> Page("Moved Permanently", 301, "Moved Permanently"),
   moved_temporarily |-> Page("Moved Temporarily", 302, "Moved Temporarily"),
   not_modified |-> Page("Not Modified", 304, "Not Modified"),
   bad_request |-> Page("Bad Request", 400, "Bad Request"),
   unauthorized |-> Page("Unauthorized", 401, "Unauthorized"),
   forbidden |-> Page("Forbidden", 403, "Forbidden"),
   not_found |-> Page("Not Found", 404, "Not Found"),
   internal_server_error |-> Page("Internal Server Error", 500, "Internal Server Error"),
   not_implemented |-> Page("Not Implemented", 501, "Not Implemented"),
   bad_gateway |-> Page("Bad Gateway", 502, "Bad Gateway"),
   service_unavailable |-> Page("Service Unavailable", 503, "Service Unavailable")]
to_string(status) ==
  stock_replies[IF status \in DOMAIN stock_replies
                THEN status ELSE "internal_server_error"]

(* The bytes of a page: 67 are the same in all. *)
size(page) ==
  IF page = NoPage THEN 0 ELSE 67 + Len(page.title) + Len(page.heading)

-----------------------------------------------------------------------------
Headers(length, type) ==
  <<[name |-> "Content-Length", value |-> length],
    [name |-> "Content-Type", value |-> type]>>
NoReply == [status |-> "unset", headers |-> <<>>, content |-> 0]

stock_reply(status) ==
  LET length == size(to_string(status))
  IN  [status |-> status, headers |-> Headers(length, "text/html"),
       content |-> length]

(* What connection writes of a reply: status line, headers, an empty line    *)
(* and the content.                                                          *)
to_buffers(r) ==
  <<to_buffer(r.status)>>
    \o FlattenSeq([k \in DOMAIN r.headers |->
                     <<r.headers[k].name, r.headers[k].value>>])
    \o <<"", r.content>>

(* A client that reads what is written learns the status that was meant, and *)
(* where the content ends if it is told.                                     *)
SaysWhatItIs(r) ==
  LET wire == to_buffers(r)
  IN  /\ Head(wire)[1] = status_type[r.status]
      /\ wire[2] = "Content-Length" => wire[3] = Last(wire)

(* The page has the number of its status, and its title and its heading are  *)
(* the words of the status line.  The heading of 204 alone is short of one:  *)
(* "204 Content" (reply.cpp:112).                                            *)
PageAgrees(s) ==
  LET page == to_string(s)
  IN  \/ s = "ok" /\ page = NoPage
      \/ /\ page.number = status_type[s]
         /\ page.title = to_buffer(s)[2]
         /\ page.heading = IF s = "no_content" THEN "Content" ELSE page.title
=============================================================================
