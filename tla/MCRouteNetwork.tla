--------------------------- MODULE MCRouteNetwork ---------------------------
(* Two headers, one of them built in two orders, and a content that itself *)
(* looks like the end of the metadata.                                     *)
EXTENDS RouteNetwork

MCHeaders  == {<<<<1, 7>>, <<2, 1>>>>, <<<<2, 1>>, <<1, 7>>>>, <<<<1, 8>>>>}
MCMetas    == {<<<<3, 1>>>>}
MCContents == {<<JsonClose>>}
=============================================================================
