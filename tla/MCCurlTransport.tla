--------------------------- MODULE MCCurlTransport ---------------------------
(* CurlTransport on small sets of threads and handles, one handle more than
   there are threads.                                                      *)
EXTENDS CurlTransport
=============================================================================
