----------------------------- MODULE MCCurlGlobal -----------------------------
(* CurlGlobal with three threads that construct two static clients and one
   that is not.                                                            *)
EXTENDS CurlGlobal
=============================================================================
