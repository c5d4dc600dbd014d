----------------------------- MODULE MCHttpServer -----------------------------
(* The driver has one buffer (fb_count in camera_control's configuration).    *)
EXTENDS HttpServer
=============================================================================
