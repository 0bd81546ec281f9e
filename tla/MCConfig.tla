------------------------------ MODULE MCConfig ------------------------------
(* A small instance of Config for TLC: the settings that depend on each other, *)
(* the two that have no default, and one that does not get far.                *)
EXTENDS Config

InFile      == Required \cup {"http1_only", "http2_only"}
InEnv       == {"http1_only", "http2_only", "http2_max_send_buf_size"}
WithSetters == {"http1_only", "http2_only", "http2_adaptive_window",
                "http2_initial_stream_window_size"}
Sizes       == {"16k"}
=============================================================================
