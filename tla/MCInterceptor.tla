--------------------------- MODULE MCInterceptor ---------------------------
EXTENDS Interceptor

MCMaxEvents == 1
MCMaxLines == 2

=============================================================================
